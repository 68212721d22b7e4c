------------------------------- MODULE Watch -------------------------------
(***************************************************************************)
(* The watch of one staged volume: it listens to the volume's bucket and   *)
(* drops the mount's listing cache where objects were created or removed.  *)
(*                                                                         *)
(* Six kinds of threads meet here: the bucket's writers, the readers of    *)
(* the mount (which fill the cache), the watch's loop with the stream it   *)
(* reads, the timers' flush goroutines, the runner of whole-cache drops,   *)
(* and the walks that warm the cache of a read-only volume again.  Times   *)
(* are abstract: a delay passes, or refusedRefresh or listenIdle does.     *)
(***************************************************************************)
EXTENDS Naturals, Sequences, SequencesExt

CONSTANTS
    Key,        \* object keys below the mount's prefix: sequences of names
    MaxDirs,    \* a burst touching more directories drops the whole cache
    Flusher,    \* flush goroutines that may run at a time (a bound of ours)
    MaxQueue,   \* events on their way in the stream (a bound of ours)
    Rewarm,     \* the volume is only read: what is dropped is walked again
    Faults      \* what may happen: "drop", setxattr fails; "resolve", volumeTarget
                \* fails; "cancel", the watch is stopped or replaced; "silent",
                \* the connection dies without a word; "walk", a listing fails

ASSUME WatchAssumption ==
    /\ \A k \in Key : k \in Seq(STRING) /\ k # << >>
    /\ MaxDirs \in Nat /\ MaxQueue \in Nat \ {0}
    /\ Rewarm \in BOOLEAN
    /\ Faults \subseteq {"drop", "resolve", "cancel", "silent", "walk"}

Root == << >>
changedDir(k) == Front(k)
\* The directories of the mount, relative to it: "." is << >>.
Dir == {Root} \cup UNION {{SubSeq(k, 1, n) : n \in 0..(Len(k) - 1)} : k \in Key}

VARIABLES
    bucket,     \* the objects there are
    cached,     \* geesefs's cache: the listing of each directory it keeps
    heard,      \* the server has registered the listener
    stream,     \* the events it has for it that were not read yet
    pc,         \* where run is
    due,        \* refusedRefresh has passed since *dropped
    pending, flushing, dropping, dropAgain,
    todo, at,   \* each flush goroutine: targets left, and the one it is at
    dropped,    \* what it has dropped
    runner,     \* the goroutine dropAll starts
    walk,       \* the directories the volume's walks have still to list
    ended,      \* the watch's context was cancelled
    lost        \* a drop or a listing of a walk failed, is not tried again, and no
                \* whole drop came since

vars == <<bucket, cached, heard, stream, pc, due, pending, flushing, dropping, dropAgain,
          todo, at, dropped, runner, walk, ended, lost>>
flushVars == <<todo, at, dropped>>
watchVars == <<pending, flushing, dropping, dropAgain, flushVars, runner, walk>>

(***************************************************************************)
(* The bucket and the mount (external).                                    *)
(***************************************************************************)
Listing(b, d) == {SubSeq(k, 1, Len(d) + 1) : k \in {j \in b : IsStrictPrefix(d, j)}}
Exists(d) == d = Root \/ Listing(bucket, d) # {}

\* An object is created or removed; a listener the server has registered gets
\* an event.
Change(k) ==
    /\ bucket' = (bucket \cup {k}) \ (bucket \cap {k})
    /\ \/ ~heard /\ UNCHANGED stream
       \/ heard /\ Len(stream) < MaxQueue /\ stream' = Append(stream, k)
    /\ UNCHANGED <<cached, heard, pc, due, watchVars, ended, lost>>

\* No cached listing on the way to a directory hides it.
Visible(d) ==
    \A c \in DOMAIN cached : IsStrictPrefix(c, d) => SubSeq(d, 1, Len(c) + 1) \in cached[c]

\* A directory can be listed: its parent's cached listing shows it (if it is gone
\* by now, it is found empty), or without one the server has it.
Reachable(d) ==
    Visible(d) /\ (Exists(d) \/ Front(d) \in DOMAIN cached)

\* setxattr finds it: the attribute asks the server again, and it is there.
Found(d) == Visible(d) /\ Exists(d)

\* The listing of d is in the cache from now on.
Fill(d) == cached' = [c \in DOMAIN cached \cup {d} |->
                        IF c \in DOMAIN cached THEN cached[c] ELSE Listing(bucket, d)]

\* A pod lists a directory.
Read(d) ==
    /\ d \notin DOMAIN cached /\ Reachable(d)
    /\ Fill(d)
    /\ UNCHANGED <<bucket, heard, stream, pc, due, watchVars, ended, lost>>

\* invalidate: the cache of a directory and of all below it goes, or the call
\* fails, which is logged and no more.
Dropped(d) ==
    /\ cached' = [c \in {x \in DOMAIN cached : ~IsPrefix(d, x)} |-> cached[c]]
    /\ lost' = (lost /\ d # Root)
DropFails == "drop" \in Faults /\ lost' = TRUE /\ UNCHANGED cached
invalidate(d) == Dropped(d) \/ DropFails

(***************************************************************************)
(* dropAll and its runner.                                                 *)
(***************************************************************************)
dropAll ==
    IF dropping THEN dropAgain' = TRUE /\ UNCHANGED <<dropping, runner>>
                ELSE dropping' = TRUE /\ runner' = "drop" /\ UNCHANGED dropAgain

\* warm: paths of the volume are walked, besides what is walked already;
\* stopWarm: no walk of the volume goes on.
warm(P) == walk' = walk \cup P
stopWarm == walk' = {}

\* Mutant of dropAllNow: the cache is not walked again.
dropAllNowCold ==
    /\ runner = "drop" /\ runner' = "next"
    /\ IF ended THEN UNCHANGED <<cached, lost, walk>> ELSE stopWarm /\ invalidate(Root)
    /\ UNCHANGED <<bucket, heard, stream, pc, due, pending, flushing, dropping, dropAgain,
                   flushVars, ended>>

\* A drop that fails leaves the walks stopped.
dropAllNow ==
    /\ \/ runner = "drop" /\ ended /\ runner' = "next" /\ UNCHANGED <<cached, lost, walk>>
       \/ /\ runner = "drop" /\ ~ended /\ stopWarm /\ Dropped(Root)
          /\ runner' = IF Rewarm THEN "warm" ELSE "next"
       \/ runner = "drop" /\ ~ended /\ stopWarm /\ DropFails /\ runner' = "next"
       \/ runner = "warm" /\ warm({Root}) /\ runner' = "next" /\ UNCHANGED <<cached, lost>>
    /\ UNCHANGED <<bucket, heard, stream, pc, due, pending, flushing, dropping, dropAgain,
                   flushVars, ended>>

\* Mutants of NextDrop: the drop asked meanwhile is forgotten; the request for
\* it is never reset; the runner goes on as if it had ended.
NextDropNone ==
    /\ runner = "next"
    /\ runner' = "off" /\ dropping' = FALSE /\ dropAgain' = FALSE
    /\ UNCHANGED <<bucket, cached, heard, stream, pc, due, pending, flushing, flushVars, walk, ended, lost>>
NextDropForEver ==
    /\ runner = "next"
    /\ runner' = IF dropAgain THEN "drop" ELSE "off"
    /\ dropping' = dropAgain
    /\ UNCHANGED <<bucket, cached, heard, stream, pc, due, pending, flushing, dropAgain, flushVars,
                   walk, ended, lost>>
NextDropUnmarked ==
    /\ runner = "next"
    /\ runner' = IF dropAgain THEN "drop" ELSE "off"
    /\ dropping' = FALSE /\ dropAgain' = FALSE
    /\ UNCHANGED <<bucket, cached, heard, stream, pc, due, pending, flushing, flushVars, walk, ended, lost>>

NextDrop ==
    /\ runner = "next"
    /\ runner' = IF dropAgain THEN "drop" ELSE "off"
    /\ dropping' = dropAgain
    /\ dropAgain' = FALSE
    /\ UNCHANGED <<bucket, cached, heard, stream, pc, due, pending, flushing, flushVars, walk, ended, lost>>

(***************************************************************************)
(* flush, when the timer of a burst fires.                                 *)
(***************************************************************************)
outermost(S) == {d \in S : ~\E o \in S : IsStrictPrefix(o, d)}

NoDir == {}

flush(f) ==
    /\ flushing /\ todo[f] = {} /\ at[f] = NoDir /\ dropped[f] = {}
    /\ pending' = {} /\ flushing' = FALSE
    /\ LET targets == outermost(pending)
           whole   == targets = {Root} \/ Cardinality(targets) > MaxDirs
       IN \/ ended /\ UNCHANGED <<dropping, dropAgain, runner, todo>>
          \/ ~ended /\ whole /\ dropAll /\ UNCHANGED todo
          \/ /\ ~ended /\ ~whole /\ todo' = [todo EXCEPT ![f] = targets]
             /\ UNCHANGED <<dropping, dropAgain, runner>>
    /\ UNCHANGED <<bucket, cached, heard, stream, pc, due, at, dropped, walk, ended, lost>>

FlushNext(f) ==
    /\ at[f] = NoDir
    /\ \E d \in todo[f] :
         /\ todo' = [todo EXCEPT ![f] = @ \ {d}]
         /\ at' = [at EXCEPT ![f] = {d}]
    /\ UNCHANGED <<bucket, cached, heard, stream, pc, due, pending, flushing, dropping, dropAgain,
                   dropped, runner, walk, ended, lost>>

\* One setxattr: of a directory that is not found, the parent is next.
invalidateNearest(f) ==
    /\ \E d \in at[f] :
         \/ /\ Found(d) /\ Dropped(d) /\ at' = [at EXCEPT ![f] = NoDir]
            /\ dropped' = IF Rewarm THEN [dropped EXCEPT ![f] = @ \cup {d}] ELSE dropped
         \/ ~Found(d) /\ at' = [at EXCEPT ![f] = {Front(d)}] /\ UNCHANGED <<cached, dropped, lost>>
         \/ DropFails /\ at' = [at EXCEPT ![f] = NoDir] /\ UNCHANGED dropped
    /\ UNCHANGED <<bucket, heard, stream, pc, due, pending, flushing, dropping, dropAgain, todo,
                   runner, walk, ended>>

\* flush is through with its targets.
FlushWarm(f) ==
    /\ todo[f] = {} /\ at[f] = NoDir /\ dropped[f] # {}
    /\ warm(dropped[f])
    /\ dropped' = [dropped EXCEPT ![f] = {}]
    /\ UNCHANGED <<bucket, cached, heard, stream, pc, due, pending, flushing, dropping, dropAgain,
                   todo, at, runner, ended, lost>>

(***************************************************************************)
(* warmUp: a directory is listed, then the directories in it.              *)
(***************************************************************************)
warmUp(d) ==
    /\ d \in walk
    /\ \/ /\ Reachable(d) /\ Fill(d)
          /\ walk' = (walk \ {d}) \cup (cached'[d] \cap Dir)
          /\ UNCHANGED lost
       \/ ~Reachable(d) /\ walk' = walk \ {d} /\ UNCHANGED <<cached, lost>>
       \/ "walk" \in Faults /\ walk' = walk \ {d} /\ lost' = TRUE /\ UNCHANGED cached
    /\ UNCHANGED <<bucket, heard, stream, pc, due, pending, flushing, dropping, dropAgain,
                   flushVars, runner, ended>>

(***************************************************************************)
(* run.                                                                    *)
(***************************************************************************)
Step(from, to) == pc = from /\ pc' = to

Resolve ==
    /\ Step("resolve", "listen")
    /\ UNCHANGED <<bucket, cached, heard, stream, due, watchVars, ended, lost>>

\* volumeTarget fails: a delay, unless the watch ends meanwhile, and again.
ResolveFails ==
    /\ "resolve" \in Faults
    /\ Step("resolve", "resolvewait")
    /\ UNCHANGED <<bucket, cached, heard, stream, due, watchVars, ended, lost>>

ResolveAgain ==
    /\ \/ Step("resolvewait", "resolve") /\ ~ended
       \/ Step("resolvewait", "ended") /\ ended
    /\ UNCHANGED <<bucket, cached, heard, stream, due, watchVars, ended, lost>>

\* Listen: the server registers the listener, then its answer arrives.
Register ==
    /\ Step("listen", "answer") /\ ~ended
    /\ heard' = TRUE
    /\ UNCHANGED <<bucket, cached, stream, due, watchVars, ended, lost>>

\* Listen returns before connected ran: refused, an error, or no answer.
ListenFails ==
    /\ \/ Step("listen", "wait") \/ Step("answer", "wait")
    /\ ~ended
    /\ heard' = FALSE /\ stream' = << >>
    /\ UNCHANGED <<bucket, cached, due, watchVars, ended, lost>>

\* Mutant of connected: what went unheard before is not dropped.
connectedOnly ==
    /\ Step("answer", "stream")
    /\ UNCHANGED <<bucket, cached, heard, stream, due, watchVars, ended, lost>>

connected ==
    /\ Step("answer", "stream")
    /\ dropAll
    /\ UNCHANGED <<bucket, cached, heard, stream, due, pending, flushing, flushVars, walk, ended, lost>>

changed ==
    /\ pc = "stream" /\ stream # << >>
    /\ pending' = pending \cup {changedDir(Head(stream))}
    /\ flushing' = TRUE
    /\ stream' = Tail(stream)
    /\ UNCHANGED <<bucket, cached, heard, pc, due, dropping, dropAgain, flushVars, runner, walk, ended, lost>>

StreamBreaks ==
    /\ Step("stream", "sleep") /\ ~ended
    /\ heard' = FALSE /\ stream' = << >>
    /\ UNCHANGED <<bucket, cached, due, watchVars, ended, lost>>

\* The server, or the network, is gone and nobody says so.
Silence ==
    /\ "silent" \in Faults
    /\ heard /\ heard' = FALSE /\ stream' = << >>
    /\ UNCHANGED <<bucket, cached, pc, due, watchVars, ended, lost>>

\* Mutant of watchdog: nobody looks after a silent connection.
watchdogAsleep == FALSE /\ UNCHANGED vars

\* Listen's watchdog: nothing, not even a ping, came for listenIdle.
watchdog ==
    /\ Step("stream", "sleep") /\ ~heard /\ ~ended
    /\ UNCHANGED <<bucket, cached, heard, stream, due, watchVars, ended, lost>>

\* The context ended: Listen returns, and so does run.
ListenEnds ==
    /\ ended /\ pc \in {"listen", "answer", "stream"}
    /\ pc' = "ended" /\ heard' = FALSE /\ stream' = << >>
    /\ UNCHANGED <<bucket, cached, due, watchVars, ended, lost>>

\* sleep: the timer, or the end of the context, if there is one.
Sleep ==
    /\ \/ Step("sleep", "listen") /\ ~ended
       \/ Step("sleep", "ended") /\ ended
    /\ UNCHANGED <<bucket, cached, heard, stream, due, watchVars, ended, lost>>

\* waitDropping: a drop if one is due, then a wait for the next or for the end.
\* The volume is not walked again, read-only or not.
WaitDrop ==
    /\ Step("wait", "waiting")
    /\ IF due THEN stopWarm /\ invalidate(Root) ELSE UNCHANGED <<cached, lost, walk>>
    /\ due' = FALSE
    /\ UNCHANGED <<bucket, heard, stream, pending, flushing, dropping, dropAgain, flushVars,
                   runner, ended>>

Wait ==
    /\ \/ Step("waiting", "wait") /\ due /\ ~ended
       \/ Step("waiting", "listen") /\ ~ended
       \/ Step("waiting", "ended") /\ ended
    /\ UNCHANGED <<bucket, cached, heard, stream, due, watchVars, ended, lost>>

\* refusedRefresh passes.
Elapse ==
    /\ ~due /\ due' = TRUE
    /\ UNCHANGED <<bucket, cached, heard, stream, pc, watchVars, ended, lost>>

\* stopWatch, or a startWatch that replaces this watch.
cancel ==
    /\ "cancel" \in Faults
    /\ ~ended /\ ended' = TRUE
    /\ UNCHANGED <<bucket, cached, heard, stream, pc, due, watchVars, lost>>

run ==
    \/ Register \/ ListenFails \/ connected \/ changed \/ watchdog \/ ListenEnds
    \/ Sleep \/ WaitDrop \/ Wait \/ ResolveAgain

(***************************************************************************)
Init ==
    /\ bucket \in SUBSET Key
    /\ cached = [d \in {} |-> {}]
    /\ heard = FALSE /\ stream = << >>
    /\ pc = "resolve"
    /\ due = TRUE
    /\ pending = {} /\ flushing = FALSE
    /\ dropping = FALSE /\ dropAgain = FALSE
    /\ todo = [f \in Flusher |-> {}] /\ at = [f \in Flusher |-> NoDir]
    /\ dropped = [f \in Flusher |-> {}] /\ walk = {}
    /\ runner = "off"
    /\ ended = FALSE /\ lost = FALSE

FlushStep(f) == flush(f) \/ FlushNext(f) \/ invalidateNearest(f) \/ FlushWarm(f)

Next ==
    \/ \E k \in Key : Change(k)
    \/ \E d \in Dir : Read(d)
    \/ Resolve \/ ResolveFails \/ StreamBreaks \/ Silence \/ run
    \/ Elapse \/ cancel
    \/ \E f \in Flusher : FlushStep(f)
    \/ dropAllNow \/ NextDrop
    \/ \E d \in Dir : warmUp(d)

\* Goroutines run, timers fire, Listen returns in listenIdle at the latest or
\* else delivers what it gets.  volumeTarget answers; how is left open.
Fairness ==
    /\ WF_vars(run) /\ WF_vars(ListenEnds)
    /\ WF_vars(Resolve \/ ResolveFails)
    /\ WF_vars(Elapse)
    /\ \A f \in Flusher : WF_vars(FlushStep(f))
    /\ WF_vars(dropAllNow \/ NextDrop)
    /\ \A d \in Dir : WF_vars(warmUp(d))

Spec == Init /\ [][Next]_vars /\ Fairness

\* The same where volumeTarget succeeds in the end.
ResolvingSpec == Spec /\ SF_vars(Resolve)

(***************************************************************************)
(* Properties.                                                             *)
(***************************************************************************)
TypeOK ==
    /\ bucket \subseteq Key
    /\ DOMAIN cached \subseteq Dir /\ \A d \in DOMAIN cached : cached[d] \subseteq Dir \cup Key
    /\ stream \in Seq(Key) /\ Len(stream) <= MaxQueue
    /\ pc \in {"resolve", "resolvewait", "listen", "answer", "stream", "sleep", "wait",
               "waiting", "ended"}
    /\ pending \subseteq Dir
    /\ todo \in [Flusher -> SUBSET Dir] /\ at \in [Flusher -> SUBSET Dir]
    /\ dropped \in [Flusher -> SUBSET Dir] /\ walk \subseteq Dir
    /\ runner \in {"off", "drop", "warm", "next"}
    /\ {heard, due, flushing, dropping, dropAgain, ended, lost} \subseteq BOOLEAN
    /\ dropping = (runner # "off") /\ (dropAgain => dropping)

Stale(d) == d \in DOMAIN cached /\ cached[d] # Listing(bucket, d)

\* A drop that will reach the directory is on its way.
DropComes(d) ==
    \/ runner = "drop" \/ dropAgain
    \/ \E k \in ToSet(stream) : IsPrefix(d, changedDir(k))
    \/ \E p \in pending : IsPrefix(d, p)
    \/ \E f \in Flusher : \E x \in todo[f] \cup at[f] : IsPrefix(d, x) \/ IsPrefix(x, d)

\* While the watch is heard, no listing goes wrong unnoticed: whatever the order
\* of changes, reads, events, bursts and drops, a stale listing of the cache has
\* an event, a burst or a drop on its way that takes it out.
StaleIsNoticed ==
    pc = "stream" /\ heard /\ ~ended /\ ~lost => \A d \in Dir : Stale(d) => DropComes(d)

Cold(d) == Exists(d) /\ d \notin DOMAIN cached

\* A walk that will reach the directory is under way or about to start.
WalkComes(d) ==
    \/ runner = "warm"
    \/ \E x \in walk \cup UNION {dropped[f] : f \in Flusher} : IsPrefix(x, d)

\* While the watch is heard, a read-only volume gets warm again: whatever walks a
\* drop of the whole cache stopped, a directory whose listing is not in the cache
\* has a walk on its way, or a drop that starts one.
ColdIsWalked ==
    Rewarm /\ pc = "stream" /\ heard /\ ~ended /\ ~lost =>
       \A d \in Dir : Cold(d) => WalkComes(d) \/ DropComes(d)

\* A stale listing does not stay, whether the bucket is heard or not.
StaleIsDropped ==
    \A d \in Dir : Stale(d) ~> ~Stale(d) \/ ended \/ lost

\* A cancelled watch ends its loop, its flushes and its drops.  The walks go on:
\* they are the volume's, and stopWarm ends them.
EndedStops ==
    ended ~> /\ pc = "ended" /\ runner = "off" /\ ~flushing
             /\ \A f \in Flusher : todo[f] = {} /\ at[f] = NoDir /\ dropped[f] = {}
=============================================================================
