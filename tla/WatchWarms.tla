----------------------------- MODULE WatchWarms -----------------------------
(***************************************************************************)
(* The proof of ColdIsWalked: what the watch drops of the cache of a       *)
(* volume that is only read is walked again.                               *)
(***************************************************************************)
EXTENDS WatchProofs

\* Where walks go on, or will when a flush is through: a target that is dropped is
\* walked, and one that is not found leads to a parent that is.
Walkers == walk \cup UNION {dropped[f] \cup todo[f] \cup at[f] : f \in Flusher}

Covered(d) == WholeComes \/ runner = "warm" \/ \E x \in Walkers : IsPrefix(x, d)

\* ColdIsWalked, for all that a walk can reach: directories that exist, and those
\* that a cached listing still shows, for they may be made again before the walk
\* is there.  The way to the others is blocked by a stale listing: HiddenInv.
WalkInv ==
    Rewarm /\ Listening =>
       \A d \in Dir : d \notin DOMAIN cached /\ Reachable(d) => Covered(d)

LEMMA WalkerPath == TypeOK => \A x \in Walkers : x \in Path /\ x \in Dir
  BY DirPath DEF TypeOK, Walkers

LEMMA CoveredBelow ==
    ASSUME TypeOK, NEW y \in Path, NEW d \in Path, Covered(y), IsPrefix(y, d)
    PROVE  Covered(d)
  BY WalkerPath, PrefixOrder DEF Covered

LEMMA VisibleAbove ==
    ASSUME TypeOK, NEW d \in Path, Visible(d), NEW y \in Path, IsPrefix(y, d)
    PROVE  Visible(y)
  <1>1. SUFFICES ASSUME NEW c \in DOMAIN cached, IsStrictPrefix(c, y) PROVE Toward(c, y) \in cached[c]
    BY DEF Visible, Toward
  <1>2. c \in Path
    BY DirPath DEF TypeOK
  <1>3. IsStrictPrefix(c, d)
    BY <1>1, <1>2, PrefixOrder DEF IsStrictPrefix
  <1>4. Toward(c, y) = Toward(c, d)
    <2>1. /\ Toward(c, y) \in Path /\ Toward(c, y) # Root /\ Front(Toward(c, y)) = c
          /\ IsPrefix(Toward(c, y), y)
      BY <1>1, <1>2, TowardPath
    <2>2. IsPrefix(Toward(c, y), d)
      BY <2>1, PrefixOrder
    <2> QED  BY <1>2, <1>3, <2>1, <2>2, TowardPath
  <1> QED  BY <1>3, <1>4 DEF Visible, Toward

\* What is not cached and not hidden is covered, whether it exists or not: from
\* the first directory below the last cached one on the way.
LEMMA CoveredFromAbove ==
    ASSUME TypeOK, Rewarm, Listening, WalkInv, NEW d \in Dir, d \notin DOMAIN cached, Visible(d)
    PROVE  Covered(d)
  <1> DEFINE cut(n) == SubSeq(d, 1, n)
             T == {n \in 0..Len(d) : \A i \in n..Len(d) : cut(i) \notin DOMAIN cached}
  <1>a. d \in Path /\ Len(d) \in Nat
    BY DirPath DEF Path
  <1>b. \A n \in 0..Len(d) : cut(n) \in Path /\ Len(cut(n)) = n /\ IsPrefix(cut(n), d)
    BY <1>a, PrefixCut
  <1>c. cut(Len(d)) = d
    BY <1>a, SubSeqFull DEF Path
  <1> HIDE DEF cut
  <1>1. T \subseteq Nat /\ T # {}
    <2>1. Len(d) \in T
      BY <1>a, <1>c
    <2> QED  BY <2>1
  <1>2. PICK n \in T : \A m \in T : n <= m
    <2> HIDE DEF T
    <2> QED  BY <1>1, LeastNat
  <1>3. n \in 0..Len(d) /\ cut(n) \notin DOMAIN cached
    BY <1>a
  <1>4. cut(n) \in Dir /\ Visible(cut(n))
    BY <1>a, <1>b, <1>3, DirPath, VisibleAbove
  <1>5. Reachable(cut(n))
    <2>1. CASE n = 0
      <3>1. cut(n) = Root
        BY <1>b, <1>3, <2>1, RootPath
      <3> QED  BY <1>4, <3>1 DEF Reachable, Exists
    <2>2. CASE n # 0
      <3>1. n - 1 \in 0..Len(d) /\ n - 1 \notin T
        BY <1>a, <1>2, <1>3, <2>2
      <3>2. PICK i \in (n - 1)..Len(d) : cut(i) \in DOMAIN cached
        BY <3>1
      <3>3. i = n - 1
        BY <1>2, <1>3, <1>a, <3>2
      <3>4. Front(cut(n)) = cut(n - 1)
        <4>1. cut(n) # Root
          BY <1>b, <1>3, <2>2, RootPath
        <4>2. Front(cut(n)) \in Path /\ IsPrefix(Front(cut(n)), cut(n)) /\ Len(Front(cut(n))) + 1 = n
          BY <1>b, <1>3, <4>1, FrontPrefix
        <4>3. IsPrefix(Front(cut(n)), d)
          BY <1>a, <1>b, <1>3, <4>2, PrefixOrder
        <4>4. Len(Front(cut(n))) = n - 1
          BY <4>2, <1>3, <1>a DEF Path
        <4> QED  BY <1>a, <3>1, <4>2, <4>3, <4>4, PrefixCut DEF cut
      <3> QED  BY <1>4, <3>2, <3>3, <3>4 DEF Reachable
    <2> QED  BY <2>1, <2>2
  <1>6. Covered(cut(n))
    BY <1>3, <1>4, <1>5 DEF WalkInv
  <1> QED  BY <1>a, <1>b, <1>3, <1>6, CoveredBelow

(***************************************************************************)
(* The steps.                                                              *)
(***************************************************************************)
\* Steps that leave bucket and cache alone and give no walk up.
LEMMA WalkFrame ==
    ASSUME WalkInv, UNCHANGED <<bucket, cached>>,
           Rewarm /\ Listening' => Listening /\ \A d \in Dir : Covered(d) => Covered(d)'
    PROVE  WalkInv'
  <1>1. \A d \in Dir : UNCHANGED Reachable(d)
    BY DEF Reachable, Visible, Exists, Listing
  <1> QED  BY <1>1 DEF WalkInv

\* Steps that end the listening, or after which everything is to be walked.
LEMMA WalkAll ==
    ASSUME Rewarm /\ Listening' => WholeComes' \/ runner' = "warm" \/ Root \in Walkers'
    PROVE  WalkInv'
  BY DirPath, PrefixOrder DEF WalkInv, Covered

LEMMA SameWalks ==
    ASSUME runner' = runner, dropAgain' = dropAgain, Walkers \subseteq Walkers', NEW d, Covered(d)
    PROVE  Covered(d)'
  BY DEF Covered, WholeComes

\* A directory that comes into being is below one that is covered, or cached.
LEMMA ChangeWalks ==
    ASSUME TypeOK, WalkInv, NEW k \in Key, Change(k)
    PROVE  WalkInv'
  <1> USE DEF watchVars, flushVars
  <1>1. UNCHANGED <<cached, pc, heard, ended, lost, runner, dropAgain, walk, todo, at, dropped>>
    BY DEF Change
  <1>2. SUFFICES ASSUME Rewarm, Listening, NEW d \in Dir, d \notin DOMAIN cached, Visible(d)
                 PROVE  Covered(d)'
    BY <1>1 DEF WalkInv, Listening, Reachable, Visible
  <1>3. Covered(d)
    BY <1>2, CoveredFromAbove
  <1> QED  BY <1>1, <1>3, SameWalks DEF Walkers

\* A pod's listing.
LEMMA ReadWalks ==
    ASSUME TypeOK, WalkInv, NEW x \in Dir, Read(x)
    PROVE  WalkInv'
  <1> USE DEF watchVars, flushVars
  <1>1. /\ UNCHANGED <<bucket, pc, heard, ended, lost, runner, dropAgain, walk, todo, at, dropped>>
        /\ x \notin DOMAIN cached /\ Reachable(x)
        /\ DOMAIN cached' = DOMAIN cached \cup {x}
        /\ \A c \in DOMAIN cached : cached'[c] = cached[c]
    BY DEF Read, Fill
  <1>2. SUFFICES ASSUME Rewarm, Listening, NEW d \in Dir, d \notin DOMAIN cached', Visible(d)'
                 PROVE  Covered(d)'
    BY <1>1 DEF WalkInv, Listening, Reachable
  <1>3. Visible(d)
    BY <1>1, <1>2 DEF Visible
  <1>4. Covered(d)
    BY <1>1, <1>2, <1>3, CoveredFromAbove
  <1> QED  BY <1>1, <1>4, SameWalks DEF Walkers

\* A walk lists a directory and goes on with those in it.
LEMMA WalkWalks ==
    ASSUME TypeOK, WalkInv, NEW x \in Dir, warmUp(x)
    PROVE  WalkInv'
  <1> USE DEF flushVars
  <1>1. /\ UNCHANGED <<bucket, pc, heard, ended, runner, dropAgain, todo, at, dropped>>
        /\ x \in walk
    BY DEF warmUp
  <1>a. x \in Path /\ \A y \in Walkers : y # x /\ walk \ {x} \subseteq walk' => y \in Walkers'
    BY <1>1, DirPath DEF Walkers
  <1>2. CASE lost'
    BY <1>2, WalkAll DEF Listening
  <1>3. CASE ~Reachable(x) /\ walk' = walk \ {x} /\ UNCHANGED <<cached, lost>>
    <2>1. SUFFICES ASSUME Rewarm, Listening, NEW d \in Dir, d \notin DOMAIN cached, Reachable(d)
                   PROVE  Covered(d)'
      BY <1>1, <1>3 DEF WalkInv, Listening, Reachable, Visible, Exists, Listing
    <2>a. d \in Path
      BY DirPath
    <2>2. Covered(d)
      BY <2>1 DEF WalkInv
    <2>3. ASSUME NEW y \in Walkers, IsPrefix(y, d), y # x PROVE Covered(d)'
      <3>1. y \in Walkers'
        BY <1>3, <1>a, <2>3
      <3> QED  BY <2>3, <3>1 DEF Covered
    <2>4. CASE IsPrefix(x, d)
      <3>1. Visible(x)
        BY <1>a, <2>1, <2>a, <2>4, VisibleAbove DEF Reachable
      <3>2. x # Root
        BY <1>3, <3>1 DEF Reachable, Exists
      <3>3. Front(x) \in Dir /\ Front(x) \in Path /\ Front(x) \notin DOMAIN cached
        BY <1>3, <3>1, <3>2, DirPath DEF Reachable
      <3>4. IsPrefix(Front(x), x) /\ Front(x) # x
        BY <1>a, <3>2, FrontPrefix
      <3>5. Covered(Front(x))
        BY <1>a, <2>1, <3>1, <3>3, <3>4, VisibleAbove, CoveredFromAbove
      <3>6. CASE WholeComes \/ runner = "warm"
        BY <1>1, <3>6 DEF Covered, WholeComes
      <3>7. ASSUME NEW y \in Walkers, IsPrefix(y, Front(x)) PROVE Covered(d)'
        <4>1. y \in Path
          BY WalkerPath
        <4>2. y # x /\ IsPrefix(y, d)
          BY <1>a, <2>4, <2>a, <3>3, <3>4, <3>7, <4>1, PrefixOrder
        <4> QED  BY <2>3, <4>2
      <3> QED  BY <3>5, <3>6, <3>7 DEF Covered
    <2>5. CASE ~IsPrefix(x, d)
      <3>1. CASE WholeComes \/ runner = "warm"
        BY <1>1, <3>1 DEF Covered, WholeComes
      <3>2. ASSUME NEW y \in Walkers, IsPrefix(y, d) PROVE Covered(d)'
        BY <2>3, <2>5, <3>2
      <3> QED  BY <2>2, <3>1, <3>2 DEF Covered
    <2> QED  BY <2>4, <2>5
  <1>4. CASE Fill(x) /\ walk' = (walk \ {x}) \cup (cached'[x] \cap Dir) /\ UNCHANGED lost
    <2>1. /\ DOMAIN cached' = DOMAIN cached \cup {x}
          /\ \A c \in DOMAIN cached : cached'[c] = cached[c]
      BY <1>4 DEF Fill
    <2>2. SUFFICES ASSUME Rewarm, Listening, NEW d \in Dir, d \notin DOMAIN cached', Visible(d)'
                   PROVE  Covered(d)'
      BY <1>1, <1>4 DEF WalkInv, Listening, Reachable
    <2>a. d \in Path
      BY DirPath
    <2>3. Visible(d)
      BY <2>1, <2>2 DEF Visible
    <2>4. Covered(d)
      BY <2>1, <2>2, <2>3, CoveredFromAbove
    <2>5. CASE WholeComes \/ runner = "warm"
      BY <1>1, <2>5 DEF Covered, WholeComes
    <2>6. ASSUME NEW y \in Walkers, IsPrefix(y, d) PROVE Covered(d)'
      <3>1. CASE y # x
        <4>1. y \in Walkers'
          BY <1>4, <1>a, <3>1
        <4> QED  BY <2>6, <4>1 DEF Covered
      <3>2. CASE y = x
        <4>1. IsStrictPrefix(x, d)
          BY <2>1, <2>2, <2>6, <3>2 DEF IsStrictPrefix
        <4>2. Toward(x, d) \in cached'[x]
          BY <2>1, <2>2, <4>1 DEF Visible, Toward
        <4>3. Toward(x, d) \in Path /\ IsPrefix(Toward(x, d), d)
          BY <1>a, <2>a, <4>1, TowardPath
        <4>4. Toward(x, d) \in Walkers'
          BY <1>4, <4>2, <4>3, DirPath DEF Walkers
        <4> QED  BY <4>3, <4>4 DEF Covered
      <3> QED  BY <3>1, <3>2
    <2> QED  BY <2>4, <2>5, <2>6 DEF Covered
  <1> QED  BY <1>2, <1>3, <1>4 DEF warmUp

\* A flush goroutine drops a target: what is gone is walked, the rest as before.
LEMMA DropWalks ==
    ASSUME TypeOK, AtInv, WalkInv, NEW f \in Flusher, NEW x \in at[f], Dropped(x),
           at' = [at EXCEPT ![f] = NoDir],
           dropped' = IF Rewarm THEN [dropped EXCEPT ![f] = @ \cup {x}] ELSE dropped,
           UNCHANGED <<bucket, todo, walk, runner, dropAgain, pc, heard, ended>>
    PROVE  WalkInv'
  <1>1. /\ DOMAIN cached' = {c \in DOMAIN cached : ~IsPrefix(x, c)}
        /\ \A c \in DOMAIN cached' : cached'[c] = cached[c]
    BY DEF Dropped
  <1>a. x \in Path /\ \A c \in DOMAIN cached : c \in Path
    BY DirPath DEF TypeOK
  <1>b. Rewarm => /\ x \in dropped'[f] /\ x \in Walkers'
                  /\ \A g \in Flusher : dropped[g] \subseteq dropped'[g]
    BY DEF TypeOK, Walkers
  <1>c. \A g \in Flusher : \A y \in at[g] : y = x \/ y \in at'[g]
    BY DEF TypeOK, AtInv
  <1>2. CASE x = Root
    BY <1>2, <1>b, WalkAll
  <1>3. CASE x # Root
    <2>1. Listening' => Listening
      BY <1>3 DEF Dropped, Listening
    <2>2. SUFFICES ASSUME Rewarm, Listening, NEW d \in Dir, d \notin DOMAIN cached', Visible(d)'
                   PROVE  Covered(d)'
      BY <2>1 DEF WalkInv, Reachable
    <2>a. d \in Path
      BY DirPath
    <2>3. CASE IsPrefix(x, d)
      BY <1>b, <2>2, <2>3 DEF Covered
    <2>4. CASE ~IsPrefix(x, d)
      <3>1. d \notin DOMAIN cached
        BY <1>1, <2>2, <2>4
      <3>2. Visible(d)
        <4>1. SUFFICES ASSUME NEW c \in DOMAIN cached, IsStrictPrefix(c, d)
                       PROVE  Toward(c, d) \in cached[c]
          BY DEF Visible, Toward
        <4>2. ~IsPrefix(x, c)
          BY <1>a, <2>a, <2>4, <4>1, PrefixOrder DEF IsStrictPrefix
        <4> QED  BY <1>1, <2>2, <4>1, <4>2 DEF Visible, Toward
      <3>3. Covered(d)
        BY <2>2, <3>1, <3>2, CoveredFromAbove
      <3>4. CASE WholeComes \/ runner = "warm"
        BY <3>4 DEF Covered, WholeComes
      <3>5. ASSUME NEW y \in Walkers, IsPrefix(y, d) PROVE Covered(d)'
        <4>1. y # x
          BY <2>4, <3>5
        <4>2. y \in Walkers'
          BY <1>b, <1>c, <2>2, <4>1 DEF Walkers
        <4> QED  BY <3>5, <4>2 DEF Covered
      <3> QED  BY <3>3, <3>4, <3>5 DEF Covered
    <2> QED  BY <2>3, <2>4
  <1> QED  BY <1>2, <1>3

\* A target is not found: the flush goroutine goes on with the parent, whose walk
\* takes in what the target's would have.
LEMMA UpwardWalks ==
    ASSUME TypeOK, AtInv, WalkInv, NEW f \in Flusher, NEW x \in at[f], ~Found(x),
           at' = [at EXCEPT ![f] = {Front(x)}],
           UNCHANGED <<bucket, cached, todo, dropped, walk, lost, runner, dropAgain, pc, heard, ended>>
    PROVE  WalkInv'
  <1>a. x \in Path /\ x # Root
    BY DirPath, RootFound DEF TypeOK
  <1>b. Front(x) \in Path /\ IsPrefix(Front(x), x)
    BY <1>a, FrontPrefix
  <1>c. \A g \in Flusher : \A y \in at[g] : y = x \/ y \in at'[g]
    BY DEF TypeOK, AtInv
  <1>d. Front(x) \in Walkers'
    BY DEF TypeOK, Walkers
  <1>1. ASSUME NEW d \in Dir, Covered(d) PROVE Covered(d)'
    <2>a. d \in Path
      BY DirPath
    <2>1. CASE WholeComes \/ runner = "warm"
      BY <2>1 DEF Covered, WholeComes
    <2>2. ASSUME NEW y \in Walkers, IsPrefix(y, d) PROVE Covered(d)'
      <3>1. CASE y = x
        <4>1. IsPrefix(Front(x), d)
          BY <1>a, <1>b, <2>a, <2>2, <3>1, PrefixOrder
        <4> QED  BY <1>d, <4>1 DEF Covered
      <3>2. CASE y # x
        <4>1. y \in Walkers'
          BY <1>c, <3>2 DEF Walkers
        <4> QED  BY <2>2, <4>1 DEF Covered
      <3> QED  BY <3>1, <3>2
    <2> QED  BY <1>1, <2>1, <2>2 DEF Covered
  <1> QED  BY <1>1, WalkFrame DEF Listening

\* The flush goroutines.
LEMMA FlushWalks ==
    ASSUME TypeOK, AtInv, WalkInv, NEW f \in Flusher, FlushStep(f)
    PROVE  WalkInv'
  <1> USE DEF flushVars
  <1>1. CASE flush(f)
    <2>1. /\ UNCHANGED <<bucket, cached, pc, heard, ended, lost, at, dropped, walk>>
          /\ todo[f] = {}
      BY <1>1 DEF flush
    <2>2. CASE ended
      BY <2>1, <2>2, WalkAll DEF Listening
    <2>3. CASE dropAll
      BY <2>3, DropAllType, WalkAll DEF WholeComes
    <2>4. CASE /\ todo' = [todo EXCEPT ![f] = outermost(pending)]
               /\ UNCHANGED <<dropAgain, runner>>
      <3>1. \A g \in Flusher : todo[g] \subseteq todo'[g]
        BY <2>1, <2>4 DEF TypeOK
      <3>2. Walkers \subseteq Walkers'
        BY <2>1, <3>1 DEF Walkers
      <3> QED  BY <2>1, <2>4, <3>2, SameWalks, WalkFrame DEF Listening
    <2> QED  BY <1>1, <2>2, <2>3, <2>4 DEF flush
  <1>2. CASE FlushNext(f)
    <2>1. /\ UNCHANGED <<bucket, cached, pc, heard, ended, lost, dropped, walk, runner, dropAgain>>
          /\ \A g \in Flusher : todo'[g] \cup at'[g] = todo[g] \cup at[g]
      BY <1>2 DEF FlushNext, NoDir, TypeOK
    <2>2. Walkers \subseteq Walkers'
      BY <2>1 DEF Walkers
    <2> QED  BY <2>1, <2>2, SameWalks, WalkFrame DEF Listening
  <1>3. CASE invalidateNearest(f)
    <2>1. PICK x \in at[f] :
            \/ /\ Dropped(x) /\ at' = [at EXCEPT ![f] = NoDir]
               /\ dropped' = IF Rewarm THEN [dropped EXCEPT ![f] = @ \cup {x}] ELSE dropped
            \/ ~Found(x) /\ at' = [at EXCEPT ![f] = {Front(x)}] /\ UNCHANGED <<cached, dropped, lost>>
            \/ DropFails
      BY <1>3 DEF invalidateNearest
    <2>2. UNCHANGED <<bucket, todo, walk, runner, dropAgain, pc, heard, ended>>
      BY <1>3 DEF invalidateNearest
    <2>3. CASE /\ Dropped(x) /\ at' = [at EXCEPT ![f] = NoDir]
               /\ dropped' = IF Rewarm THEN [dropped EXCEPT ![f] = @ \cup {x}] ELSE dropped
      BY <2>2, <2>3, DropWalks
    <2>4. CASE ~Found(x) /\ at' = [at EXCEPT ![f] = {Front(x)}] /\ UNCHANGED <<cached, dropped, lost>>
      BY <2>2, <2>4, UpwardWalks
    <2>5. CASE DropFails
      BY <2>5, WalkAll DEF DropFails, Listening
    <2> QED  BY <2>1, <2>3, <2>4, <2>5
  <1>4. CASE FlushWarm(f)
    <2>1. /\ UNCHANGED <<bucket, cached, pc, heard, ended, lost, todo, at, runner, dropAgain>>
          /\ walk' = walk \cup dropped[f]
          /\ \A g \in Flusher : g # f => dropped'[g] = dropped[g]
      BY <1>4 DEF FlushWarm, warm, TypeOK
    <2>2. Walkers \subseteq Walkers'
      BY <2>1 DEF Walkers
    <2> QED  BY <2>1, <2>2, SameWalks, WalkFrame DEF Listening
  <1> QED  BY <1>1, <1>2, <1>3, <1>4 DEF FlushStep

\* The runner: it stops the walks only to drop everything and walk it all again.
LEMMA RunnerWalks ==
    ASSUME TypeOK, WalkInv, dropAllNow \/ NextDrop
    PROVE  WalkInv'
  <1> USE DEF flushVars
  <1>1. CASE NextDrop
    <2>1. /\ UNCHANGED <<bucket, cached, pc, heard, ended, lost, walk, todo, at, dropped>>
          /\ WholeComes <=> WholeComes'
          /\ runner # "warm"
      BY <1>1 DEF NextDrop, WholeComes, TypeOK
    <2>2. Walkers' = Walkers
      BY <2>1 DEF Walkers
    <2> QED  BY <2>1, <2>2, WalkFrame DEF Covered, Listening
  <1>2. CASE dropAllNow
    <2>1. UNCHANGED <<pc, heard, ended>>
      BY <1>2 DEF dropAllNow
    <2>2. CASE ended
      BY <2>1, <2>2, WalkAll DEF Listening
    <2>3. CASE runner' = IF Rewarm THEN "warm" ELSE "next"
      BY <2>3, WalkAll
    <2>4. CASE DropFails
      BY <2>4, WalkAll DEF DropFails, Listening
    <2>5. CASE warm({Root})
      BY <2>5, WalkAll DEF warm, Walkers
    <2> QED  BY <1>2, <2>2, <2>3, <2>4, <2>5 DEF dropAllNow
  <1> QED  BY <1>1, <1>2

\* The watch's loop.
LEMMA RunWalks ==
    ASSUME TypeOK, WalkInv,
           \/ Resolve \/ ResolveFails \/ StreamBreaks \/ Silence \/ Elapse \/ cancel
           \/ run
    PROVE  WalkInv'
  <1> USE DEF watchVars, flushVars, Step
  <1>1. CASE \/ Resolve \/ ResolveFails \/ StreamBreaks \/ Silence \/ cancel
             \/ Register \/ ListenFails \/ watchdog \/ ListenEnds \/ Sleep \/ Wait \/ ResolveAgain
             \/ WaitDrop
    <2>1. ~Listening'
      BY <1>1 DEF Resolve, ResolveFails, StreamBreaks, Silence, cancel, Register, ListenFails,
         watchdog, ListenEnds, Sleep, Wait, WaitDrop, ResolveAgain, Listening
    <2> QED  BY <2>1, WalkAll
  <1>2. CASE Elapse \/ changed
    <2>1. UNCHANGED <<bucket, cached, pc, heard, ended, lost, todo, at, dropped, walk, runner, dropAgain>>
      BY <1>2 DEF Elapse, changed
    <2>2. Walkers' = Walkers
      BY <2>1 DEF Walkers
    <2> QED  BY <2>1, <2>2, SameWalks, WalkFrame DEF Listening
  <1>3. CASE connected
    <2>1. WholeComes'
      BY <1>3, DropAllType DEF connected, WholeComes
    <2> QED  BY <2>1, WalkAll
  <1> QED  BY <1>1, <1>2, <1>3 DEF run

\* The invariant behind ColdIsWalked.
THEOREM WalkInductive == Spec => []WalkInv
  <1>1. Init => WalkInv
    BY DEF Init, WalkInv, Listening
  <1>2. TypeOK /\ AtInv /\ WalkInv /\ [Next]_vars => WalkInv'
    <2> SUFFICES ASSUME TypeOK, AtInv, WalkInv, [Next]_vars PROVE WalkInv'
      OBVIOUS
    <2>1. CASE UNCHANGED vars
      <3>1. UNCHANGED <<bucket, cached, pc, heard, ended, lost, todo, at, dropped, walk, runner, dropAgain>>
        BY <2>1 DEF vars
      <3>2. Walkers' = Walkers
        BY <3>1 DEF Walkers
      <3> QED  BY <3>1, <3>2, SameWalks, WalkFrame DEF Listening
    <2>2. CASE Next
      BY <2>2, ChangeWalks, ReadWalks, WalkWalks, RunWalks, FlushWalks, RunnerWalks DEF Next
    <2> QED  BY <2>1, <2>2
  <1> QED  BY <1>1, <1>2, TypeCorrect, NoticeInductive, PTL DEF Spec

\* While the watch is heard, a directory of a read-only volume that is not in the
\* cache has a walk or a drop on its way, whatever walks a drop of the whole cache
\* stopped, however a directory went and came back while its target was dropped,
\* and whatever a stale listing hides from the walks at the moment.
THEOREM NothingColdForgotten == Spec => []ColdIsWalked
  <1>1. TypeOK /\ NoticeInv /\ WalkInv => ColdIsWalked
    <2> SUFFICES ASSUME TypeOK, NoticeInv, WalkInv, Rewarm, Listening, NEW d \in Dir, Cold(d)
                 PROVE  WalkComes(d) \/ DropComes(d)
      BY DEF ColdIsWalked, Listening
    <2>1. Exists(d) /\ d \notin DOMAIN cached
      BY DEF Cold
    <2>2. CASE ~Visible(d)
      BY <2>1, <2>2 DEF NoticeInv, HiddenInv
    <2>3. CASE Visible(d)
      <3>1. Covered(d)
        BY <2>1, <2>3 DEF WalkInv, Reachable
      <3>2. CASE WholeComes \/ runner = "warm"
        BY <3>2 DEF WholeComes, WalkComes, DropComes
      <3>3. ASSUME NEW x \in Walkers, IsPrefix(x, d) PROVE WalkComes(d) \/ DropComes(d)
        BY <3>3 DEF Walkers, WalkComes, DropComes
      <3> QED  BY <3>1, <3>2, <3>3 DEF Covered
    <2> QED  BY <2>2, <2>3
  <1> QED  BY <1>1, TypeCorrect, NoticeInductive, WalkInductive, PTL
=============================================================================
