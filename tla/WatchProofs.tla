---------------------------- MODULE WatchProofs ----------------------------
(***************************************************************************)
(* Proofs about the watch, for any keys, any number of flush goroutines,   *)
(* any length of the stream and any failures.                              *)
(***************************************************************************)
EXTENDS Watch, SequenceTheorems, WellFoundedInduction, TLAPS

(***************************************************************************)
(* Paths and their prefixes.                                               *)
(***************************************************************************)
Path == Seq(STRING)

LEMMA LeastNat ==
    ASSUME NEW T, T \subseteq Nat, T # {}
    PROVE  \E n \in T : \A m \in T : n <= m
  <1>1. PICK n \in T : \A m \in T : <<m, n>> \notin OpToRel(<, Nat)
    BY NatLessThanWellFounded, WFMin
  <1>2. ASSUME NEW m \in T PROVE n <= m
    <2>1. ~(m < n)
      BY <1>1 DEF OpToRel
    <2> QED  BY <2>1
  <1> QED  BY <1>2

LEMMA PrefixDef ==
    ASSUME NEW s \in Path, NEW t \in Path
    PROVE  IsPrefix(s, t) <=> Len(s) <= Len(t) /\ \A i \in 1..Len(s) : s[i] = t[i]
  <1>1. SubSeq(s, 1, Len(s)) = s
    BY SubSeqFull DEF Path
  <1>2. ASSUME Len(s) <= Len(t)
        PROVE  /\ SubSeq(t, 1, Len(s)) \in Seq(STRING) /\ Len(SubSeq(t, 1, Len(s))) = Len(s)
               /\ \A i \in 1..Len(s) : SubSeq(t, 1, Len(s))[i] = t[i]
    BY <1>2 DEF Path
  <1> QED  BY <1>1, <1>2, SeqEqual DEF IsPrefix, Path

LEMMA RootPath == Root \in Path /\ Len(Root) = 0 /\ \A s \in Path : Len(s) = 0 => s = Root
  BY EmptySeq DEF Root, Path

\* Prefixes are an order with the root below, total below a path.
LEMMA PrefixOrder ==
    /\ \A s \in Path : IsPrefix(s, s) /\ IsPrefix(Root, s)
    /\ \A s, t \in Path : IsPrefix(s, t) /\ IsPrefix(t, s) => s = t
    /\ \A s, t, u \in Path : IsPrefix(s, t) /\ IsPrefix(t, u) => IsPrefix(s, u)
    /\ \A s, t, u \in Path : IsPrefix(s, u) /\ IsPrefix(t, u) => IsPrefix(s, t) \/ IsPrefix(t, s)
  <1>a. \A s \in Path : Len(s) \in Nat
    BY DEF Path
  <1>1. \A s \in Path : IsPrefix(s, s) /\ IsPrefix(Root, s)
    BY <1>a, PrefixDef, RootPath
  <1>2. ASSUME NEW s \in Path, NEW t \in Path, IsPrefix(s, t), IsPrefix(t, s) PROVE s = t
    <2>1. Len(s) = Len(t) /\ \A i \in 1..Len(s) : s[i] = t[i]
      BY <1>a, <1>2, PrefixDef
    <2> QED  BY <2>1, SeqEqual DEF Path
  <1>3. ASSUME NEW s \in Path, NEW t \in Path, NEW u \in Path, IsPrefix(s, t), IsPrefix(t, u)
        PROVE  IsPrefix(s, u)
    BY <1>a, <1>3, PrefixDef
  <1>4. ASSUME NEW s \in Path, NEW t \in Path, NEW u \in Path, IsPrefix(s, u), IsPrefix(t, u)
        PROVE  IsPrefix(s, t) \/ IsPrefix(t, s)
    BY <1>a, <1>4, PrefixDef
  <1> QED  BY <1>1, <1>2, <1>3, <1>4

\* The prefix of a given length.
LEMMA PrefixCut ==
    ASSUME NEW s \in Path, NEW n \in 0..Len(s)
    PROVE  /\ SubSeq(s, 1, n) \in Path /\ Len(SubSeq(s, 1, n)) = n
           /\ IsPrefix(SubSeq(s, 1, n), s)
           /\ \A t \in Path : IsPrefix(t, s) /\ Len(t) = n => t = SubSeq(s, 1, n)
  <1> DEFINE c == SubSeq(s, 1, n)
  <1>1. c \in Path /\ Len(c) = n /\ \A i \in 1..n : c[i] = s[i]
    BY DEF Path
  <1> HIDE DEF c
  <1>a. Len(s) \in Nat /\ n \in Nat /\ n <= Len(s)
    BY DEF Path
  <1>2. IsPrefix(c, s)
    BY <1>1, <1>a, PrefixDef
  <1>3. ASSUME NEW t \in Path, IsPrefix(t, s), Len(t) = n PROVE t = c
    <2>1. \A i \in 1..Len(t) : t[i] = c[i]
      BY <1>1, <1>3, PrefixDef
    <2> QED  BY <1>1, <1>3, <2>1, SeqEqual DEF Path
  <1> QED  BY <1>1, <1>2, <1>3 DEF c

\* The parent of a path is the greatest prefix below it.
LEMMA FrontPrefix ==
    ASSUME NEW s \in Path, s # Root
    PROVE  /\ Front(s) \in Path /\ IsPrefix(Front(s), s) /\ Front(s) # s
           /\ Len(Front(s)) + 1 = Len(s)
           /\ \A t \in Path : IsPrefix(t, s) /\ t # s => IsPrefix(t, Front(s))
  <1>a. Len(s) \in Nat \ {0}
    BY RootPath DEF Path
  <1> DEFINE n == Len(s) - 1
  <1>b. n \in 0..Len(s)
    BY <1>a
  <1>1. /\ Front(s) \in Path /\ Len(Front(s)) = n /\ IsPrefix(Front(s), s)
    BY <1>b, PrefixCut DEF Front
  <1>2. Front(s) # s
    BY <1>1, <1>a
  <1>3. ASSUME NEW t \in Path, IsPrefix(t, s), t # s PROVE IsPrefix(t, Front(s))
    <2>1. CASE IsPrefix(t, Front(s))
      BY <2>1
    <2>2. CASE IsPrefix(Front(s), t)
      <3>1. Len(t) \in Nat /\ Len(t) <= Len(s) /\ n <= Len(t)
        BY <1>1, <1>3, <2>2, PrefixDef DEF Path
      <3>2. CASE Len(t) = Len(s)
        <4>1. t = s
          BY <1>3, <3>2, PrefixDef, SeqEqual DEF Path
        <4> QED  BY <4>1, <1>3
      <3>3. CASE Len(t) = n
        <4>1. t = Front(s)
          BY <1>b, <1>3, <3>3, PrefixCut DEF Front
        <4> QED  BY <4>1, <1>1, PrefixOrder
      <3> QED  BY <1>a, <3>1, <3>2, <3>3
    <2> QED  BY <1>1, <1>3, <2>1, <2>2, PrefixOrder
  <1> QED  BY <1>1, <1>2, <1>3, <1>a

\* The entry of c that leads to d: what a listing of c has to show.
Toward(c, d) == SubSeq(d, 1, Len(c) + 1)

LEMMA TowardPath ==
    ASSUME NEW c \in Path, NEW d \in Path, IsStrictPrefix(c, d)
    PROVE  /\ Toward(c, d) \in Path /\ Toward(c, d) # Root /\ Front(Toward(c, d)) = c
           /\ IsPrefix(Toward(c, d), d)
           /\ IsStrictPrefix(c, Toward(c, d))
           /\ \A e \in Path : e # Root /\ Front(e) = c /\ IsPrefix(e, d) => e = Toward(c, d)
  <1>a. Len(c) \in Nat /\ Len(d) \in Nat
    BY DEF Path
  <1>b. IsPrefix(c, d) /\ c # d
    BY DEF IsStrictPrefix
  <1>1. Len(c) + 1 \in 0..Len(d)
    <2>1. Len(c) <= Len(d)
      BY <1>b, PrefixDef
    <2>2. Len(c) # Len(d)
      BY <1>b, PrefixDef, SeqEqual DEF Path
    <2> QED  BY <1>a, <2>1, <2>2
  <1> DEFINE e == Toward(c, d)
  <1>2. /\ e \in Path /\ Len(e) = Len(c) + 1 /\ IsPrefix(e, d)
        /\ \A t \in Path : IsPrefix(t, d) /\ Len(t) = Len(c) + 1 => t = e
    BY <1>1, PrefixCut DEF Toward
  <1> HIDE DEF e
  <1>3. e # Root
    BY <1>2, <1>a, RootPath
  <1>4. Front(e) \in Path /\ Len(Front(e)) = Len(c) /\ IsPrefix(Front(e), e)
    BY <1>2, <1>3, <1>a, FrontPrefix DEF Path
  <1>5. Front(e) = c
    <2>1. IsPrefix(Front(e), d)
      BY <1>2, <1>4, PrefixOrder
    <2>2. Len(c) \in 0..Len(d)
      BY <1>1, <1>a
    <2> QED  BY <2>1, <2>2, <1>4, <1>b, PrefixCut
  <1>6. IsStrictPrefix(c, e)
    BY <1>2, <1>3, <1>5, FrontPrefix DEF IsStrictPrefix
  <1>7. ASSUME NEW t \in Path, t # Root, Front(t) = c, IsPrefix(t, d) PROVE t = e
    <2>1. Len(t) = Len(c) + 1
      BY <1>7, FrontPrefix
    <2> QED  BY <1>2, <1>7, <2>1
  <1> QED  BY <1>2, <1>3, <1>5, <1>6, <1>7 DEF e

(***************************************************************************)
(* Keys, directories and listings.                                         *)
(***************************************************************************)
LEMMA KeyPath ==
    ASSUME NEW k \in Key
    PROVE  k \in Path /\ k # Root /\ changedDir(k) \in Dir /\ IsStrictPrefix(changedDir(k), k)
  <1>1. k \in Path /\ k # Root
    BY WatchAssumption DEF Path, Root
  <1>2. Len(k) \in Nat \ {0}
    BY <1>1, RootPath DEF Path
  <1>3. changedDir(k) \in Dir
    BY <1>2 DEF Dir, changedDir, Front
  <1> QED  BY <1>1, <1>3, FrontPrefix DEF changedDir, IsStrictPrefix

\* The directories are the root and the paths above some key.
LEMMA DirDef ==
    \A d : d \in Dir <=> d \in Path /\ (d = Root \/ \E k \in Key : IsStrictPrefix(d, k))
  <1>1. ASSUME NEW d \in Dir, d # Root PROVE d \in Path /\ \E k \in Key : IsStrictPrefix(d, k)
    <2>1. PICK k \in Key : \E m \in 0..(Len(k) - 1) : d = SubSeq(k, 1, m)
      BY <1>1 DEF Dir
    <2>a. PICK n \in 0..(Len(k) - 1) : d = SubSeq(k, 1, n)
      BY <2>1
    <2>2. k \in Path /\ Len(k) \in Nat
      BY KeyPath DEF Path
    <2>3. n \in 0..Len(k) /\ n # Len(k)
      BY <2>2
    <2>4. d \in Path /\ IsPrefix(d, k) /\ Len(d) = n
      BY <2>a, <2>2, <2>3, PrefixCut
    <2> QED  BY <2>3, <2>4 DEF IsStrictPrefix
  <1>2. ASSUME NEW d \in Path, NEW k \in Key, IsStrictPrefix(d, k) PROVE d \in Dir
    <2>1. k \in Path /\ Len(k) \in Nat /\ Len(d) \in Nat
      BY KeyPath DEF Path
    <2>2. IsPrefix(d, k) /\ d # k
      BY <1>2 DEF IsStrictPrefix
    <2>3. Len(d) <= Len(k)
      BY <2>1, <2>2, PrefixDef
    <2>4. Len(d) # Len(k)
      BY <2>1, <2>2, PrefixDef, SeqEqual DEF Path
    <2>5. Len(d) \in 0..(Len(k) - 1) /\ Len(d) \in 0..Len(k)
      BY <2>1, <2>3, <2>4
    <2>6. d = SubSeq(k, 1, Len(d))
      BY <2>1, <2>2, <2>5, PrefixCut
    <2>7. d \in {SubSeq(k, 1, n) : n \in 0..(Len(k) - 1)}
      BY <2>5, <2>6
    <2> QED  BY <2>7 DEF Dir
  <1>3. Root \in Dir /\ Root \in Path
    BY RootPath DEF Dir
  <1> QED  BY <1>1, <1>2, <1>3

LEMMA DirPath ==
    /\ Root \in Dir /\ \A d \in Dir : d \in Path
    /\ \A d \in Dir, t \in Path : IsPrefix(t, d) => t \in Dir
    /\ \A d \in Dir : d # Root => Front(d) \in Dir
  <1>1. ASSUME NEW d \in Dir, NEW t \in Path, IsPrefix(t, d) PROVE t \in Dir
    <2>1. CASE d = Root
      BY <1>1, <2>1, PrefixOrder, RootPath
    <2>2. ASSUME NEW k \in Key, IsStrictPrefix(d, k) PROVE t \in Dir
      <3>1. IsPrefix(d, k) /\ d # k /\ k \in Path /\ d \in Path
        BY <2>2, DirDef, KeyPath DEF IsStrictPrefix
      <3>2. IsPrefix(t, k) /\ t # k
        BY <1>1, <3>1, PrefixOrder
      <3> QED  BY <3>2, DirDef DEF IsStrictPrefix
    <2> QED  BY <2>1, <2>2, DirDef
  <1>2. Root \in Dir /\ \A d \in Dir : d \in Path
    BY DirDef, RootPath
  <1> QED  BY <1>1, <1>2, RootPath, PrefixOrder, FrontPrefix

\* An entry of a listing is a child of the directory, on the way to some object.
LEMMA ListingDef ==
    ASSUME NEW b, b \subseteq Key, NEW c \in Path, NEW e
    PROVE  e \in Listing(b, c) <=>
             e \in Path /\ e # Root /\ Front(e) = c /\ \E k \in b : IsPrefix(e, k)
  <1>1. ASSUME e \in Listing(b, c)
        PROVE  e \in Path /\ e # Root /\ Front(e) = c /\ \E k \in b : IsPrefix(e, k)
    <2>1. PICK k \in b : IsStrictPrefix(c, k) /\ e = Toward(c, k)
      BY <1>1 DEF Listing, Toward
    <2> QED  BY <2>1, KeyPath, TowardPath
  <1>2. ASSUME e \in Path, e # Root, Front(e) = c, NEW k \in b, IsPrefix(e, k)
        PROVE  e \in Listing(b, c)
    <2>1. k \in Path
      BY KeyPath
    <2>2. IsPrefix(c, k) /\ c # k
      BY <1>2, <2>1, FrontPrefix, PrefixOrder
    <2>3. e = Toward(c, k)
      BY <1>2, <2>1, <2>2, TowardPath DEF IsStrictPrefix
    <2> QED  BY <2>2, <2>3 DEF Listing, Toward, IsStrictPrefix
  <1> QED  BY <1>1, <1>2

LEMMA ListingType ==
    ASSUME NEW b, b \subseteq Key, NEW c \in Dir
    PROVE  Listing(b, c) \subseteq Dir \cup Key
  <1>1. c \in Path
    BY DirPath
  <1>2. ASSUME NEW e \in Listing(b, c) PROVE e \in Dir \cup Key
    <2>1. PICK k \in b : IsPrefix(e, k) /\ e \in Path
      BY <1>1, ListingDef
    <2> QED  BY <2>1, DirDef DEF IsStrictPrefix
  <1> QED  BY <1>2

(***************************************************************************)
(* Type correctness.                                                       *)
(***************************************************************************)
\* What the threads know of the drops: whether one runs, and another is asked for.
LEMMA DropAllType ==
    ASSUME TypeOK, dropAll
    PROVE  /\ runner' \in {"off", "drop", "warm", "next"}
           /\ dropping' \in BOOLEAN /\ dropAgain' \in BOOLEAN
           /\ dropping' = (runner' # "off") /\ (dropAgain' => dropping')
           /\ runner' = "drop" \/ dropAgain'
  BY DEF dropAll, TypeOK

LEMMA CacheType ==
    ASSUME TypeOK, NEW d \in Dir, Fill(d) \/ Dropped(d) \/ UNCHANGED cached
    PROVE  DOMAIN cached' \subseteq Dir /\ \A c \in DOMAIN cached' : cached'[c] \subseteq Dir \cup Key
  <1>1. CASE Fill(d)
    BY <1>1, ListingType DEF Fill, TypeOK
  <1>2. CASE Dropped(d)
    BY <1>2 DEF Dropped, TypeOK
  <1> QED  BY <1>1, <1>2 DEF TypeOK

\* The bucket, the mount's readers and the walks.
LEMMA MountType ==
    ASSUME TypeOK,
           \/ \E k \in Key : Change(k)
           \/ \E d \in Dir : Read(d) \/ warmUp(d)
    PROVE  TypeOK'
  <1> USE DEF watchVars, flushVars
  <1>1. ASSUME NEW k \in Key, Change(k) PROVE TypeOK'
    <2>1. stream' \in Seq(Key) /\ Len(stream') <= MaxQueue
      BY <1>1, WatchAssumption, AppendProperties DEF Change, TypeOK
    <2> QED  BY <1>1, <2>1 DEF Change, TypeOK
  <1>2. ASSUME NEW d \in Dir, Read(d) PROVE TypeOK'
    <2>1. DOMAIN cached' \subseteq Dir /\ \A c \in DOMAIN cached' : cached'[c] \subseteq Dir \cup Key
      BY <1>2, CacheType DEF Read
    <2> QED  BY <1>2, <2>1 DEF Read, TypeOK
  <1>3. ASSUME NEW d \in Dir, warmUp(d) PROVE TypeOK'
    <2>1. DOMAIN cached' \subseteq Dir /\ \A c \in DOMAIN cached' : cached'[c] \subseteq Dir \cup Key
      BY <1>3, CacheType DEF warmUp
    <2>2. walk' \subseteq Dir /\ lost' \in BOOLEAN
      BY <1>3 DEF warmUp, TypeOK
    <2> QED  BY <1>3, <2>1, <2>2 DEF warmUp, TypeOK
  <1> QED  BY <1>1, <1>2, <1>3

\* The watch's loop and its stream.
LEMMA RunType ==
    ASSUME TypeOK,
           \/ Resolve \/ ResolveFails \/ StreamBreaks \/ Silence \/ Elapse \/ cancel
           \/ run
    PROVE  TypeOK'
  <1> USE DEF watchVars, flushVars, Step
  <1>a. << >> \in Seq(Key) /\ Len(<< >>) <= MaxQueue
    BY WatchAssumption
  <1> DEFINE Loop == {"resolve", "resolvewait", "listen", "answer", "stream", "sleep", "wait",
                      "waiting", "ended"}
             Quiet == /\ UNCHANGED <<bucket, cached, watchVars, lost>>
                      /\ pc' \in Loop /\ stream' \in {stream, << >>}
                      /\ heard' \in BOOLEAN /\ due' \in BOOLEAN /\ ended' \in BOOLEAN
  <1>b. ASSUME Quiet PROVE TypeOK'
    <2>1. stream' \in Seq(Key) /\ Len(stream') <= MaxQueue
      BY <1>a, <1>b DEF TypeOK
    <2> QED  BY <1>b, <2>1 DEF TypeOK
  <1>1. CASE Resolve \/ ResolveFails \/ StreamBreaks \/ Silence \/ Elapse \/ cancel
    <2>1. Quiet
      BY <1>1 DEF Resolve, ResolveFails, StreamBreaks, Silence, Elapse, cancel, TypeOK
    <2> QED  BY <1>b, <2>1
  <1>2. CASE Register \/ ListenFails \/ watchdog \/ ListenEnds \/ Sleep \/ Wait \/ ResolveAgain
    <2>1. Quiet
      BY <1>2 DEF Register, ListenFails, watchdog, ListenEnds, Sleep, Wait, ResolveAgain, TypeOK
    <2> QED  BY <1>b, <2>1
  <1>3. CASE connected
    BY <1>3, DropAllType DEF connected, TypeOK
  <1>4. CASE changed
    <2>1. Head(stream) \in Key /\ stream' \in Seq(Key) /\ Len(stream') <= MaxQueue
      BY <1>4, WatchAssumption, HeadTailProperties DEF changed, TypeOK
    <2>2. changedDir(Head(stream)) \in Dir
      BY <2>1, KeyPath
    <2> QED  BY <1>4, <2>1, <2>2 DEF changed, TypeOK
  <1>5. CASE WaitDrop
    <2>1. /\ DOMAIN cached' \subseteq Dir /\ \A c \in DOMAIN cached' : cached'[c] \subseteq Dir \cup Key
      BY <1>5 DEF WaitDrop, invalidate, DropFails, Dropped, TypeOK
    <2>2. lost' \in BOOLEAN /\ walk' \subseteq Dir
      BY <1>5 DEF WaitDrop, invalidate, DropFails, Dropped, stopWarm, TypeOK
    <2> QED  BY <1>5, <2>1, <2>2 DEF WaitDrop, TypeOK
  <1> QED  BY <1>1, <1>2, <1>3, <1>4, <1>5 DEF run

LEMMA RootFound == TypeOK => Found(Root)
  <1>1. \A c \in Path : ~IsStrictPrefix(c, Root)
    BY PrefixOrder, RootPath DEF IsStrictPrefix
  <1> QED  BY <1>1, DirPath DEF Found, Visible, Exists, TypeOK

\* The flush goroutines.
LEMMA FlushType ==
    ASSUME TypeOK, NEW f \in Flusher, FlushStep(f)
    PROVE  TypeOK'
  <1> USE DEF flushVars, NoDir
  <1>1. CASE flush(f)
    <2>1. outermost(pending) \subseteq Dir
      BY DEF outermost, TypeOK
    <2>2. /\ runner' \in {"off", "drop", "warm", "next"}
          /\ dropping' \in BOOLEAN /\ dropAgain' \in BOOLEAN
          /\ dropping' = (runner' # "off") /\ (dropAgain' => dropping')
      <3>1. CASE dropAll
        BY <3>1, DropAllType
      <3>2. CASE UNCHANGED <<dropping, dropAgain, runner>>
        BY <3>2 DEF TypeOK
      <3> QED  BY <1>1, <3>1, <3>2 DEF flush
    <2>3. todo' \in [Flusher -> SUBSET Dir]
      BY <1>1, <2>1 DEF flush, TypeOK
    <2> QED  BY <1>1, <2>2, <2>3 DEF flush, TypeOK
  <1>2. CASE FlushNext(f)
    BY <1>2 DEF FlushNext, TypeOK
  <1>3. CASE invalidateNearest(f)
    <2>1. PICK d \in at[f] :
            \/ /\ Found(d) /\ Dropped(d) /\ at' = [at EXCEPT ![f] = NoDir]
               /\ dropped' = IF Rewarm THEN [dropped EXCEPT ![f] = @ \cup {d}] ELSE dropped
            \/ ~Found(d) /\ at' = [at EXCEPT ![f] = {Front(d)}] /\ UNCHANGED <<cached, dropped, lost>>
            \/ DropFails /\ at' = [at EXCEPT ![f] = NoDir] /\ UNCHANGED dropped
      BY <1>3 DEF invalidateNearest
    <2>2. d \in Dir
      BY DEF TypeOK
    <2>3. ~Found(d) => Front(d) \in Dir
      BY <2>2, RootFound, DirPath
    <2>4. DOMAIN cached' \subseteq Dir /\ \A c \in DOMAIN cached' : cached'[c] \subseteq Dir \cup Key
      BY <2>1, <2>2, CacheType DEF DropFails
    <2>5. at' \in [Flusher -> SUBSET Dir] /\ dropped' \in [Flusher -> SUBSET Dir]
      BY <2>1, <2>2, <2>3 DEF TypeOK
    <2>6. lost' \in BOOLEAN
      BY <2>1 DEF Dropped, DropFails, TypeOK
    <2> QED  BY <1>3, <2>4, <2>5, <2>6 DEF invalidateNearest, TypeOK
  <1>4. CASE FlushWarm(f)
    BY <1>4 DEF FlushWarm, warm, TypeOK
  <1> QED  BY <1>1, <1>2, <1>3, <1>4 DEF FlushStep

\* The runner of the drops of the whole cache.
LEMMA RunnerType ==
    ASSUME TypeOK, dropAllNow \/ NextDrop
    PROVE  TypeOK'
  <1> USE DEF flushVars
  <1>1. CASE dropAllNow
    <2>1. DOMAIN cached' \subseteq Dir /\ \A c \in DOMAIN cached' : cached'[c] \subseteq Dir \cup Key
      BY <1>1 DEF dropAllNow, Dropped, DropFails, TypeOK
    <2>2. lost' \in BOOLEAN
      BY <1>1 DEF dropAllNow, Dropped, DropFails, TypeOK
    <2>3. walk' \subseteq Dir
      BY <1>1, DirPath DEF dropAllNow, warm, stopWarm, TypeOK
    <2>4. runner' \in {"warm", "next"} /\ dropping' = (runner' # "off") /\ (dropAgain' => dropping')
      BY <1>1 DEF dropAllNow, TypeOK
    <2> QED  BY <1>1, <2>1, <2>2, <2>3, <2>4 DEF dropAllNow, TypeOK
  <1>2. CASE NextDrop
    BY <1>2 DEF NextDrop, TypeOK
  <1> QED  BY <1>1, <1>2

LEMMA InitType == Init => TypeOK
  <1>1. << >> \in Seq(Key) /\ Len(<< >>) <= MaxQueue
    BY WatchAssumption
  <1> QED  BY <1>1 DEF Init, TypeOK, NoDir

LEMMA NextType == TypeOK /\ [Next]_vars => TypeOK'
  <1> SUFFICES ASSUME TypeOK, [Next]_vars PROVE TypeOK'
    OBVIOUS
  <1>1. CASE UNCHANGED vars
    BY <1>1 DEF vars, TypeOK
  <1>2. CASE Next
    BY <1>2, MountType, RunType, FlushType, RunnerType DEF Next
  <1> QED  BY <1>1, <1>2

\* Every variable keeps its type, the stream its bound; dropping says that the
\* runner runs, and a second drop is asked for only while it does: dropAll's two
\* flags, set and reset by several threads, never disagree.
THEOREM TypeCorrect == Spec => []TypeOK
  BY InitType, NextType, PTL DEF Spec

(***************************************************************************)
(* Why no listing goes wrong unnoticed.                                    *)
(***************************************************************************)
Listening == pc = "stream" /\ heard /\ ~ended /\ ~lost

WholeComes == runner = "drop" \/ dropAgain

\* The directories that events name, and those that flush goroutines are to drop.
Named == {changedDir(k) : k \in ToSet(stream)} \cup pending
Targets == UNION {todo[f] \cup at[f] : f \in Flusher}

\* The entry e of directory c is about to be put right: a drop comes of c or above
\* it; or at or below e, and then setxattr will not find the way as long as the
\* cache is wrong about e, and go up to c.
Noted(c, e) ==
    \/ WholeComes
    \/ \E x \in Named : x = c \/ IsPrefix(e, x)
    \/ \E x \in Targets : IsPrefix(x, c) \/ IsPrefix(e, x)

\* What is cached of a directory are children of it.
CacheInv == \A c \in DOMAIN cached : \A e \in cached[c] : e # Root /\ Front(e) = c

\* StaleIsNoticed, entry by entry: one stale entry's drop may find its way past
\* another, so each has a drop of its own.
EntryInv ==
    Listening =>
      \A c \in DOMAIN cached : \A e \in cached[c] \cup Listing(bucket, c) :
         e \notin cached[c] \cap Listing(bucket, c) => Noted(c, e)

\* A directory that a cached listing hides has a drop on its way of its own.
HiddenInv == Listening => \A d \in Dir : Exists(d) /\ ~Visible(d) => DropComes(d)

NoticeInv == CacheInv /\ EntryInv /\ HiddenInv

\* A flush goroutine is at one directory at a time.
AtInv == \A f \in Flusher : \A x, y \in at[f] : x = y

LEMMA EntryPath ==
    ASSUME TypeOK, CacheInv, NEW c \in DOMAIN cached, NEW e \in cached[c] \cup Listing(bucket, c)
    PROVE  c \in Dir /\ c \in Path /\ e \in Path /\ e # Root /\ Front(e) = c
  <1>1. c \in Dir /\ c \in Path /\ bucket \subseteq Key
    BY DirPath DEF TypeOK
  <1>2. CASE e \in cached[c]
    BY <1>1, <1>2, DirPath, KeyPath DEF TypeOK, CacheInv
  <1>3. CASE e \in Listing(bucket, c)
    BY <1>1, <1>3, ListingDef
  <1> QED  BY <1>1, <1>2, <1>3

\* A directory exists if an object is below it; a listing of any directory above
\* shows the way.
LEMMA ExistsDef ==
    ASSUME TypeOK, NEW d \in Path
    PROVE  Exists(d) <=> d = Root \/ \E k \in bucket : IsStrictPrefix(d, k)
  <1>1. ASSUME NEW k \in bucket, IsStrictPrefix(d, k) PROVE Listing(bucket, d) # {}
    BY <1>1 DEF Listing
  <1>2. ASSUME NEW e \in Listing(bucket, d) PROVE \E k \in bucket : IsStrictPrefix(d, k)
    BY DEF Listing
  <1> QED  BY <1>1, <1>2 DEF Exists

LEMMA ExistsShown ==
    ASSUME TypeOK, NEW d \in Path, Exists(d), NEW c \in Path, IsStrictPrefix(c, d)
    PROVE  Toward(c, d) \in Listing(bucket, c)
  <1>1. c # d /\ IsPrefix(c, d)
    BY DEF IsStrictPrefix
  <1>2. d # Root
    BY <1>1, PrefixOrder, RootPath
  <1>3. PICK k \in bucket : IsPrefix(d, k)
    BY <1>2, ExistsDef DEF IsStrictPrefix
  <1>4. k \in Path /\ bucket \subseteq Key
    BY KeyPath DEF TypeOK
  <1>5. IsPrefix(Toward(c, d), k)
    BY <1>3, <1>4, TowardPath, PrefixOrder
  <1> QED  BY <1>4, <1>5, TowardPath, ListingDef

\* Steps that leave bucket and cache alone and lose no notice.
Keeps ==
    /\ \A c, e \in Path : e # Root /\ Front(e) = c /\ Noted(c, e) => Noted(c, e)'
    /\ \A d \in Dir : DropComes(d) => DropComes(d)'

LEMMA NoticeFrame ==
    ASSUME TypeOK, NoticeInv, UNCHANGED <<bucket, cached>>, Listening' => Listening /\ Keeps
    PROVE  NoticeInv'
  <1>1. CacheInv'
    BY DEF NoticeInv, CacheInv
  <1>2. EntryInv'
    <2>1. SUFFICES ASSUME Listening', NEW c \in DOMAIN cached, NEW e \in cached[c] \cup Listing(bucket, c),
                          e \notin cached[c] \cap Listing(bucket, c)
                   PROVE  Noted(c, e)'
      BY DEF EntryInv, Listing
    <2>2. Noted(c, e)
      BY <2>1 DEF NoticeInv, EntryInv
    <2>3. c \in Path /\ e \in Path /\ e # Root /\ Front(e) = c
      BY EntryPath DEF NoticeInv
    <2> QED  BY <2>1, <2>2, <2>3 DEF Keeps
  <1>3. HiddenInv'
    <2>1. \A d \in Dir : UNCHANGED <<Exists(d), Visible(d)>>
      BY DEF Exists, Visible, Listing
    <2> QED  BY <2>1 DEF NoticeInv, HiddenInv, Keeps
  <1> QED  BY <1>1, <1>2, <1>3 DEF NoticeInv

\* Steps that end the listening, or after which a whole drop comes, or came.
LEMMA NoticeWhole ==
    ASSUME CacheInv', Listening' => WholeComes' \/ DOMAIN cached' = {}
    PROVE  NoticeInv'
  BY DEF NoticeInv, EntryInv, HiddenInv, Noted, DropComes, WholeComes, Visible

LEMMA SameNotices ==
    ASSUME UNCHANGED <<stream, pending, todo, at, runner, dropAgain>>
    PROVE  Keeps
  BY DEF Keeps, Noted, WholeComes, Named, Targets, DropComes

\* A change of the bucket: the event that comes names every listing it changed.
LEMMA ChangeNoticed ==
    ASSUME TypeOK, NoticeInv, NEW k \in Key, Change(k)
    PROVE  NoticeInv'
  <1> USE DEF watchVars, flushVars
  <1>1. UNCHANGED <<cached, pc, heard, ended, lost, pending, todo, at, runner, dropAgain>>
    BY DEF Change
  <1>2. bucket \subseteq Key /\ bucket' \subseteq Key /\ \A j \in Key \ {k} : j \in bucket' <=> j \in bucket
    BY DEF Change, TypeOK
  <1>3. CacheInv'
    BY <1>1 DEF NoticeInv, CacheInv
  <1>4. k \in Path /\ k # Root /\ changedDir(k) = Front(k) /\ changedDir(k) \in Path
    BY KeyPath, DirPath DEF changedDir
  <1>5. SUFFICES ASSUME Listening' PROVE EntryInv' /\ HiddenInv'
    BY <1>3 DEF NoticeInv, EntryInv, HiddenInv
  <1>6. Listening /\ stream' = Append(stream, k)
    BY <1>1, <1>5 DEF Listening, Change
  <1>7. ToSet(stream') = ToSet(stream) \cup {k}
    <2>1. /\ stream' \in Seq(Key) /\ Len(stream') = Len(stream) + 1 /\ Len(stream) \in Nat
          /\ DOMAIN stream' = 1..Len(stream') /\ DOMAIN stream = 1..Len(stream)
          /\ \A i \in 1..Len(stream) : stream'[i] = stream[i]
          /\ stream'[Len(stream) + 1] = k
      BY <1>6, AppendProperties DEF TypeOK
    <2> QED  BY <2>1 DEF ToSet
  <1>8. EntryInv'
    <2>1. SUFFICES ASSUME NEW c \in DOMAIN cached, NEW e \in cached[c] \cup Listing(bucket', c),
                          e \notin cached[c] \cap Listing(bucket', c)
                   PROVE  Noted(c, e)'
      BY <1>1 DEF EntryInv, Listing
    <2>2. CASE e \in cached[c] \cup Listing(bucket, c) /\ e \notin cached[c] \cap Listing(bucket, c)
      <3>1. Noted(c, e)
        BY <1>6, <2>2 DEF NoticeInv, EntryInv
      <3> QED  BY <1>1, <1>7, <3>1 DEF Noted, WholeComes, Named, Targets
    <2>3. CASE \/ e \in Listing(bucket', c) /\ e \notin Listing(bucket, c)
               \/ e \in Listing(bucket, c) /\ e \notin Listing(bucket', c)
      <3>1. c \in Path
        BY DirPath DEF TypeOK
      <3>2. e \in Path /\ e # Root /\ Front(e) = c /\ IsPrefix(e, k)
        BY <1>2, <2>3, <3>1, ListingDef
      <3>3. changedDir(k) = c \/ IsPrefix(e, changedDir(k))
        BY <1>4, <3>1, <3>2, FrontPrefix, PrefixOrder
      <3> QED  BY <1>7, <3>3 DEF Noted, Named
    <2>4. \/ e \in cached[c] \cup Listing(bucket, c) /\ e \notin cached[c] \cap Listing(bucket, c)
          \/ e \in Listing(bucket', c) /\ e \notin Listing(bucket, c)
          \/ e \in Listing(bucket, c) /\ e \notin Listing(bucket', c)
      BY <2>1
    <2> QED  BY <2>2, <2>3, <2>4
  <1>9. HiddenInv'
    <2>1. SUFFICES ASSUME NEW d \in Dir, Exists(d)', ~Visible(d) PROVE DropComes(d)'
      BY <1>1 DEF HiddenInv, Visible
    <2>2. CASE Exists(d)
      <3>1. DropComes(d)
        BY <1>6, <2>1, <2>2 DEF NoticeInv, HiddenInv
      <3> QED  BY <1>1, <1>7, <3>1 DEF DropComes
    <2>3. CASE ~Exists(d)
      <3>1. d \in Path
        BY DirPath
      <3>2. d # Root /\ \E j \in bucket' : IsStrictPrefix(d, j)
        BY <2>1, <2>3 DEF Exists, Listing
      <3>3. IsPrefix(d, k) /\ d # k
        BY <1>2, <2>3, <3>1, <3>2, ExistsDef DEF IsStrictPrefix
      <3>4. IsPrefix(d, changedDir(k))
        BY <1>4, <3>1, <3>3, FrontPrefix
      <3> QED  BY <1>7, <3>4 DEF DropComes
    <2> QED  BY <2>2, <2>3
  <1> QED  BY <1>8, <1>9

\* A listing taken from the server is right.
LEMMA FillNoticed ==
    ASSUME TypeOK, NoticeInv, NEW x \in Dir, Fill(x), Listening' => Listening,
           UNCHANGED <<bucket, stream, pending, todo, at, runner, dropAgain>>
    PROVE  NoticeInv'
  <1>1. /\ DOMAIN cached' = DOMAIN cached \cup {x}
        /\ \A c \in DOMAIN cached : cached'[c] = cached[c]
        /\ x \notin DOMAIN cached => cached'[x] = Listing(bucket, x)
    BY DEF Fill
  <1>a. x \in Path /\ bucket \subseteq Key
    BY DirPath DEF TypeOK
  <1>2. CacheInv'
    <2>1. \A e \in Listing(bucket, x) : e # Root /\ Front(e) = x
      BY <1>a, ListingDef
    <2> QED  BY <1>1, <2>1 DEF NoticeInv, CacheInv
  <1>3. EntryInv'
    BY <1>1 DEF NoticeInv, EntryInv, Listing, Noted, WholeComes, Named, Targets
  <1>4. HiddenInv'
    <2>1. SUFFICES ASSUME Listening', NEW d \in Dir, Exists(d), ~Visible(d)' PROVE DropComes(d)'
      BY DEF HiddenInv, Exists, Listing
    <2>2. ~Visible(d)
      <3>1. PICK c \in DOMAIN cached' : IsStrictPrefix(c, d) /\ Toward(c, d) \notin cached'[c]
        BY <2>1 DEF Visible, Toward
      <3>2. CASE c \in DOMAIN cached
        BY <1>1, <3>1, <3>2 DEF Visible, Toward
      <3>3. CASE c = x /\ x \notin DOMAIN cached
        <4>1. d \in Path
          BY DirPath
        <4> QED  BY <1>1, <1>a, <2>1, <3>1, <3>3, <4>1, ExistsShown
      <3> QED  BY <1>1, <3>2, <3>3
    <2> QED  BY <2>1, <2>2 DEF NoticeInv, HiddenInv, DropComes
  <1> QED  BY <1>2, <1>3, <1>4 DEF NoticeInv

\* What is dropped was found: no cached listing above it is wrong about the way
\* there, and those below it are gone.
LEMMA DropNoticed ==
    ASSUME TypeOK, AtInv, NoticeInv, NEW f \in Flusher, NEW x \in at[f], Found(x), Dropped(x),
           at' = [at EXCEPT ![f] = NoDir],
           UNCHANGED <<bucket, stream, pending, todo, runner, dropAgain, pc, heard, ended>>
    PROVE  NoticeInv'
  <1>1. /\ DOMAIN cached' = {c \in DOMAIN cached : ~IsPrefix(x, c)}
        /\ \A c \in DOMAIN cached' : cached'[c] = cached[c]
    BY DEF Dropped
  <1>a. x \in Dir /\ x \in Path
    BY DirPath DEF TypeOK
  <1>b. \A c \in DOMAIN cached : c \in Path
    BY DirPath DEF TypeOK
  <1>c. \A g \in Flusher : \A y \in at[g] : y = x \/ y \in at'[g]
    BY DEF TypeOK, AtInv
  <1>2. CacheInv'
    BY <1>1 DEF NoticeInv, CacheInv
  <1>3. CASE x = Root
    <2>1. DOMAIN cached' = {}
      BY <1>1, <1>3, <1>b, PrefixOrder
    <2> QED  BY <1>2, <2>1, NoticeWhole
  <1>4. CASE x # Root
    <2>1. Listening' => Listening
      BY <1>4 DEF Dropped, Listening
    <2>2. EntryInv'
      <3>1. SUFFICES ASSUME Listening', NEW c \in DOMAIN cached',
                            NEW e \in cached[c] \cup Listing(bucket, c),
                            e \notin cached[c] \cap Listing(bucket, c)
                     PROVE  Noted(c, e)'
        BY <1>1 DEF EntryInv, Listing
      <3>2. c \in DOMAIN cached /\ ~IsPrefix(x, c) /\ c \in Path /\ e \in Path /\ e # Root /\ Front(e) = c
        BY <1>1, EntryPath DEF NoticeInv
      <3>3. Noted(c, e)
        BY <2>1, <3>1, <3>2 DEF NoticeInv, EntryInv
      <3>4. ~IsPrefix(e, x)
        <4>1. SUFFICES ASSUME IsPrefix(e, x) PROVE FALSE
          OBVIOUS
        <4>2. IsPrefix(c, e) /\ c # e
          BY <3>2, FrontPrefix
        <4>3. IsStrictPrefix(c, x)
          BY <1>a, <3>2, <4>1, <4>2, PrefixOrder DEF IsStrictPrefix
        <4>4. e = Toward(c, x)
          BY <1>a, <3>2, <4>1, <4>3, TowardPath
        <4>5. e \in cached[c]
          BY <3>2, <4>3, <4>4 DEF Found, Visible, Toward
        <4>6. e \in Listing(bucket, c)
          BY <1>a, <3>2, <4>3, <4>4, ExistsShown DEF Found
        <4> QED  BY <3>1, <4>5, <4>6
      <3>5. CASE WholeComes
        BY <3>5 DEF Noted, WholeComes
      <3>6. ASSUME NEW y \in Targets, IsPrefix(y, c) \/ IsPrefix(e, y) PROVE Noted(c, e)'
        <4>1. y # x
          BY <3>2, <3>4, <3>6
        <4>2. y \in Targets'
          BY <1>c, <4>1 DEF Targets
        <4> QED  BY <3>6, <4>2 DEF Noted
      <3>7. ASSUME NEW y \in Named, y = c \/ IsPrefix(e, y) PROVE Noted(c, e)'
        BY <3>7 DEF Noted, Named
      <3> QED  BY <3>3, <3>5, <3>6, <3>7 DEF Noted
    <2>3. HiddenInv'
      <3>1. SUFFICES ASSUME Listening', NEW d \in Dir, Exists(d), ~Visible(d)' PROVE DropComes(d)'
        BY DEF HiddenInv, Exists, Listing
      <3>2. PICK c \in DOMAIN cached : ~IsPrefix(x, c) /\ IsStrictPrefix(c, d) /\ Toward(c, d) \notin cached[c]
        BY <1>1, <3>1 DEF Visible, Toward
      <3>3. DropComes(d)
        BY <2>1, <3>1, <3>2 DEF NoticeInv, HiddenInv, Visible, Toward
      <3>4. c \in Path /\ d \in Path
        BY <1>b, DirPath
      <3>5. ~IsPrefix(d, x) /\ ~IsPrefix(x, d)
        <4>1. ASSUME IsPrefix(c, x) PROVE ~IsPrefix(Toward(c, d), x)
          <5>1. SUFFICES ASSUME IsPrefix(Toward(c, d), x) PROVE FALSE
            OBVIOUS
          <5>2. c # x
            BY <1>a, <3>2, PrefixOrder
          <5>3. Toward(c, d) = Toward(c, x)
            BY <1>a, <3>2, <3>4, <4>1, <5>1, <5>2, TowardPath DEF IsStrictPrefix
          <5> QED  BY <3>2, <4>1, <5>2, <5>3 DEF Found, Visible, Toward, IsStrictPrefix
        <4>2. /\ IsPrefix(c, d) /\ c # d /\ Toward(c, d) \in Path /\ IsPrefix(Toward(c, d), d)
              /\ IsPrefix(c, Toward(c, d)) /\ Toward(c, d) # Root /\ Front(Toward(c, d)) = c
          BY <3>2, <3>4, TowardPath DEF IsStrictPrefix
        <4>3. ~IsPrefix(d, x)
          BY <1>a, <3>4, <4>1, <4>2, PrefixOrder
        <4>4. ASSUME IsPrefix(x, d) PROVE FALSE
          <5>1. IsPrefix(c, x)
            BY <1>a, <3>2, <3>4, <4>2, <4>4, PrefixOrder
          <5>2. IsPrefix(x, Toward(c, d)) /\ x # Toward(c, d)
            <6>1. ~IsPrefix(Toward(c, d), x)
              BY <4>1, <5>1
            <6>2. IsPrefix(x, Toward(c, d))
              BY <1>a, <3>4, <4>2, <4>4, <6>1, PrefixOrder
            <6> QED  BY <1>a, <6>1, <6>2, PrefixOrder
          <5> QED  BY <1>a, <3>2, <4>2, <5>2, FrontPrefix
        <4> QED  BY <4>3, <4>4
      <3> QED  BY <1>c, <3>3, <3>5 DEF DropComes
    <2> QED  BY <1>2, <2>2, <2>3 DEF NoticeInv
  <1> QED  BY <1>3, <1>4

\* Of a directory that is not found, the parent is next: the way up passes every
\* listing that may be wrong.
LEMMA UpwardKeeps ==
    ASSUME TypeOK, AtInv, NEW f \in Flusher, NEW x \in at[f], ~Found(x),
           at' = [at EXCEPT ![f] = {Front(x)}],
           UNCHANGED <<stream, pending, todo, runner, dropAgain>>
    PROVE  Keeps
  <1>a. x \in Path /\ x # Root
    BY RootFound, DirPath DEF TypeOK
  <1>b. /\ Front(x) \in Path /\ IsPrefix(Front(x), x)
        /\ \A t \in Path : IsPrefix(t, x) /\ t # x => IsPrefix(t, Front(x))
    BY <1>a, FrontPrefix
  <1>c. \A g \in Flusher : \A y \in at[g] : y = x \/ y \in at'[g]
    BY DEF TypeOK, AtInv
  <1>d. Front(x) \in at'[f]
    BY DEF TypeOK
  <1>1. ASSUME NEW c \in Path, NEW e \in Path, e # Root, Front(e) = c, Noted(c, e) PROVE Noted(c, e)'
    <2>1. CASE WholeComes
      BY <2>1 DEF Noted, WholeComes
    <2>2. ASSUME NEW y \in Targets, IsPrefix(y, c) \/ IsPrefix(e, y) PROVE Noted(c, e)'
      <3>1. CASE y # x
        <4>1. y \in Targets'
          BY <1>c, <3>1 DEF Targets
        <4> QED  BY <2>2, <4>1 DEF Noted
      <3>2. CASE y = x
        <4>1. IsPrefix(Front(x), c) \/ IsPrefix(e, Front(x))
          BY <1>1, <1>a, <1>b, <2>2, <3>2, PrefixOrder
        <4>2. Front(x) \in Targets'
          BY <1>d DEF Targets
        <4> QED  BY <4>1, <4>2 DEF Noted
      <3> QED  BY <3>1, <3>2
    <2>3. ASSUME NEW y \in Named, y = c \/ IsPrefix(e, y) PROVE Noted(c, e)'
      BY <2>3 DEF Noted, Named
    <2> QED  BY <1>1, <2>1, <2>2, <2>3 DEF Noted
  <1>2. ASSUME NEW d \in Dir, DropComes(d) PROVE DropComes(d)'
    <2>1. d \in Path
      BY DirPath
    <2>2. ASSUME NEW g \in Flusher, NEW y \in todo[g] \cup at[g], IsPrefix(d, y) \/ IsPrefix(y, d)
          PROVE  DropComes(d)'
      <3>1. CASE y # x \/ y \in todo[g]
        BY <1>c, <2>2, <3>1 DEF DropComes
      <3>2. CASE y = x
        <4>1. IsPrefix(d, Front(x)) \/ IsPrefix(Front(x), d)
          BY <1>a, <1>b, <2>1, <2>2, <3>2, PrefixOrder
        <4> QED  BY <1>d, <4>1 DEF DropComes
      <3> QED  BY <3>1, <3>2
    <2> QED  BY <1>2, <2>2 DEF DropComes
  <1> QED  BY <1>1, <1>2 DEF Keeps

\* Every directory of a burst is below one of the outermost.
LEMMA OutermostBelow ==
    ASSUME NEW S, S \subseteq Path, NEW p \in S
    PROVE  \E o \in outermost(S) : IsPrefix(o, p)
  <1> DEFINE T == {Len(o) : o \in {q \in S : IsPrefix(q, p)}}
  <1>a. \A s \in Path : Len(s) \in Nat
    BY DEF Path
  <1>b. IsPrefix(p, p)
    BY PrefixOrder
  <1>1. T \subseteq Nat /\ T # {}
    <2>1. T \subseteq Nat
      BY <1>a
    <2>2. Len(p) \in T
      BY <1>b
    <2> QED  BY <2>1, <2>2
  <1>2. PICK n \in T : \A m \in T : n <= m
    BY <1>1, LeastNat
  <1>3. PICK o \in S : IsPrefix(o, p) /\ Len(o) = n
    OBVIOUS
  <1>4. ASSUME NEW q \in S, IsStrictPrefix(q, o) PROVE FALSE
    <2>1. IsPrefix(q, o) /\ q # o
      BY <1>4 DEF IsStrictPrefix
    <2>2. IsPrefix(q, p)
      BY <1>3, <2>1, PrefixOrder
    <2>3. Len(o) <= Len(q)
      BY <1>2, <1>3, <2>2
    <2>4. Len(q) <= Len(o) /\ \A i \in 1..Len(q) : q[i] = o[i]
      BY <2>1, PrefixDef
    <2>5. Len(q) = Len(o)
      BY <1>a, <2>3, <2>4
    <2> QED  BY <2>1, <2>4, <2>5, SeqEqual DEF Path
  <1> QED  BY <1>3, <1>4 DEF outermost

\* A burst is flushed: the outermost directories stand for the others.
LEMMA BurstKeeps ==
    ASSUME TypeOK, NEW f \in Flusher, todo[f] = {}, pending' = {},
           todo' = [todo EXCEPT ![f] = outermost(pending)],
           UNCHANGED <<stream, at, runner, dropAgain>>
    PROVE  Keeps
  <1>a. pending \subseteq Path
    BY DirPath DEF TypeOK
  <1>b. /\ \A g \in Flusher : todo[g] \subseteq todo'[g]
        /\ todo'[f] = outermost(pending)
    BY DEF TypeOK
  <1>c. outermost(pending) \subseteq pending
    BY DEF outermost
  <1>1. ASSUME NEW c \in Path, NEW e \in Path, e # Root, Front(e) = c, Noted(c, e) PROVE Noted(c, e)'
    <2>1. CASE WholeComes
      BY <2>1 DEF Noted, WholeComes
    <2>2. ASSUME NEW y \in pending, y = c \/ IsPrefix(e, y) PROVE Noted(c, e)'
      <3>1. PICK o \in outermost(pending) : IsPrefix(o, y)
        BY <1>a, OutermostBelow
      <3>2. o \in Targets' /\ o \in Path /\ y \in Path
        BY <1>a, <1>b, <1>c DEF Targets
      <3>3. \A t \in Path : IsPrefix(t, e) /\ t # e => IsPrefix(t, c)
        BY <1>1, FrontPrefix
      <3>4. IsPrefix(o, c) \/ IsPrefix(e, o)
        BY <1>1, <2>2, <3>1, <3>2, <3>3, PrefixOrder
      <3> QED  BY <3>2, <3>4 DEF Noted
    <2>3. ASSUME NEW k \in ToSet(stream), changedDir(k) = c \/ IsPrefix(e, changedDir(k))
          PROVE  Noted(c, e)'
      BY <2>3 DEF Noted, Named
    <2>4. ASSUME NEW y \in Targets, IsPrefix(y, c) \/ IsPrefix(e, y) PROVE Noted(c, e)'
      <3>1. y \in Targets'
        BY <1>b DEF Targets
      <3> QED  BY <2>4, <3>1 DEF Noted
    <2> QED  BY <1>1, <2>1, <2>2, <2>3, <2>4 DEF Noted, Named
  <1>2. ASSUME NEW d \in Dir, DropComes(d) PROVE DropComes(d)'
    <2>1. d \in Path
      BY DirPath
    <2>2. ASSUME NEW y \in pending, IsPrefix(d, y) PROVE DropComes(d)'
      <3>1. PICK o \in outermost(pending) : IsPrefix(o, y)
        BY <1>a, OutermostBelow
      <3>2. IsPrefix(o, d) \/ IsPrefix(d, o)
        BY <1>a, <1>c, <2>1, <2>2, <3>1, PrefixOrder
      <3> QED  BY <1>b, <3>2 DEF DropComes
    <2>3. ASSUME NEW g \in Flusher, NEW y \in todo[g] \cup at[g], IsPrefix(d, y) \/ IsPrefix(y, d)
          PROVE  DropComes(d)'
      BY <1>b, <2>3 DEF DropComes
    <2> QED  BY <1>2, <2>2, <2>3 DEF DropComes
  <1> QED  BY <1>1, <1>2 DEF Keeps

LEMMA AtStep == TypeOK /\ AtInv /\ [Next]_vars => AtInv'
  <1> SUFFICES ASSUME TypeOK, AtInv, [Next]_vars PROVE AtInv'
    OBVIOUS
  <1>1. CASE UNCHANGED at
    BY <1>1 DEF AtInv
  <1>2. ASSUME NEW f \in Flusher, NEW d, at' = [at EXCEPT ![f] = {d}] \/ at' = [at EXCEPT ![f] = {}]
        PROVE  AtInv'
    BY <1>2 DEF AtInv, TypeOK
  <1>3. ASSUME NEW f \in Flusher, FlushStep(f) PROVE AtInv'
    BY <1>1, <1>2, <1>3 DEF FlushStep, flush, FlushNext, invalidateNearest, FlushWarm, NoDir
  <1>4. CASE ~\E f \in Flusher : FlushStep(f)
    BY <1>1, <1>4 DEF Next, vars, Change, Read, Resolve, ResolveFails, StreamBreaks, Silence, run,
       Register, ListenFails, connected, changed, watchdog, ListenEnds, Sleep, WaitDrop, Wait,
       ResolveAgain, Elapse, cancel, dropAllNow, NextDrop, warmUp, watchVars, flushVars
  <1> QED  BY <1>3, <1>4

\* The events of a stream that has one read.
LEMMA HeadOfStream ==
    ASSUME TypeOK, stream # << >>
    PROVE  ToSet(stream) = {Head(stream)} \cup ToSet(Tail(stream))
  <1>1. /\ Len(stream) \in Nat \ {0} /\ DOMAIN stream = 1..Len(stream) /\ Head(stream) = stream[1]
        /\ Tail(stream) \in Seq(Key) /\ Len(Tail(stream)) = Len(stream) - 1
        /\ DOMAIN Tail(stream) = 1..(Len(stream) - 1)
        /\ \A i \in 1..(Len(stream) - 1) : Tail(stream)[i] = stream[i + 1]
    BY HeadTailProperties DEF TypeOK
  <1>2. ASSUME NEW i \in DOMAIN stream, i # 1 PROVE stream[i] \in ToSet(Tail(stream))
    <2>1. i - 1 \in DOMAIN Tail(stream) /\ Tail(stream)[i - 1] = stream[i]
      BY <1>1, <1>2
    <2> QED  BY <2>1 DEF ToSet
  <1>3. ASSUME NEW i \in DOMAIN Tail(stream) PROVE Tail(stream)[i] \in ToSet(stream)
    <2>1. i + 1 \in DOMAIN stream /\ Tail(stream)[i] = stream[i + 1]
      BY <1>1
    <2> QED  BY <2>1 DEF ToSet
  <1>4. Head(stream) \in ToSet(stream)
    BY <1>1 DEF ToSet
  <1> QED  BY <1>1, <1>2, <1>3, <1>4 DEF ToSet

\* The watch's loop.
LEMMA RunNoticed ==
    ASSUME TypeOK, NoticeInv,
           \/ Resolve \/ ResolveFails \/ StreamBreaks \/ Silence \/ Elapse \/ cancel
           \/ run
    PROVE  NoticeInv'
  <1> USE DEF watchVars, flushVars, Step
  <1>a. CacheInv
    BY DEF NoticeInv
  <1>1. CASE \/ Resolve \/ ResolveFails \/ StreamBreaks \/ Silence \/ cancel
             \/ Register \/ ListenFails \/ watchdog \/ ListenEnds \/ Sleep \/ Wait \/ ResolveAgain
    <2>1. ~Listening' /\ UNCHANGED cached
      BY <1>1 DEF Resolve, ResolveFails, StreamBreaks, Silence, cancel, Register, ListenFails,
         watchdog, ListenEnds, Sleep, Wait, ResolveAgain, Listening
    <2> QED  BY <1>a, <2>1, NoticeWhole DEF CacheInv
  <1>2. CASE Elapse
    <2>1. UNCHANGED <<bucket, cached, pc, heard, ended, lost, stream, pending, todo, at, runner, dropAgain>>
      BY <1>2 DEF Elapse
    <2> QED  BY <2>1, NoticeFrame, SameNotices DEF Listening
  <1>3. CASE WaitDrop
    <2>1. ~Listening'
      BY <1>3 DEF WaitDrop, Listening
    <2>2. CacheInv'
      BY <1>3, <1>a DEF WaitDrop, invalidate, Dropped, DropFails, CacheInv
    <2> QED  BY <2>1, <2>2, NoticeWhole
  <1>4. CASE connected
    <2>1. WholeComes' /\ UNCHANGED cached
      BY <1>4, DropAllType DEF connected, WholeComes
    <2> QED  BY <1>a, <2>1, NoticeWhole DEF CacheInv
  <1>5. CASE changed
    <2>1. UNCHANGED <<bucket, cached, pc, heard, ended, lost, todo, at, runner, dropAgain>>
      BY <1>5 DEF changed
    <2>2. /\ ToSet(stream) = {Head(stream)} \cup ToSet(stream')
          /\ pending' = pending \cup {changedDir(Head(stream))}
      BY <1>5, HeadOfStream DEF changed
    <2>3. Keeps
      <3>1. Named' = Named /\ Targets' = Targets
        BY <2>1, <2>2 DEF Named, Targets
      <3>2. \A d \in Dir : DropComes(d) => DropComes(d)'
        BY <2>1, <2>2 DEF DropComes
      <3> QED  BY <2>1, <3>1, <3>2 DEF Keeps, Noted, WholeComes
    <2> QED  BY <2>1, <2>3, NoticeFrame DEF Listening
  <1> QED  BY <1>1, <1>2, <1>3, <1>4, <1>5 DEF run

\* The flush goroutines.
LEMMA FlushNoticed ==
    ASSUME TypeOK, AtInv, NoticeInv, NEW f \in Flusher, FlushStep(f)
    PROVE  NoticeInv'
  <1> USE DEF flushVars
  <1>a. CacheInv
    BY DEF NoticeInv
  <1>1. CASE flush(f)
    <2>1. /\ UNCHANGED <<bucket, cached, pc, heard, ended, lost, stream, at>>
          /\ todo[f] = {} /\ pending' = {}
      BY <1>1 DEF flush
    <2>2. CASE ended
      BY <1>a, <2>1, <2>2, NoticeWhole DEF CacheInv, Listening
    <2>3. CASE dropAll
      BY <1>a, <2>1, <2>3, DropAllType, NoticeWhole DEF CacheInv, WholeComes
    <2>4. CASE /\ todo' = [todo EXCEPT ![f] = outermost(pending)]
               /\ UNCHANGED <<dropping, dropAgain, runner>>
      BY <2>1, <2>4, BurstKeeps, NoticeFrame DEF Listening
    <2> QED  BY <1>1, <2>2, <2>3, <2>4 DEF flush
  <1>2. CASE FlushNext(f)
    <2>1. /\ UNCHANGED <<bucket, cached, pc, heard, ended, lost, stream, pending, runner, dropAgain>>
          /\ \A g \in Flusher : todo'[g] \cup at'[g] = todo[g] \cup at[g]
      BY <1>2 DEF FlushNext, NoDir, TypeOK
    <2>2. Named' = Named /\ Targets' = Targets /\ \A d \in Dir : DropComes(d) => DropComes(d)'
      <3>1. Named' = Named /\ Targets' = Targets
        BY <2>1 DEF Named, Targets
      <3>2. \A d \in Dir : DropComes(d) => DropComes(d)'
        BY <2>1 DEF DropComes
      <3> QED  BY <3>1, <3>2
    <2>3. Keeps
      BY <2>1, <2>2 DEF Keeps, Noted, WholeComes
    <2> QED  BY <2>1, <2>3, NoticeFrame DEF Listening
  <1>3. CASE invalidateNearest(f)
    <2>1. PICK x \in at[f] :
            \/ /\ Found(x) /\ Dropped(x) /\ at' = [at EXCEPT ![f] = NoDir]
            \/ ~Found(x) /\ at' = [at EXCEPT ![f] = {Front(x)}] /\ UNCHANGED <<cached, lost>>
            \/ DropFails
      BY <1>3 DEF invalidateNearest
    <2>2. UNCHANGED <<bucket, stream, pending, todo, runner, dropAgain, pc, heard, ended>>
      BY <1>3 DEF invalidateNearest
    <2>3. CASE Found(x) /\ Dropped(x) /\ at' = [at EXCEPT ![f] = NoDir]
      BY <2>2, <2>3, DropNoticed
    <2>4. CASE ~Found(x) /\ at' = [at EXCEPT ![f] = {Front(x)}] /\ UNCHANGED <<cached, lost>>
      BY <2>2, <2>4, UpwardKeeps, NoticeFrame DEF Listening
    <2>5. CASE DropFails
      BY <1>a, <2>5, NoticeWhole DEF DropFails, CacheInv, Listening
    <2> QED  BY <2>1, <2>3, <2>4, <2>5
  <1>4. CASE FlushWarm(f)
    <2>1. UNCHANGED <<bucket, cached, pc, heard, ended, lost, stream, pending, todo, at, runner, dropAgain>>
      BY <1>4 DEF FlushWarm
    <2> QED  BY <2>1, NoticeFrame, SameNotices DEF Listening
  <1> QED  BY <1>1, <1>2, <1>3, <1>4 DEF FlushStep

\* The runner of the whole drops, which runs on for one asked for meanwhile.
LEMMA RunnerNoticed ==
    ASSUME TypeOK, NoticeInv, dropAllNow \/ NextDrop
    PROVE  NoticeInv'
  <1> USE DEF flushVars
  <1>a. CacheInv /\ \A c \in DOMAIN cached : c \in Path
    BY DirPath DEF NoticeInv, TypeOK
  <1>1. UNCHANGED <<bucket, pc, heard, ended, stream, pending, todo, at>>
    BY DEF dropAllNow, NextDrop
  <1>2. CASE NextDrop
    <2>1. UNCHANGED <<cached, lost>> /\ (WholeComes <=> WholeComes')
      BY <1>2 DEF NextDrop, WholeComes, TypeOK
    <2>2. Named' = Named /\ Targets' = Targets
      BY <1>1 DEF Named, Targets
    <2>3. Keeps
      BY <1>1, <2>1, <2>2 DEF Keeps, Noted, DropComes, WholeComes
    <2> QED  BY <1>1, <2>1, <2>3, NoticeFrame DEF Listening
  <1>3. CASE Dropped(Root)
    <2>1. DOMAIN cached' = {}
      BY <1>3, <1>a, PrefixOrder DEF Dropped
    <2> QED  BY <2>1, NoticeWhole DEF CacheInv
  <1>4. CASE UNCHANGED cached /\ ~Listening'
    BY <1>a, <1>4, NoticeWhole DEF CacheInv
  <1>5. CASE runner = "warm" /\ runner' = "next" /\ UNCHANGED <<cached, lost, dropAgain>>
    <2>1. Named' = Named /\ Targets' = Targets /\ (WholeComes <=> WholeComes')
      BY <1>1, <1>5 DEF Named, Targets, WholeComes
    <2>2. Keeps
      BY <1>1, <1>5, <2>1 DEF Keeps, Noted, DropComes, WholeComes
    <2> QED  BY <1>1, <1>5, <2>2, NoticeFrame DEF Listening
  <1>6. CASE dropAllNow
    BY <1>3, <1>4, <1>5, <1>6 DEF dropAllNow, DropFails, Listening
  <1> QED  BY <1>2, <1>6

\* Pods that read, and the walks.
LEMMA ReadNoticed ==
    ASSUME TypeOK, NoticeInv, NEW d \in Dir, Read(d) \/ warmUp(d)
    PROVE  NoticeInv'
  <1> USE DEF watchVars, flushVars
  <1>1. UNCHANGED <<bucket, pc, heard, ended, stream, pending, todo, at, runner, dropAgain>>
    BY DEF Read, warmUp
  <1>2. CASE Fill(d) /\ UNCHANGED lost
    BY <1>1, <1>2, FillNoticed DEF Listening
  <1>3. CASE UNCHANGED <<cached, lost>>
    BY <1>1, <1>3, NoticeFrame, SameNotices DEF Listening
  <1>4. CASE UNCHANGED cached /\ lost'
    BY <1>4, NoticeWhole DEF NoticeInv, CacheInv, Listening
  <1> QED  BY <1>2, <1>3, <1>4 DEF Read, warmUp

\* The invariant behind StaleIsNoticed.
THEOREM NoticeInductive == Spec => [](AtInv /\ NoticeInv)
  <1>1. Init => AtInv /\ NoticeInv
    <2> SUFFICES ASSUME Init PROVE AtInv /\ NoticeInv
      OBVIOUS
    <2>1. AtInv
      BY DEF Init, AtInv, NoDir
    <2>2. CacheInv /\ EntryInv /\ HiddenInv
      BY DEF Init, CacheInv, EntryInv, HiddenInv, Listening
    <2> QED  BY <2>1, <2>2 DEF NoticeInv
  <1>2. TypeOK /\ AtInv /\ NoticeInv /\ [Next]_vars => AtInv' /\ NoticeInv'
    <2> SUFFICES ASSUME TypeOK, AtInv, NoticeInv, [Next]_vars PROVE NoticeInv'
      BY AtStep
    <2>1. CASE UNCHANGED vars
      <3>1. UNCHANGED <<bucket, cached, pc, heard, ended, lost, stream, pending, todo, at, runner, dropAgain>>
        BY <2>1 DEF vars
      <3> QED  BY <3>1, NoticeFrame, SameNotices DEF Listening
    <2>2. CASE Next
      BY <2>2, ChangeNoticed, ReadNoticed, RunNoticed, FlushNoticed, RunnerNoticed DEF Next
    <2> QED  BY <2>1, <2>2
  <1> QED  BY <1>1, <1>2, TypeCorrect, PTL DEF Spec

\* While the watch is heard, a stale listing has an event, a burst or a drop on
\* its way, whatever the order in which objects change, pods list, events are
\* delivered, bursts are cut to their outermost directories, and several flush
\* goroutines, walks and drops of the whole cache run into each other.
THEOREM NothingStaleUnnoticed == Spec => []StaleIsNoticed
  <1>1. TypeOK /\ NoticeInv => StaleIsNoticed
    <2> SUFFICES ASSUME TypeOK, NoticeInv, Listening, NEW d \in Dir, Stale(d) PROVE DropComes(d)
      BY DEF StaleIsNoticed, Listening
    <2>1. d \in DOMAIN cached /\ cached[d] # Listing(bucket, d)
      BY DEF Stale
    <2>2. PICK e \in cached[d] \cup Listing(bucket, d) : e \notin cached[d] \cap Listing(bucket, d)
      BY <2>1
    <2>3. Noted(d, e)
      BY <2>1, <2>2 DEF NoticeInv, EntryInv
    <2>4. d \in Path /\ e \in Path /\ e # Root /\ Front(e) = d
      BY <2>1, EntryPath DEF NoticeInv
    <2>5. IsPrefix(d, e)
      BY <2>4, FrontPrefix
    <2>6. CASE WholeComes
      BY <2>6 DEF WholeComes, DropComes
    <2>7. ASSUME NEW x \in Named \cup Targets, IsPrefix(e, x) PROVE DropComes(d)
      <3>1. x \in Path
        BY DirPath, KeyPath DEF TypeOK, Named, Targets, ToSet
      <3>2. IsPrefix(d, x)
        BY <2>4, <2>5, <2>7, <3>1, PrefixOrder
      <3> QED  BY <2>7, <3>2 DEF Named, Targets, DropComes
    <2>8. ASSUME NEW x \in Targets, IsPrefix(x, d) PROVE DropComes(d)
      BY <2>8 DEF Targets, DropComes
    <2>9. ASSUME d \in Named PROVE DropComes(d)
      BY <2>4, <2>9, PrefixOrder DEF Named, DropComes
    <2> QED  BY <2>3, <2>6, <2>7, <2>8, <2>9 DEF Noted
  <1> QED  BY <1>1, TypeCorrect, NoticeInductive, PTL
=============================================================================
