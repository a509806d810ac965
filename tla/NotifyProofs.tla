---------------------------- MODULE NotifyProofs ----------------------------
(***************************************************************************)
(* The theorems of Notify: the types, the names kept for the watches, that *)
(* every file closed in a watched directory is announced, and that neither *)
(* the path to the newest directory nor one just left is given up.         *)
(***************************************************************************)
EXTENDS Notify, FiniteSetTheorems, SequenceTheorems, TLAPS

Path == Seq(Nat)
EventSet == [wd : 1..(nextwd - 1), isdir : BOOLEAN, name : Names \cup Nat]

\* The directories, and the files in them.
Tree ==
  /\ exists \subseteq Seq(Nat \ {0}) /\ IsFiniteSet(exists)
  /\ \A d \in exists : Len(d) <= MaxDepth
  /\ here \in exists
  /\ files \subseteq [dir : exists, name : Names] /\ owed \subseteq files

\* The numbers: those of the watches and of events not handled yet have been
\* given out, and none is beyond wdirs.
Numbers ==
  /\ nextwd \in 1..(MAX_DIRS + 1)
  /\ DOMAIN watches \subseteq 1..(nextwd - 1)
  /\ queue \in Seq(EventSet) /\ evtbuf \in Seq(EventSet)
  /\ curdir \in 0..MAX_DIRS
  /\ curqrmd \in 0..(MAX_KEEPDIR - 1)
  /\ qrmdir \in [0..(MAX_KEEPDIR - 1) -> 0..MAX_DIRS]
  /\ wdirs \in [0..(MAX_DIRS - 1) -> Path]

Places ==
  /\ npc \in {"start", "select", "event", "adding", "astray"}
  /\ avpath \in Path /\ Len(avpath) <= MaxDepth
  /\ dirent \in Seq(Path)
  /\ npc \in {"start", "adding"} <=> dirent # <<>>
  /\ npc = "event" => evtbuf # <<>>
  /\ npc \in {"start", "select"} => evtbuf = <<>>

\* Why no number is ever beyond wdirs: a new instance begins with the path of
\* one directory, which is shorter than wdirs, and the last number given out
\* stays the current one until the instance is given up.
InTime ==
  /\ npc = "start" => nextwd + Len(dirent) <= MaxDepth + 2
  /\ npc # "start" /\ nextwd = MAX_DIRS + 1 => curdir = MAX_DIRS

WatchInv == Tree /\ Numbers /\ Places /\ InTime /\ NamesWatched

-----------------------------------------------------------------------------
(* The parts of the steps.                                                 *)

\* Two numbers given out do not share a place in wdirs.
LEMMA OwnPlace ==
  ASSUME NEW v \in 1..MAX_DIRS, NEW w \in 1..MAX_DIRS
  PROVE  /\ v % MAX_DIRS \in 0..(MAX_DIRS - 1)
         /\ v # w => v % MAX_DIRS # w % MAX_DIRS
<1>1. MAX_DIRS \in Nat \ {0}
  BY NotifyAssumption
<1>2. \A x \in 1..MAX_DIRS : x % MAX_DIRS = IF x = MAX_DIRS THEN 0 ELSE x
  BY <1>1
<1> QED
  BY <1>1, <1>2

\* The watch a directory has is on it.
LEMMA WatchedFacts ==
  ASSUME NEW d, Watched(d)
  PROVE  LET wd == CHOOSE w \in DOMAIN watches : watches[w] = d
         IN  wd \in DOMAIN watches /\ watches[wd] = d
  BY DEF Watched

\* add_watch: a number that is not in use, or the one the directory has.
LEMMA AddFacts ==
  ASSUME Numbers, NamesWatched, NEW d \in Path, add_watch(d),
         nextwd <= MAX_DIRS
  PROVE  /\ nextwd' \in {nextwd, nextwd + 1} /\ nextwd' \in 1..(MAX_DIRS + 1)
         /\ curdir' \in 1..(nextwd' - 1)
         /\ nextwd' = MAX_DIRS + 1 => curdir' = MAX_DIRS
         /\ DOMAIN watches' \subseteq 1..(nextwd' - 1)
         /\ wdirs' \in [0..(MAX_DIRS - 1) -> Path]
         /\ NamesWatched'
         /\ \A w \in 1..(nextwd - 1) :
              w # curdir' \/ w \in DOMAIN watches
                => wdirs'[w % MAX_DIRS] = wdirs[w % MAX_DIRS]
<1> DEFINE wd == IF Watched(d)
                 THEN CHOOSE w \in DOMAIN watches : watches[w] = d
                 ELSE nextwd
<1>1. /\ watches' = [w \in DOMAIN watches \union {wd} |->
                       IF w = wd THEN d ELSE watches[w]]
      /\ nextwd' = IF Watched(d) THEN nextwd ELSE nextwd + 1
      /\ wdirs' = [wdirs EXCEPT ![wd % MAX_DIRS] = d]
      /\ curdir' = wd
  BY DEF add_watch
<1>2. Watched(d) => wd \in DOMAIN watches /\ watches[wd] = d
  BY WatchedFacts
<1>3. ~Watched(d) => wd = nextwd
  OBVIOUS
<1> HIDE DEF wd
<1>4. /\ MAX_DIRS \in Nat /\ nextwd \in 1..MAX_DIRS
      /\ DOMAIN watches \subseteq 1..(nextwd - 1)
      /\ wdirs \in [0..(MAX_DIRS - 1) -> Path]
  BY NotifyAssumption DEF Numbers
<1>5. wd \in 1..(nextwd' - 1) /\ wd \in 1..MAX_DIRS
  BY <1>1, <1>2, <1>3, <1>4
<1>6. wd % MAX_DIRS \in 0..(MAX_DIRS - 1)
  BY <1>5, OwnPlace
<1>7. wdirs' \in [0..(MAX_DIRS - 1) -> Path]
  BY <1>1, <1>4, <1>6
<1>8. ASSUME NEW w \in 1..(nextwd - 1), w # wd
      PROVE  wdirs'[w % MAX_DIRS] = wdirs[w % MAX_DIRS]
  <2>1. w \in 1..MAX_DIRS
    BY <1>4
  <2>2. w % MAX_DIRS # wd % MAX_DIRS /\ w % MAX_DIRS \in 0..(MAX_DIRS - 1)
    BY <2>1, <1>5, <1>8, OwnPlace
  <2> QED
    BY <2>2, <1>1, <1>4
<1>9. wdirs'[wd % MAX_DIRS] = d
  BY <1>1, <1>4, <1>6
<1>10. NamesWatched'
  <2> SUFFICES ASSUME NEW w \in DOMAIN watches'
               PROVE  wdirs'[w % MAX_DIRS] = watches'[w]
    BY DEF NamesWatched, getwdir
  <2>1. CASE w = wd
    BY <2>1, <1>1, <1>9
  <2>2. CASE w # wd
    <3>1. w \in DOMAIN watches /\ watches'[w] = watches[w]
      BY <2>2, <1>1
    <3>2. wdirs[w % MAX_DIRS] = watches[w]
      BY <3>1 DEF NamesWatched, getwdir
    <3> QED
      BY <3>1, <3>2, <2>2, <1>4, <1>8
  <2> QED
    BY <2>1, <2>2
<1>11. wd \in DOMAIN watches => wdirs'[wd % MAX_DIRS] = wdirs[wd % MAX_DIRS]
  <2>1. ~Watched(d) => wd \notin DOMAIN watches
    BY <1>3, <1>4
  <2>2. wd \in DOMAIN watches => wdirs[wd % MAX_DIRS] = watches[wd]
    BY DEF NamesWatched, getwdir
  <2> QED
    BY <2>1, <2>2, <1>2, <1>9
<1>12. DOMAIN watches' \subseteq 1..(nextwd' - 1)
  BY <1>1, <1>4, <1>5
<1>13. /\ nextwd' \in {nextwd, nextwd + 1} /\ nextwd' \in 1..(MAX_DIRS + 1)
       /\ nextwd' = MAX_DIRS + 1 => wd = MAX_DIRS
  BY <1>1, <1>3, <1>4
<1> QED
  BY <1>1, <1>5, <1>7, <1>8, <1>10, <1>11, <1>12, <1>13

\* rm_watch: the place for the next removal turns round in qrmdir.
LEMMA RemoveFacts ==
  ASSUME Numbers, NamesWatched, NEW wd \in 0..MAX_DIRS, rm_watch(wd)
  PROVE  /\ curqrmd' \in 0..(MAX_KEEPDIR - 1)
         /\ qrmdir' \in [0..(MAX_KEEPDIR - 1) -> 0..MAX_DIRS]
         /\ DOMAIN watches' \subseteq DOMAIN watches
         /\ \A w \in DOMAIN watches' : watches'[w] = watches[w]
<1>1. MAX_KEEPDIR \in Nat \ {0}
  BY NotifyAssumption
<1>2. (curqrmd + 1) % MAX_KEEPDIR \in 0..(MAX_KEEPDIR - 1)
  BY <1>1 DEF Numbers
<1> QED
  BY <1>2 DEF rm_watch, Next_qrmd, Unwatch, Numbers

\* What is posted comes last in the queue, and carries the number of the watch.
LEMMA PostFacts ==
  ASSUME Numbers, NEW d, NEW isdir \in BOOLEAN, NEW name \in Names \cup Nat,
         Post(d, isdir, name)
  PROVE  /\ queue' \in Seq(EventSet)
         /\ Len(queue) <= Len(queue')
         /\ \A j \in 1..Len(queue) : queue'[j] = queue[j]
<1>1. queue \in Seq(EventSet)
  BY DEF Numbers
<1>2. CASE ~Watched(d)
  BY <1>1, <1>2 DEF Post
<1>3. CASE Watched(d)
  <2>1. PICK w \in DOMAIN watches :
          queue' = Append(queue, [wd |-> w, isdir |-> isdir, name |-> name])
    BY <1>3, WatchedFacts DEF Post
  <2>2. [wd |-> w, isdir |-> isdir, name |-> name] \in EventSet
    BY DEF EventSet, Numbers
  <2> QED
    BY <1>1, <2>1, <2>2
<1> QED
  BY <1>2, <1>3

LEMMA FilePosted ==
  ASSUME Numbers, NEW d, NEW name \in Names, Watched(d),
         Post(d, FALSE, name)
  PROVE  \E w \in DOMAIN watches :
           /\ watches[w] = d /\ Len(queue') = Len(queue) + 1
           /\ queue'[Len(queue')].wd = w /\ ~queue'[Len(queue')].isdir
           /\ queue'[Len(queue')].name = name
<1>1. queue \in Seq(EventSet)
  BY DEF Numbers
<1>2. PICK w \in DOMAIN watches :
        /\ watches[w] = d
        /\ queue' = Append(queue, [wd |-> w, isdir |-> FALSE, name |-> name])
  BY WatchedFacts DEF Post
<1> DEFINE e == [wd |-> w, isdir |-> FALSE, name |-> name]
<1>3. e \in EventSet /\ e.wd = w /\ ~e.isdir /\ e.name = name
  BY DEF EventSet, Numbers
<1> HIDE DEF e
<1>4. queue' = Append(queue, e)
  BY <1>2 DEF e
<1>5. Len(queue') = Len(queue) + 1 /\ queue'[Len(queue')] = e
  BY <1>1, <1>3, <1>4
<1> QED
  BY <1>2, <1>3, <1>5

-----------------------------------------------------------------------------
(* The invariant holds at first, and every step keeps it.                  *)

LEMMA WatchInit == NInit => WatchInv
<1> SUFFICES ASSUME NInit
             PROVE  WatchInv
  OBVIOUS
<1>1. /\ MAX_DIRS \in Nat \ {0} /\ MaxDepth \in Nat \ {0}
      /\ MAX_KEEPDIR \in Nat \ {0}
  BY NotifyAssumption
<1>2. /\ exists \in {{<<>>}, {<<>>, <<1>>}} /\ here \in exists
      /\ \A d \in exists : d = <<>> \/ d = <<1>>
  BY Zenon DEF NInit, topdir
<1>3. Tree
  <2>1. /\ <<>> \in Seq(Nat \ {0}) /\ Len(<<>>) = 0
        /\ <<1>> \in Seq(Nat \ {0}) /\ Len(<<1>>) = 1
    OBVIOUS
  <2>2. exists \subseteq Seq(Nat \ {0}) /\ \A d \in exists : Len(d) <= MaxDepth
    <3> SUFFICES ASSUME NEW d \in exists
                 PROVE  d \in Seq(Nat \ {0}) /\ Len(d) <= MaxDepth
      OBVIOUS
    <3>1. d = <<>> \/ d = <<1>>
      BY <1>2
    <3>2. 0 <= MaxDepth /\ 1 <= MaxDepth
      BY <1>1
    <3>3. CASE d = <<>>
      BY <2>1, <3>2, <3>3, Zenon
    <3>4. CASE d = <<1>>
      BY <2>1, <3>2, <3>4, Zenon
    <3> QED
      BY <3>1, <3>3, <3>4
  <2>3. IsFiniteSet(exists)
    <3>1. IsFiniteSet({<<>>}) /\ IsFiniteSet({<<>>, <<1>>})
      <4>1. IsFiniteSet({<<>>} \cup {<<1>>})
        BY FS_Singleton, FS_Union
      <4>2. {<<>>} \cup {<<1>>} = {<<>>, <<1>>}
        OBVIOUS
      <4> QED
        BY <4>1, <4>2, FS_Singleton
    <3> QED
      BY <3>1, <1>2
  <2> QED
    BY <1>2, <2>2, <2>3 DEF Tree, NInit
<1>4. Numbers
  <2>1. NoDir \in Path
    BY DEF NoDir, Path
  <2> QED
    BY <1>1, <2>1 DEF NInit, Numbers
<1>5. dirent \in Seq(Path) /\ Len(dirent) \in 1..2 /\ dirent # <<>>
  <2>1. topdir \in Path /\ here \in Path
    <3>1. here = <<>> \/ here = <<1>>
      BY <1>2
    <3>2. <<>> \in Seq(Nat) /\ <<1>> \in Seq(Nat)
      OBVIOUS
    <3> QED
      BY <3>1, <3>2 DEF topdir, Path
  <2>2. ASSUME NEW c \in Path, NEW d \in Path
        PROVE  /\ <<c>> \in Seq(Path) /\ Len(<<c>>) = 1 /\ <<c>> # <<>>
               /\ <<c, d>> \in Seq(Path) /\ Len(<<c, d>>) = 2
               /\ <<c, d>> # <<>>
    OBVIOUS
  <2>3. dirent = <<topdir>> \/ dirent = <<topdir, here>>
    BY DEF NInit
  <2>4. 1 \in 1..2 /\ 2 \in 1..2
    OBVIOUS
  <2>5. CASE dirent = <<topdir>>
    BY <2>1, <2>2, <2>4, <2>5, Zenon
  <2>6. CASE dirent = <<topdir, here>>
    BY <2>1, <2>2, <2>4, <2>6, Zenon
  <2> QED
    BY <2>3, <2>5, <2>6
<1>6. Places
  BY <1>1, <1>5 DEF NInit, Places, NoDir, Path
<1>7. InTime
  BY <1>1, <1>5 DEF NInit, InTime
<1>8. NamesWatched
  BY DEF NInit, NamesWatched
<1> QED
  BY <1>3, <1>4, <1>6, <1>7, <1>8 DEF WatchInv

\* Steps that leave the directories and files alone.
LEMMA TreeSame ==
  ASSUME Tree, UNCHANGED wvars, owed' \subseteq owed
  PROVE  Tree'
  BY DEF Tree, wvars

\* Events stay known while numbers are only added.
LEMMA EventsKept ==
  ASSUME Numbers, nextwd' \in Int, nextwd <= nextwd'
  PROVE  Seq(EventSet) \subseteq Seq(EventSet')
<1>1. EventSet \subseteq EventSet'
  BY DEF EventSet, Numbers
<1> QED
  BY <1>1

LEMMA MkdirStep == WatchInv /\ mkdir => WatchInv'
<1> SUFFICES ASSUME WatchInv, mkdir
             PROVE  WatchInv'
  OBVIOUS
<1>1. PICK n \in 0..Len(here) :
        LET p == SubSeq(here, 1, n)
            new == Cardinality(Children(p)) + 1
        IN  /\ n < MaxDepth /\ here' = Append(p, new)
            /\ exists' = exists \union {here'} /\ Post(p, TRUE, new)
  BY DEF mkdir
<1> DEFINE p == SubSeq(here, 1, n)
           new == Cardinality(Children(p)) + 1
<1>2. here \in Seq(Nat \ {0}) /\ Len(here) \in Nat
  BY DEF WatchInv, Tree
<1>3. p \in Seq(Nat \ {0}) /\ Len(p) = n
  BY <1>2
<1>4. new \in Nat \ {0}
  <2>1. IsFiniteSet(exists) /\ Children(p) \subseteq exists
    BY DEF WatchInv, Tree, Children
  <2>2. Cardinality(Children(p)) \in Nat
    BY <2>1, FS_Subset, FS_CardinalityType
  <2> QED
    BY <2>2
<1>5. here' = Append(p, new) /\ exists' = exists \union {here'}
  BY <1>1
<1> HIDE DEF p, new
<1>6. here' \in Seq(Nat \ {0}) /\ Len(here') = n + 1 /\ n + 1 <= MaxDepth
  <2>1. PICK q \in Seq(Nat \ {0}) : q = p /\ Len(q) = n
    BY <1>3
  <2>2. Append(q, new) \in Seq(Nat \ {0}) /\ Len(Append(q, new)) = n + 1
    BY <2>1, <1>4
  <2>3. n + 1 <= MaxDepth
    BY <1>1, <1>2, NotifyAssumption
  <2> QED
    BY <2>1, <2>2, <2>3, <1>5
<1>7. Tree'
  <2>1. IsFiniteSet(exists')
    BY <1>5, FS_AddElement DEF WatchInv, Tree
  <2> QED
    BY <1>5, <1>6, <2>1 DEF WatchInv, Tree, mkdir
<1>8. Post(p, TRUE, new)
  BY <1>1 DEF p, new
<1>9. queue' \in Seq(EventSet)
  BY <1>4, <1>8, PostFacts DEF WatchInv
<1>10. Numbers'
  BY <1>9 DEF WatchInv, Numbers, mkdir, rmvars, EventSet
<1>11. Places' /\ InTime' /\ NamesWatched'
  BY DEF WatchInv, Places, InTime, NamesWatched, getwdir, mkdir
<1> QED
  BY <1>7, <1>10, <1>11 DEF WatchInv

LEMMA CloseStep == WatchInv /\ close_file => WatchInv'
<1> SUFFICES ASSUME WatchInv, close_file
             PROVE  WatchInv'
  OBVIOUS
<1>1. PICK d \in exists, n \in Names :
        LET f == [dir |-> d, name |-> n]
        IN  /\ files' = files \union {f}
            /\ owed' = IF Watched(d) THEN owed \union {f} ELSE owed
            /\ Post(d, FALSE, n)
  BY DEF close_file
<1>2. Tree'
  BY <1>1 DEF WatchInv, Tree, close_file
<1>3. queue' \in Seq(EventSet)
  BY <1>1, PostFacts DEF WatchInv
<1>4. Numbers'
  BY <1>3 DEF WatchInv, Numbers, close_file, rmvars, EventSet
<1>5. Places' /\ InTime' /\ NamesWatched'
  BY DEF WatchInv, Places, InTime, NamesWatched, getwdir, close_file
<1> QED
  BY <1>2, <1>4, <1>5 DEF WatchInv

\* An event is handled and nothing else: the next one is, or mynotify waits.
LEMMA HandledStep ==
  ASSUME WatchInv, npc = "event",
         evtbuf' = Tail(evtbuf), npc' = AfterEvent(evtbuf'),
         UNCHANGED <<wvars, ivars, avpath, dirent, curdir, wdirs, rmvars>>,
         owed' \subseteq owed
  PROVE  WatchInv'
<1>1. evtbuf \in Seq(EventSet) /\ evtbuf # <<>>
  BY DEF WatchInv, Numbers, Places
<1>2. evtbuf' \in Seq(EventSet)
  BY <1>1
<1>3. Tree'
  BY TreeSame DEF WatchInv
<1>4. Numbers'
  BY <1>2 DEF WatchInv, Numbers, ivars, rmvars, EventSet
<1>5. Places' /\ InTime' /\ NamesWatched'
  BY DEF WatchInv, Places, InTime, NamesWatched, getwdir, AfterEvent, ivars
<1> QED
  BY <1>3, <1>4, <1>5 DEF WatchInv

LEMMA StartStep == WatchInv /\ start => WatchInv'
<1> SUFFICES ASSUME WatchInv, start
             PROVE  WatchInv'
  OBVIOUS
<1>1. /\ npc = "start" /\ dirent \in Seq(Path) /\ dirent # <<>>
      /\ evtbuf = <<>> /\ nextwd + Len(dirent) <= MaxDepth + 2
      /\ nextwd \in Nat /\ MaxDepth \in Nat /\ MAX_DIRS \in Nat
      /\ MaxDepth + 2 <= MAX_DIRS
  BY NotifyAssumption DEF start, WatchInv, Places, InTime, Numbers
<1>2. PICK m \in Nat \ {0} : m = Len(dirent)
  BY <1>1
<1>3. nextwd < MAX_DIRS
  BY <1>1, <1>2
<1>4. /\ Head(dirent) \in Path /\ Tail(dirent) \in Seq(Path)
      /\ Len(Tail(dirent)) = m - 1
  BY <1>1, <1>2
<1>5. add_watch(Head(dirent)) /\ nextwd <= MAX_DIRS
  BY <1>3, <1>1 DEF start
<1>6. /\ nextwd' \in {nextwd, nextwd + 1} /\ nextwd' \in 1..(MAX_DIRS + 1)
      /\ curdir' \in 1..(nextwd' - 1)
      /\ nextwd' = MAX_DIRS + 1 => curdir' = MAX_DIRS
      /\ DOMAIN watches' \subseteq 1..(nextwd' - 1)
      /\ wdirs' \in [0..(MAX_DIRS - 1) -> Path]
      /\ NamesWatched'
  BY <1>4, <1>5, AddFacts DEF WatchInv
<1>7. Tree'
  BY TreeSame DEF WatchInv, start
<1>8. Numbers'
  <2>1. Seq(EventSet) \subseteq Seq(EventSet')
    BY <1>1, <1>6, EventsKept DEF WatchInv
  <2>2. queue \in Seq(EventSet) /\ evtbuf \in Seq(EventSet)
    BY DEF WatchInv, Numbers
  <2>3. queue' = queue /\ evtbuf' = evtbuf
    BY DEF start
  <2>4. queue' \in Seq(EventSet') /\ evtbuf' \in Seq(EventSet')
    BY <2>1, <2>2, <2>3
  <2>5. curdir' \in 0..MAX_DIRS
    <3>1. PICK k \in 1..(MAX_DIRS + 1) : k = nextwd'
      BY <1>6
    <3>2. curdir' \in 1..(k - 1)
      BY <1>6, <3>1
    <3> QED
      BY <1>1, <3>2
  <2>6. /\ curqrmd' \in 0..(MAX_KEEPDIR - 1)
        /\ qrmdir' \in [0..(MAX_KEEPDIR - 1) -> 0..MAX_DIRS]
    BY DEF WatchInv, Numbers, start, rmvars
  <2> QED
    BY <1>6, <2>4, <2>5, <2>6 DEF Numbers
<1>9. Places'
  BY <1>1, <1>4 DEF WatchInv, Places, start
<1>10. InTime'
  <2>1. dirent' = Tail(dirent) /\ npc' = (IF dirent' = <<>> THEN "select"
                                          ELSE "start")
    BY DEF start
  <2>2. nextwd' + Len(dirent') <= MaxDepth + 2
    BY <1>1, <1>2, <1>4, <1>6, <2>1
  <2> QED
    BY <1>6, <2>1, <2>2 DEF InTime
<1> QED
  BY <1>6, <1>7, <1>8, <1>9, <1>10 DEF WatchInv

LEMMA WatchDirectoryStep == WatchInv /\ watch_directory => WatchInv'
<1> SUFFICES ASSUME WatchInv, watch_directory
             PROVE  WatchInv'
  OBVIOUS
<1>1. /\ npc = "adding" /\ dirent \in Seq(Path) /\ dirent # <<>>
      /\ curdir \in 0..MAX_DIRS /\ ~(curdir > MAX_DIRS - 1)
      /\ nextwd \in 1..(MAX_DIRS + 1) /\ MAX_DIRS \in Nat
  BY NotifyAssumption
  DEF watch_directory, IS_EXHAUST, WatchInv, Places, Numbers
<1>2. nextwd <= MAX_DIRS
  <2>1. nextwd # MAX_DIRS + 1
    BY <1>1 DEF WatchInv, InTime
  <2> QED
    BY <1>1, <2>1
<1>3. Head(dirent) \in Path /\ Tail(dirent) \in Seq(Path)
  BY <1>1
<1>4. add_watch(Head(dirent))
  BY DEF watch_directory
<1>5. /\ nextwd' \in {nextwd, nextwd + 1} /\ nextwd' \in 1..(MAX_DIRS + 1)
      /\ curdir' \in 1..(nextwd' - 1)
      /\ nextwd' = MAX_DIRS + 1 => curdir' = MAX_DIRS
      /\ DOMAIN watches' \subseteq 1..(nextwd' - 1)
      /\ wdirs' \in [0..(MAX_DIRS - 1) -> Path]
      /\ NamesWatched'
  BY <1>2, <1>3, <1>4, AddFacts DEF WatchInv
<1>6. Tree'
  BY TreeSame DEF WatchInv, watch_directory
<1>7. Numbers'
  <2>1. Seq(EventSet) \subseteq Seq(EventSet')
    BY <1>1, <1>5, EventsKept DEF WatchInv
  <2>2. queue \in Seq(EventSet) /\ evtbuf \in Seq(EventSet)
    BY DEF WatchInv, Numbers
  <2>3. queue' = queue /\ evtbuf' = evtbuf
    BY DEF watch_directory
  <2>4. queue' \in Seq(EventSet') /\ evtbuf' \in Seq(EventSet')
    BY <2>1, <2>2, <2>3
  <2>5. curdir' \in 0..MAX_DIRS
    <3>1. PICK w \in 1..(MAX_DIRS + 1) : w = nextwd'
      BY <1>5
    <3>2. curdir' \in 1..(w - 1)
      BY <1>5, <3>1
    <3>3. MAX_DIRS \in Nat
      BY <1>1
    <3> QED
      BY <3>2, <3>3
  <2>6. /\ curqrmd' \in 0..(MAX_KEEPDIR - 1)
        /\ qrmdir' \in [0..(MAX_KEEPDIR - 1) -> 0..MAX_DIRS]
    BY DEF WatchInv, Numbers, watch_directory, rmvars
  <2> QED
    BY <1>5, <2>4, <2>5, <2>6 DEF Numbers
<1>8. Places'
  BY <1>1, <1>3 DEF WatchInv, Places, watch_directory, AfterEvent
<1>9. InTime'
  BY <1>5 DEF InTime, watch_directory, AfterEvent
<1> QED
  BY <1>5, <1>6, <1>7, <1>8, <1>9 DEF WatchInv

LEMMA NewDirectoryStep == WatchInv /\ new_directory => WatchInv'
<1> SUFFICES ASSUME WatchInv, new_directory
             PROVE  WatchInv'
  OBVIOUS
<1>1. evtbuf \in Seq(EventSet) /\ evtbuf # <<>> /\ npc = "event"
  BY DEF WatchInv, Numbers, Places, new_directory
<1>2. avpath' \in exists /\ evtbuf' = Tail(evtbuf)
  BY DEF new_directory
<1>3. avpath' \in Path /\ Len(avpath') <= MaxDepth
  <2>1. Seq(Nat \ {0}) \subseteq Path
    BY DEF Path
  <2> QED
    BY <1>2, <2>1 DEF WatchInv, Tree
<1>4. /\ curqrmd' \in 0..(MAX_KEEPDIR - 1)
      /\ qrmdir' \in [0..(MAX_KEEPDIR - 1) -> 0..MAX_DIRS]
      /\ DOMAIN watches' \subseteq DOMAIN watches
      /\ \A w \in DOMAIN watches' : watches'[w] = watches[w]
  <2>1. CASE rm_watch(curdir)
    BY <2>1, RemoveFacts DEF WatchInv, Numbers
  <2>2. CASE UNCHANGED <<watches, rmvars>>
    BY <2>2 DEF WatchInv, Numbers, rmvars
  <2> QED
    BY <2>1, <2>2 DEF new_directory
<1>5. Tree'
  BY TreeSame DEF WatchInv, new_directory
<1>6. Numbers'
  BY <1>1, <1>2, <1>4 DEF WatchInv, Numbers, new_directory, EventSet
<1>7. /\ dirent' \in Seq(Path) /\ npc' \in {"adding", "astray"}
      /\ npc' = "adding" <=> dirent' # <<>>
  <2>1. CASE Astray(avpath')
    BY <1>1, <2>1 DEF new_directory, WatchInv, Places
  <2>2. CASE ~Astray(avpath')
    <3>1. npc' = "adding" /\ dirent' \in dirs_check(avpath')
      BY <2>2 DEF new_directory
    <3>2. CASE ~sdirflag
      <4>1. dirent' = <<avpath'>>
        BY <3>1, <3>2, Zenon DEF dirs_check
      <4> QED
        BY <1>3, <3>1, <4>1
    <3>3. CASE sdirflag
      <4> DEFINE B == Below(avpath')
      <4>1. B \subseteq exists /\ avpath' \in B
        <5>1. avpath' \in Seq(Nat)
          BY <1>3 DEF Path
        <5> QED
          BY <1>2, <5>1 DEF Below, IsPrefix
      <4>2. B \subseteq Path
        <5>1. Seq(Nat \ {0}) \subseteq Path
          BY DEF Path
        <5> QED
          BY <4>1, <5>1 DEF WatchInv, Tree
      <4>3. IsFiniteSet(B)
        BY <4>1, FS_Subset DEF WatchInv, Tree
      <4>4. dirent' \in SetToSeqs(B)
        BY <3>1, <3>3 DEF dirs_check
      <4> HIDE DEF B
      <4>5. PICK k \in Nat : k = Cardinality(B)
        BY <4>3, FS_CardinalityType
      <4>6. k # 0
        BY <4>1, <4>3, <4>5, FS_EmptySet
      <4>7. dirent' \in [1..k -> B]
        BY <4>4, <4>5 DEF SetToSeqs
      <4>8. dirent' \in Seq(B) /\ Len(dirent') = k
        BY <4>7
      <4>9. dirent' \in Seq(Path)
        BY <4>2, <4>8
      <4> QED
        BY <3>1, <4>6, <4>8, <4>9
    <3> QED
      BY <3>2, <3>3
  <2> QED
    BY <2>1, <2>2
<1>8. Places'
  BY <1>3, <1>7 DEF Places
<1>9. InTime'
  BY <1>1, <1>7 DEF WatchInv, InTime, new_directory
<1>10. NamesWatched'
  BY <1>4 DEF WatchInv, NamesWatched, getwdir, new_directory
<1> QED
  BY <1>5, <1>6, <1>8, <1>9, <1>10 DEF WatchInv

LEMMA ResettingStep == WatchInv /\ resetting => WatchInv'
<1> SUFFICES ASSUME WatchInv, resetting
             PROVE  WatchInv'
  OBVIOUS
<1>1. /\ avpath \in Path /\ MAX_DIRS \in Nat /\ MAX_KEEPDIR \in Nat \ {0}
  BY NotifyAssumption DEF WatchInv, Places
<1>2. PICK m \in Nat : m = Len(avpath) /\ m <= MaxDepth
  BY <1>1 DEF WatchInv, Places, Path
<1>3. dirent' = [i \in 1..(m + 1) |-> SubSeq(avpath, 1, i - 1)]
  BY <1>2 DEF resetting
<1>4. \A i \in 1..(m + 1) : SubSeq(avpath, 1, i - 1) \in Path
  BY <1>1, <1>2 DEF Path
<1>5. dirent' \in Seq(Path) /\ Len(dirent') = m + 1
  BY <1>3, <1>4
<1>6. Tree'
  BY DEF WatchInv, Tree, resetting, wvars
<1>7. Numbers'
  BY <1>1 DEF WatchInv, Numbers, resetting
<1>8. Places'
  <2>1. npc' = "start" /\ avpath' = avpath /\ evtbuf' = <<>>
    BY DEF resetting
  <2>2. avpath \in Path /\ Len(avpath) <= MaxDepth
    BY DEF WatchInv, Places
  <2>3. dirent' # <<>>
    BY <1>2, <1>5
  <2> QED
    BY <1>5, <2>1, <2>2, <2>3 DEF Places
<1>9. InTime'
  BY <1>2, <1>5, NotifyAssumption DEF InTime, resetting
<1>10. NamesWatched'
  BY DEF NamesWatched, resetting
<1> QED
  BY <1>6, <1>7, <1>8, <1>9, <1>10 DEF WatchInv

LEMMA WatchStep == WatchInv /\ [NNext]_nvars => WatchInv'
<1> SUFFICES ASSUME WatchInv, [NNext]_nvars
             PROVE  WatchInv'
  OBVIOUS
<1>1. CASE UNCHANGED nvars
  BY <1>1 DEF nvars, wvars, ivars, rmvars, WatchInv, Tree, Numbers, EventSet,
              Places, InTime, NamesWatched, getwdir
<1>2. CASE remove_file
  <2>1. Tree'
    BY <1>2 DEF remove_file, WatchInv, Tree
  <2> QED
    BY <1>2, <2>1 DEF remove_file, WatchInv, Numbers, Places, InTime, EventSet,
                      NamesWatched, getwdir, ivars, rmvars
<1>3. CASE read_events
  <2>1. Tree'
    BY <1>3, TreeSame DEF read_events, WatchInv
  <2>2. Numbers'
    BY <1>3 DEF read_events, WatchInv, Numbers, EventSet, rmvars
  <2> QED
    BY <1>3, <2>1, <2>2 DEF read_events, WatchInv, Places, InTime,
                            NamesWatched, getwdir
<1>4. CASE disappeared
  BY <1>4, HandledStep DEF disappeared
<1>5. CASE same_file
  BY <1>5, HandledStep DEF same_file
<1>6. CASE announce
  BY <1>6, HandledStep DEF announce
<1> QED
  BY <1>1, <1>2, <1>3, <1>4, <1>5, <1>6, MkdirStep, CloseStep, StartStep,
     NewDirectoryStep, WatchDirectoryStep, ResettingStep
  DEF NNext, Writer, Notifier

LEMMA WatchInvariant == NSpec => []WatchInv
  BY WatchInit, WatchStep, PTL DEF NSpec

-----------------------------------------------------------------------------
(* The theorems.                                                           *)

\* The types, for wdirs and qrmdir of any length: no number of a watch is ever
\* beyond wdirs, whatever is made or closed and at whatever moment, although
\* mynotify only tests the current one before it adds a directory
\* (inotifylib2.c, IS_EXHAUST).
THEOREM NotifyTypeCorrect == NSpec => []NTypeOK
<1>1. WatchInv => NTypeOK
  <2> SUFFICES ASSUME WatchInv
               PROVE  NTypeOK
    OBVIOUS
  <2>1. MAX_DIRS \in Nat /\ nextwd \in 1..(MAX_DIRS + 1)
    BY NotifyAssumption DEF WatchInv, Numbers
  <2>2. DOMAIN watches \subseteq 1..MAX_DIRS
    BY <2>1 DEF WatchInv, Numbers
  <2> QED
    BY <2>1, <2>2 DEF WatchInv, Tree, Numbers, Places, NTypeOK
<1> QED
  BY <1>1, WatchInvariant, PTL

\* The name mynotify finds in wdirs for the watch of an event is that of the
\* directory the watch is on, across removals that were put off and across
\* new instances.
THEOREM WatchesNamed == NSpec => []NamesWatched
  BY WatchInvariant, PTL DEF WatchInv

\* The file that an event not handled yet is for.
For(e, f) == ~e.isdir /\ getwdir(e.wd) = f.dir /\ e.name = f.name

\* A file still owed has its event, in what was read or in the queue, and is
\* not the one that was announced last.
OwedHasEvent ==
  \A f \in owed :
    \/ \E j \in 1..Len(evtbuf) : For(evtbuf[j], f)
    \/ \E j \in 1..Len(queue) : For(queue[j], f)

NotJustAnnounced == prevpath \notin owed

EventInv == WatchInv /\ OwedHasEvent /\ NotJustAnnounced

\* A file that keeps its event, and the name of its watch, keeps this.
LEMMA EventKept ==
  ASSUME Numbers, OwedHasEvent, NEW f \in owed,
         evtbuf' = evtbuf, queue' \in Seq(EventSet'),
         Len(queue) <= Len(queue'),
         \A j \in 1..Len(queue) : queue'[j] = queue[j],
         \A w \in 1..(nextwd - 1) :
           wdirs'[w % MAX_DIRS] = wdirs[w % MAX_DIRS]
  PROVE  \/ \E j \in 1..Len(evtbuf') : For(evtbuf[j], f)'
         \/ \E j \in 1..Len(queue') : For(queue[j], f)'
<1>1. queue \in Seq(EventSet) /\ evtbuf \in Seq(EventSet)
  BY DEF Numbers
<1>2. CASE \E j \in 1..Len(evtbuf) : For(evtbuf[j], f)
  <2>1. PICK j \in 1..Len(evtbuf) : For(evtbuf[j], f)
    BY <1>2
  <2>2. evtbuf[j].wd \in 1..(nextwd - 1)
    <3>1. evtbuf[j] \in EventSet
      BY <1>1
    <3> QED
      BY <3>1 DEF EventSet
  <2> QED
    BY <2>1, <2>2 DEF For, getwdir
<1>3. CASE \E j \in 1..Len(queue) : For(queue[j], f)
  <2>1. PICK j \in 1..Len(queue) : For(queue[j], f)
    BY <1>3
  <2>2. queue[j].wd \in 1..(nextwd - 1)
    <3>1. queue[j] \in EventSet
      BY <1>1
    <3> QED
      BY <3>1 DEF EventSet
  <2>3. j \in 1..Len(queue') /\ queue'[j] = queue[j]
    BY <1>1
  <2> QED
    BY <2>1, <2>2, <2>3 DEF For, getwdir
<1> QED
  BY <1>2, <1>3 DEF OwedHasEvent

\* The event handled is removed: the files that are not its file keep theirs.
LEMMA EventTaken ==
  ASSUME Numbers, OwedHasEvent, evtbuf # <<>>, NEW f \in owed, ~For(Event, f),
         evtbuf' = Tail(evtbuf), queue' = queue, wdirs' = wdirs
  PROVE  \/ \E j \in 1..Len(evtbuf') : For(evtbuf[j], f)'
         \/ \E j \in 1..Len(queue') : For(queue[j], f)'
<1>1. evtbuf \in Seq(EventSet)
  BY DEF Numbers
<1>2. PICK n \in Nat \ {0} : n = Len(evtbuf)
  BY <1>1
<1>3. CASE \E j \in 1..Len(evtbuf) : For(evtbuf[j], f)
  <2>1. PICK j \in 1..n : For(evtbuf[j], f)
    BY <1>2, <1>3
  <2>2. j # 1
    BY <1>1, <2>1 DEF Event
  <2>3. j - 1 \in 1..Len(evtbuf') /\ evtbuf'[j - 1] = evtbuf[j]
    BY <1>1, <1>2, <2>1, <2>2
  <2>4. For(evtbuf[j - 1], f)'
    BY <2>1, <2>3 DEF For, getwdir
  <2> QED
    BY <2>3, <2>4
<1>4. CASE \E j \in 1..Len(queue) : For(queue[j], f)
  BY <1>4 DEF For, getwdir
<1> QED
  BY <1>3, <1>4 DEF OwedHasEvent

LEMMA EventStep ==
  ~Rewrites => (EventInv /\ [NNext]_nvars => EventInv')
<1> SUFFICES ASSUME ~Rewrites, EventInv, [NNext]_nvars
             PROVE  EventInv'
  OBVIOUS
<1>1. WatchInv /\ WatchInv' /\ OwedHasEvent /\ NotJustAnnounced
  BY WatchStep DEF EventInv
<1>2. /\ Numbers /\ queue' \in Seq(EventSet')
      /\ queue \in Seq(EventSet) /\ evtbuf \in Seq(EventSet)
      /\ MAX_DIRS \in Nat
  BY <1>1, NotifyAssumption DEF WatchInv, Numbers
<1> SUFFICES OwedHasEvent' /\ NotJustAnnounced'
  BY <1>1 DEF EventInv
<1>3. ASSUME owed' \subseteq owed, evtbuf' = evtbuf, queue' = queue,
             \A w \in 1..(nextwd - 1) :
               wdirs'[w % MAX_DIRS] = wdirs[w % MAX_DIRS]
      PROVE  OwedHasEvent'
  <2>1. \A f \in owed : \/ \E j \in 1..Len(evtbuf') : For(evtbuf[j], f)'
                        \/ \E j \in 1..Len(queue') : For(queue[j], f)'
    BY <1>1, <1>2, <1>3, EventKept
  <2> QED
    BY <1>3, <2>1 DEF OwedHasEvent
<1>4. CASE UNCHANGED nvars
  BY <1>1, <1>4, <1>3 DEF nvars, wvars, ivars, rmvars, NotJustAnnounced
<1>5. CASE mkdir
  <2>1. PICK k \in 0..Len(here), name \in Nat :
          Post(SubSeq(here, 1, k), TRUE, name)
    <3>1. PICK n \in 0..Len(here) :
            Post(SubSeq(here, 1, n), TRUE,
                 Cardinality(Children(SubSeq(here, 1, n))) + 1)
      BY <1>5 DEF mkdir
    <3>2. IsFiniteSet(Children(SubSeq(here, 1, n)))
      <4>1. Children(SubSeq(here, 1, n)) \subseteq exists
        BY DEF Children
      <4> QED
        BY <1>1, <4>1, FS_Subset DEF WatchInv, Tree
    <3>3. Cardinality(Children(SubSeq(here, 1, n))) + 1 \in Nat
      BY <3>2, FS_CardinalityType
    <3> QED
      BY <3>1, <3>3
  <2>2. /\ Len(queue) <= Len(queue')
        /\ \A j \in 1..Len(queue) : queue'[j] = queue[j]
    BY <1>2, <2>1, PostFacts
  <2>3. owed' = owed /\ evtbuf' = evtbuf /\ wdirs' = wdirs
    BY <1>5 DEF mkdir
  <2>4. \A f \in owed : \/ \E j \in 1..Len(evtbuf') : For(evtbuf[j], f)'
                        \/ \E j \in 1..Len(queue') : For(queue[j], f)'
    BY <1>1, <1>2, <2>2, <2>3, EventKept
  <2> QED
    BY <1>1, <1>5, <2>3, <2>4 DEF OwedHasEvent, NotJustAnnounced, mkdir
<1>6. CASE close_file
  <2>1. PICK d \in exists, n \in Names :
          LET f == [dir |-> d, name |-> n]
          IN  /\ f \in owed \/ f # prevpath
              /\ owed' = IF Watched(d) THEN owed \union {f} ELSE owed
              /\ Post(d, FALSE, n)
    BY <1>6 DEF close_file
  <2>6. Post(d, FALSE, n) /\ FALSE \in BOOLEAN /\ n \in Names \cup Nat
    BY <2>1
  <2>2. /\ Len(queue) <= Len(queue')
        /\ \A j \in 1..Len(queue) : queue'[j] = queue[j]
    BY <1>2, <2>6, PostFacts
  <2>3. evtbuf' = evtbuf /\ wdirs' = wdirs /\ prevpath' = prevpath
    BY <1>6 DEF close_file
  <2>4. \A f \in owed : \/ \E j \in 1..Len(evtbuf') : For(evtbuf[j], f)'
                        \/ \E j \in 1..Len(queue') : For(queue[j], f)'
    BY <1>1, <1>2, <2>2, <2>3, EventKept
  <2>5. ASSUME Watched(d)
        PROVE  \E j \in 1..Len(queue') :
                 For(queue[j], [dir |-> d, name |-> n])'
    <3>1. PICK w \in DOMAIN watches :
            /\ watches[w] = d /\ Len(queue') = Len(queue) + 1
            /\ queue'[Len(queue')].wd = w /\ ~queue'[Len(queue')].isdir
            /\ queue'[Len(queue')].name = n
      BY <1>2, <2>5, <2>6, FilePosted
    <3>2. getwdir(w) = d
      BY <1>1, <3>1 DEF WatchInv, NamesWatched
    <3>3. Len(queue') \in 1..Len(queue')
      BY <1>2, <3>1
    <3> QED
      BY <2>3, <3>1, <3>2, <3>3 DEF For, getwdir
  <2> QED
    BY <1>1, <2>1, <2>3, <2>4, <2>5 DEF OwedHasEvent, NotJustAnnounced
<1>7. CASE remove_file
  BY <1>1, <1>7, <1>3 DEF remove_file, ivars, NotJustAnnounced
<1>8. CASE start \/ watch_directory
  <2>1. PICK d \in Path : add_watch(d)
    <3>1. dirent \in Seq(Path) /\ dirent # <<>>
      BY <1>1, <1>8 DEF WatchInv, Places, start, watch_directory
    <3> QED
      BY <1>8, <3>1 DEF start, watch_directory
  <2>2. nextwd <= MAX_DIRS
    <3>1. nextwd \in 1..(MAX_DIRS + 1) /\ curdir \in 0..MAX_DIRS
      BY <1>1 DEF WatchInv, Numbers
    <3>2. CASE start
      <4>1. PICK m \in Nat \ {0} : m = Len(dirent)
        BY <1>1, <3>2 DEF WatchInv, Places, start
      <4> QED
        BY <1>1, <3>1, <3>2, <4>1, NotifyAssumption
        DEF WatchInv, InTime, start
    <3>3. CASE watch_directory
      <4>1. ~(curdir > MAX_DIRS - 1) /\ npc = "adding"
        BY <3>3 DEF watch_directory, IS_EXHAUST
      <4> QED
        BY <1>1, <1>2, <3>1, <4>1 DEF WatchInv, InTime
    <3> QED
      BY <1>8, <3>2, <3>3
  <2>3. \A w \in 1..(nextwd - 1) :
          wdirs'[w % MAX_DIRS] = wdirs[w % MAX_DIRS]
    <3> SUFFICES ASSUME NEW w \in 1..(nextwd - 1)
                 PROVE  wdirs'[w % MAX_DIRS] = wdirs[w % MAX_DIRS]
      OBVIOUS
    <3>1. /\ w # curdir' \/ w \in DOMAIN watches
               => wdirs'[w % MAX_DIRS] = wdirs[w % MAX_DIRS]
      BY <1>1, <1>2, <2>1, <2>2, AddFacts DEF WatchInv
    <3>2. w = curdir' => w \in DOMAIN watches
      <4> DEFINE wd == CHOOSE v \in DOMAIN watches : watches[v] = d
      <4>1. Watched(d) => wd \in DOMAIN watches
        BY WatchedFacts
      <4>2. curdir' = IF Watched(d) THEN wd ELSE nextwd
        BY <2>1 DEF add_watch
      <4> HIDE DEF wd
      <4> QED
        BY <1>2, <4>1, <4>2 DEF Numbers
    <3> QED
      BY <3>1, <3>2
  <2> QED
    BY <1>1, <1>3, <1>8, <2>3 DEF start, watch_directory, NotJustAnnounced
<1>9. CASE read_events
  <2>1. evtbuf = <<>> /\ evtbuf' = queue /\ wdirs' = wdirs
    BY <1>1, <1>9 DEF read_events, WatchInv, Places
  <2>2. Len(evtbuf) = 0
    BY <2>1
  <2>3. \A f \in owed : \E j \in 1..Len(queue) : For(queue[j], f)
    BY <1>1, <2>2 DEF OwedHasEvent
  <2> QED
    BY <1>1, <1>9, <2>1, <2>3
    DEF read_events, OwedHasEvent, NotJustAnnounced, For, getwdir
<1>10. CASE resetting
  BY <1>10 DEF resetting, OwedHasEvent, NotJustAnnounced
<1>11. CASE disappeared \/ new_directory \/ same_file \/ announce
  <2>1. /\ evtbuf # <<>> /\ evtbuf' = Tail(evtbuf) /\ queue' = queue
        /\ wdirs' = wdirs /\ owed' \subseteq owed
    BY <1>1, <1>11 DEF WatchInv, Places, disappeared, new_directory,
                       same_file, announce, ivars
  <2>2. ASSUME NEW f \in owed'
        PROVE  f \in owed /\ ~For(Event, f)
    <3>1. f \in files /\ f = [dir |-> f.dir, name |-> f.name] /\ f \in owed
      BY <1>1, <2>1, <2>2 DEF WatchInv, Tree
    <3>2. For(Event, f) => f = EventFile /\ ~Event.isdir
      BY <3>1 DEF For, EventFile
    <3>3. prevpath # f
      BY <1>1, <3>1 DEF NotJustAnnounced
    <3> QED
      BY <1>11, <2>2, <3>1, <3>2, <3>3
      DEF disappeared, new_directory, same_file, announce, Same
  <2>3. OwedHasEvent'
    <3> SUFFICES ASSUME NEW f \in owed'
                 PROVE  \/ \E j \in 1..Len(evtbuf') : For(evtbuf[j], f)'
                        \/ \E j \in 1..Len(queue') : For(queue[j], f)'
      BY DEF OwedHasEvent
    <3> QED
      BY <1>1, <1>2, <2>1, <2>2, EventTaken
  <2>4. NoFile \notin owed
    <3>1. Len(NoDir) = 1 /\ NoDir[1] = 0
      BY DEF NoDir
    <3>2. \A s \in Seq(Nat \ {0}) : Len(s) = 1 => s[1] \in Nat \ {0}
      OBVIOUS
    <3>3. NoDir \notin Seq(Nat \ {0})
      BY <3>1, <3>2
    <3> QED
      BY <1>1, <3>3 DEF WatchInv, Tree, NoFile
  <2>5. NotJustAnnounced'
    BY <1>1, <1>11, <2>1, <2>4 DEF NotJustAnnounced, disappeared,
       new_directory, same_file, announce
  <2> QED
    BY <2>3, <2>5
<1> QED
  BY <1>4, <1>5, <1>6, <1>7, <1>8, <1>9, <1>10, <1>11
  DEF NNext, Writer, Notifier

\* If the radar never writes a name again right after its announcement, every
\* file closed in a watched directory is announced before mynotify waits with
\* no event left, however directories, files and watches come between
\* (inotifylib2.c, mynotify).  With Rewrites the test of prevpath takes the
\* second file for the first.
THEOREM AllAnnounced == ~Rewrites => (NSpec => []EachAnnounced)
<1> SUFFICES ASSUME ~Rewrites
             PROVE  NSpec => []EachAnnounced
  OBVIOUS
<1>1. NInit => EventInv
  BY WatchInit DEF EventInv, NInit, OwedHasEvent, NotJustAnnounced
<1>2. EventInv /\ [NNext]_nvars => EventInv'
  BY EventStep
<1>3. EventInv => EachAnnounced
  <2> SUFFICES ASSUME EventInv, npc = "select", queue = <<>>
               PROVE  owed = {}
    BY DEF EachAnnounced
  <2>1. evtbuf = <<>>
    BY DEF EventInv, WatchInv, Places
  <2>2. Len(evtbuf) = 0 /\ Len(queue) = 0
    BY <2>1
  <2> QED
    BY <2>2 DEF EventInv, OwedHasEvent
<1> QED
  BY <1>1, <1>2, <1>3, PTL DEF NSpec

-----------------------------------------------------------------------------
(* The order of the directories.                                           *)

\* c is made before d, on another path.
Earlier(c, d) ==
  \E i \in 1..Len(c) : /\ i <= Len(d) /\ c[i] < d[i]
                       /\ \A j \in 1..(i - 1) : c[j] = d[j]

\* c is made before d.
Precedes(c, d) == Earlier(c, d) \/ (IsPrefix(c, d) /\ Len(c) < Len(d))

LEMMA PrefixIs ==
  ASSUME NEW c \in Path, NEW d \in Path
  PROVE  IsPrefix(c, d) <=> /\ Len(c) <= Len(d)
                            /\ \A i \in 1..Len(c) : c[i] = d[i]
<1>1. PICK m \in Nat : m = Len(c)
  BY DEF Path
<1>2. PICK n \in Nat : n = Len(d)
  BY DEF Path
<1>3. ASSUME m <= n
      PROVE  /\ SubSeq(c, 1, m) = [i \in 1..m |-> c[i]]
             /\ SubSeq(d, 1, m) = [i \in 1..m |-> d[i]]
  BY <1>1, <1>2, <1>3 DEF Path
<1>4. m <= n => (SubSeq(c, 1, m) = SubSeq(d, 1, m)
                   <=> \A i \in 1..m : c[i] = d[i])
  <2> SUFFICES ASSUME m <= n
               PROVE  SubSeq(c, 1, m) = SubSeq(d, 1, m)
                        <=> \A i \in 1..m : c[i] = d[i]
    OBVIOUS
  <2> DEFINE f == [i \in 1..m |-> c[i]]
             g == [i \in 1..m |-> d[i]]
  <2>1. f = g <=> \A i \in 1..m : c[i] = d[i]
    <3>1. (\A i \in 1..m : c[i] = d[i]) => f = g
      OBVIOUS
    <3>2. f = g => \A i \in 1..m : f[i] = g[i]
      OBVIOUS
    <3> QED
      BY <3>1, <3>2
  <2> QED
    BY <1>3, <2>1
<1> QED
  BY <1>1, <1>2, <1>4 DEF IsPrefix

\* The prefixes of a path.
LEMMA PrefixOrder ==
  ASSUME NEW c \in Path, NEW d \in Path
  PROVE  /\ IsPrefix(c, c)
         /\ IsPrefix(c, d) /\ IsPrefix(d, c) => c = d
         /\ IsPrefix(c, d) => Len(c) <= Len(d)
         /\ IsPrefix(c, d) /\ c # d => Len(c) < Len(d)
<1>1. PICK m \in Nat : /\ m = Len(c) /\ DOMAIN c = 1..m
                      /\ c = [i \in 1..m |-> c[i]]
  BY DEF Path
<1>2. PICK n \in Nat : /\ n = Len(d) /\ DOMAIN d = 1..n
                      /\ d = [i \in 1..n |-> d[i]]
  BY DEF Path
<1>3. IsPrefix(c, d) <=> m <= n /\ \A i \in 1..m : c[i] = d[i]
  BY <1>1, <1>2, PrefixIs
<1>4. IsPrefix(d, c) <=> n <= m /\ \A i \in 1..n : d[i] = c[i]
  BY <1>1, <1>2, PrefixIs
<1>5. IsPrefix(c, c)
  BY <1>1, PrefixIs
<1>6. m = n /\ (\A i \in 1..m : c[i] = d[i]) => c = d
  BY <1>1, <1>2
<1>7. IsPrefix(c, d) => m <= n /\ (m = n => c = d)
  BY <1>3, <1>6
<1>8. IsPrefix(d, c) => n <= m
  BY <1>4
<1> QED
  BY <1>1, <1>2, <1>5, <1>7, <1>8

LEMMA PrefixTransitive ==
  ASSUME NEW c \in Path, NEW d \in Path, NEW e \in Path,
         IsPrefix(c, d), IsPrefix(d, e)
  PROVE  IsPrefix(c, e)
<1>1. PICK m \in Nat : m = Len(c)
  BY DEF Path
<1>2. PICK n \in Nat : n = Len(d)
  BY DEF Path
<1>3. PICK k \in Nat : k = Len(e)
  BY DEF Path
<1>4. m <= n /\ \A i \in 1..m : c[i] = d[i]
  BY <1>1, <1>2, PrefixIs
<1>5. n <= k /\ \A i \in 1..n : d[i] = e[i]
  BY <1>2, <1>3, PrefixIs
<1>6. m <= k /\ \A i \in 1..m : c[i] = e[i]
  BY <1>4, <1>5
<1> QED
  BY <1>1, <1>3, <1>6, PrefixIs

\* What is below two paths is on other paths as they are.
LEMMA EarlierBelow ==
  ASSUME NEW c \in Path, NEW d \in Path, NEW a \in Path, NEW b \in Path,
         Earlier(c, d), IsPrefix(c, a), IsPrefix(d, b)
  PROVE  Earlier(a, b)
<1>1. PICK i \in 1..Len(c) : /\ i <= Len(d) /\ c[i] < d[i]
                             /\ \A j \in 1..(i - 1) : c[j] = d[j]
  BY DEF Earlier
<1>2. Len(c) \in Nat /\ Len(d) \in Nat /\ Len(a) \in Nat /\ Len(b) \in Nat
  BY DEF Path
<1>3. Len(c) <= Len(a) /\ \A j \in 1..Len(c) : c[j] = a[j]
  BY PrefixIs
<1>4. Len(d) <= Len(b) /\ \A j \in 1..Len(d) : d[j] = b[j]
  BY PrefixIs
<1>5. i \in 1..Len(a) /\ i <= Len(b) /\ a[i] < b[i]
  BY <1>1, <1>2, <1>3, <1>4
<1>6. ASSUME NEW j \in 1..(i - 1)
      PROVE  a[j] = b[j]
  BY <1>1, <1>2, <1>3, <1>4
<1> QED
  BY <1>5, <1>6 DEF Earlier

\* The order is one.
LEMMA EarlierExcludes ==
  ASSUME NEW c \in Path, NEW d \in Path, Earlier(c, d)
  PROVE  ~IsPrefix(c, d) /\ ~IsPrefix(d, c) /\ ~Earlier(d, c)
<1>1. PICK i \in 1..Len(c) : /\ i <= Len(d) /\ c[i] < d[i]
                             /\ \A j \in 1..(i - 1) : c[j] = d[j]
  BY DEF Earlier
<1>2. /\ Len(c) \in Nat /\ Len(d) \in Nat
      /\ \A j \in 1..Len(c) : c[j] \in Nat
      /\ \A j \in 1..Len(d) : d[j] \in Nat
  BY DEF Path
<1>3. c[i] # d[i]
  BY <1>1, <1>2
<1>4. ~IsPrefix(c, d) /\ ~IsPrefix(d, c)
  BY <1>1, <1>2, <1>3, PrefixIs
<1>5. ASSUME Earlier(d, c)
      PROVE  FALSE
  <2>1. PICK k \in 1..Len(d) : /\ k <= Len(c) /\ d[k] < c[k]
                               /\ \A j \in 1..(k - 1) : d[j] = c[j]
    BY <1>5 DEF Earlier
  <2>2. d[k] # c[k]
    BY <2>1, <1>2
  <2>3. ~(k < i) /\ ~(i < k)
    BY <1>1, <1>2, <1>3, <2>1, <2>2
  <2>4. k = i
    BY <1>1, <1>2, <2>1, <2>3
  <2> QED
    BY <1>1, <1>2, <2>1, <2>4
<1> QED
  BY <1>4, <1>5

\* A directory made later is on no path to an older one.
LEMMA PrecedesExcludes ==
  ASSUME NEW c \in Path, NEW d \in Path, NEW e \in Path,
         Precedes(c, d), IsPrefix(d, e)
  PROVE  ~IsPrefix(e, c)
<1> SUFFICES ASSUME IsPrefix(e, c)
             PROVE  FALSE
  OBVIOUS
<1>1. IsPrefix(d, c)
  BY PrefixTransitive
<1>2. Len(c) \in Nat /\ Len(d) \in Nat /\ Len(d) <= Len(c)
  BY <1>1, PrefixIs DEF Path
<1> QED
  BY <1>1, <1>2, EarlierExcludes DEF Precedes

\* What is in no way on the path to the newest directory now.
LEMMA LeftBehind ==
  ASSUME NEW c \in Path, NEW d \in Path, NEW e \in Path,
         Earlier(c, d), IsPrefix(d, e) \/ Earlier(d, e)
  PROVE  ~IsPrefix(c, e)
<1>1. CASE IsPrefix(d, e)
  <2>1. Earlier(c, e)
    BY <1>1, PrefixOrder, EarlierBelow
  <2> QED
    BY <2>1, EarlierExcludes
<1>2. CASE Earlier(d, e)
  <2>1. ASSUME IsPrefix(c, e)
        PROVE  Earlier(e, d)
    BY <2>1, PrefixOrder, EarlierBelow
  <2> QED
    BY <1>2, <2>1, EarlierExcludes
<1> QED
  BY <1>1, <1>2

\* The path to a directory made in p.
LEMMA PrefixOfAppend ==
  ASSUME NEW c \in Path, NEW p \in Path, NEW x \in Nat
  PROVE  /\ Append(p, x) \in Path /\ Len(Append(p, x)) = Len(p) + 1
         /\ IsPrefix(p, Append(p, x)) /\ p # Append(p, x)
         /\ IsPrefix(c, Append(p, x)) => IsPrefix(c, p) \/ c = Append(p, x)
<1>1. PICK n \in Nat : n = Len(p)
  BY LenProperties, Zenon DEF Path
<1>2. PICK m \in Nat : /\ m = Len(c) /\ DOMAIN c = 1..m
                      /\ c = [i \in 1..m |-> c[i]]
  <2>1. PICK m \in Nat : m = Len(c)
    BY LenProperties, Zenon DEF Path
  <2>2. c \in [1..m -> Nat]
    BY <2>1, LenProperties, Zenon DEF Path
  <2> QED
    BY <2>1, <2>2
<1> DEFINE q == Append(p, x)
<1>3. q \in Path /\ Len(q) = n + 1 /\ \A i \in 1..n : q[i] = p[i]
  BY <1>1 DEF Path
<1> HIDE DEF q
<1>4. q = [i \in 1..(n + 1) |-> q[i]]
  BY <1>3 DEF Path
<1>5. IsPrefix(p, q)
  BY <1>1, <1>3, PrefixIs
<1>6. p # q
  BY <1>1, <1>3
<1>7. ASSUME IsPrefix(c, q)
      PROVE  IsPrefix(c, p) \/ c = q
  <2>1. m <= n + 1 /\ \A i \in 1..m : c[i] = q[i]
    BY <1>2, <1>3, <1>7, PrefixIs
  <2>2. CASE m <= n
    <3>1. m <= n /\ \A i \in 1..m : c[i] = p[i]
      BY <2>1, <2>2, <1>3
    <3> QED
      BY <3>1, <1>1, <1>2, PrefixIs
  <2>3. CASE m = n + 1
    <3>1. \A i \in 1..(n + 1) : c[i] = q[i]
      BY <2>1, <2>3
    <3> QED
      BY <3>1, <2>3, <1>2, <1>4
  <2> QED
    BY <2>1, <2>2, <2>3
<1>8. /\ q \in Path /\ Len(q) = Len(p) + 1
      /\ IsPrefix(p, q) /\ p # q
      /\ IsPrefix(c, q) => IsPrefix(c, p) \/ c = q
  BY <1>1, <1>3, <1>5, <1>6, <1>7
<1> QED
  BY <1>8, Zenon DEF q

-----------------------------------------------------------------------------
(* The order in which directories are watched.                             *)

Given == 1..(nextwd - 1)
Events == evtbuf \o queue
Made(e) == Append(getwdir(e.wd), e.name)

\* Directories are numbered as they are made, and none is made before the
\* newest of them.
Grown ==
  /\ \A d \in exists : \A n \in 0..(Len(d) - 1) :
       /\ SubSeq(d, 1, n) \in exists
       /\ d[n + 1] <= Cardinality(Children(SubSeq(d, 1, n)))
  /\ \A d \in exists : IsPrefix(d, here) \/ Earlier(d, here)

\* What has been named for a watch, or will be, is a directory.
InTree ==
  /\ \A w \in Given : getwdir(w) \in exists
  /\ \A i \in 1..Len(dirent) : dirent[i] \in exists
  /\ npc = "adding" =>
       /\ avpath \in exists /\ Len(avpath) > 0
       /\ \A i \in 1..Len(dirent) : IsPrefix(avpath, dirent[i])

\* No directory is watched after one below it, and none twice.
Ordered ==
  /\ \A v, w \in Given : v < w => ~IsPrefix(getwdir(w), getwdir(v))
  /\ \A i \in 1..Len(dirent) : \A v \in Given :
       ~IsPrefix(dirent[i], getwdir(v))
  /\ \A i, j \in 1..Len(dirent) : i < j => ~IsPrefix(dirent[j], dirent[i])

\* The current directory is the one watched last.
Latest ==
  /\ nextwd > 1 => curdir = nextwd - 1
  /\ npc # "start" => nextwd > 1

\* The events not handled yet tell of directories in the order of their making,
Arriving ==
  \A j \in 1..Len(Events) : Events[j].isdir =>
    /\ Events[j].name \in Nat /\ Made(Events[j]) \in exists
    /\ \A k \in (j + 1)..Len(Events) : Events[k].isdir =>
         Earlier(Made(Events[j]), Made(Events[k]))

\* all of them made after those watched or about to be.
Behind ==
  \A j \in 1..Len(Events) : Events[j].isdir =>
    /\ \A w \in Given : Precedes(getwdir(w), Made(Events[j]))
    /\ \A i \in 1..Len(dirent) : Precedes(dirent[i], Made(Events[j]))

PathInv == Grown /\ InTree /\ Ordered /\ Latest /\ Arriving /\ Behind

\* The events a step leaves.
LEMMA EventsAre ==
  ASSUME Numbers
  PROVE  /\ Events \in Seq(EventSet) /\ Len(Events) \in Nat
         /\ Len(Events) = Len(evtbuf) + Len(queue)
         /\ \A j \in 1..Len(Events) : Events[j] \in EventSet
                                      /\ Events[j].wd \in Given
<1>1. evtbuf \in Seq(EventSet) /\ queue \in Seq(EventSet)
  BY DEF Numbers
<1>2. Events \in Seq(EventSet) /\ Len(Events) = Len(evtbuf) + Len(queue)
  BY <1>1 DEF Events
<1>3. \A e \in EventSet : e.wd \in Given
  BY DEF EventSet, Given
<1> QED
  BY <1>2, <1>3

LEMMA EventPosted ==
  ASSUME Numbers, NEW e \in EventSet, queue' = Append(queue, e),
         evtbuf' = evtbuf
  PROVE  /\ Len(Events') = Len(Events) + 1
         /\ \A j \in 1..Len(Events) : Events'[j] = Events[j]
         /\ Events'[Len(Events) + 1] = e
<1>1. queue \in Seq(EventSet) /\ evtbuf \in Seq(EventSet)
  BY DEF Numbers
<1>2. PICK m \in Nat : m = Len(evtbuf)
  BY <1>1
<1>3. PICK n \in Nat : n = Len(queue)
  BY <1>1
<1>4. /\ queue' \in Seq(EventSet) /\ Len(queue') = n + 1
      /\ \A j \in 1..n : queue'[j] = queue[j]
      /\ queue'[n + 1] = e
  BY <1>1, <1>3
<1>5. /\ Len(evtbuf \o queue) = m + n
      /\ \A j \in 1..(m + n) : (evtbuf \o queue)[j] =
           IF j <= m THEN evtbuf[j] ELSE queue[j - m]
  BY <1>1, <1>2, <1>3
<1>6. /\ Len(evtbuf \o queue') = m + n + 1
      /\ \A j \in 1..(m + n + 1) : (evtbuf \o queue')[j] =
           IF j <= m THEN evtbuf[j] ELSE queue'[j - m]
  <2>1. PICK q \in Seq(EventSet) : q = queue'
    BY <1>4
  <2>2. PICK k \in Nat : k = Len(q)
    BY <2>1
  <2>3. /\ Len(evtbuf \o q) = m + k
        /\ \A j \in 1..(m + k) : (evtbuf \o q)[j] =
             IF j <= m THEN evtbuf[j] ELSE q[j - m]
    BY <1>1, <1>2, <2>2, ConcatProperties
  <2>4. m + k = m + n + 1
    BY <1>4, <2>1, <2>2
  <2> QED
    BY <2>1, <2>3, <2>4
<1>7. \A j \in 1..(m + n) : (evtbuf \o queue')[j] = (evtbuf \o queue)[j]
  BY <1>2, <1>3, <1>4, <1>5, <1>6
<1>8. (evtbuf \o queue')[m + n + 1] = e
  BY <1>4, <1>6
<1> QED
  BY <1>5, <1>6, <1>7, <1>8 DEF Events

LEMMA FirstTaken ==
  ASSUME Numbers, evtbuf # <<>>, evtbuf' = Tail(evtbuf), queue' = queue
  PROVE  /\ Len(Events) \in Nat \ {0} /\ Len(Events') = Len(Events) - 1
         /\ Events[1] = Event
         /\ \A j \in 1..Len(Events') : Events'[j] = Events[j + 1]
<1>1. queue \in Seq(EventSet) /\ evtbuf \in Seq(EventSet)
  BY DEF Numbers
<1>2. PICK m \in Nat \ {0} : m = Len(evtbuf)
  BY <1>1
<1>3. PICK n \in Nat : n = Len(queue)
  BY <1>1
<1>4. /\ Tail(evtbuf) \in Seq(EventSet) /\ Len(Tail(evtbuf)) = m - 1
      /\ \A j \in 1..(m - 1) : Tail(evtbuf)[j] = evtbuf[j + 1]
      /\ Head(evtbuf) = evtbuf[1]
  BY <1>1, <1>2
<1>5. /\ Len(evtbuf \o queue) = m + n
      /\ \A j \in 1..(m + n) : (evtbuf \o queue)[j] =
           IF j <= m THEN evtbuf[j] ELSE queue[j - m]
  BY <1>1, <1>2, <1>3
<1>6. /\ Len(Tail(evtbuf) \o queue) = (m - 1) + n
      /\ \A j \in 1..(m - 1 + n) : (Tail(evtbuf) \o queue)[j] =
           IF j <= m - 1 THEN Tail(evtbuf)[j] ELSE queue[j - (m - 1)]
  BY <1>1, <1>2, <1>3, <1>4
<1>7. \A j \in 1..(m - 1 + n) :
        (Tail(evtbuf) \o queue)[j] = (evtbuf \o queue)[j + 1]
  BY <1>4, <1>5, <1>6
<1> QED
  BY <1>2, <1>3, <1>4, <1>5, <1>6, <1>7 DEF Events, Event

\* The events stay, or the first is gone.
LEMMA ArrivingKept ==
  ASSUME Numbers, Numbers', Arriving, exists \subseteq exists',
         NEW k \in {0, 1},
         \A j \in 1..Len(Events') :
           j + k \in 1..Len(Events) /\ Events'[j] = Events[j + k],
         \A w \in Given : wdirs'[w % MAX_DIRS] = wdirs[w % MAX_DIRS]
  PROVE  /\ \A w \in Given : getwdir(w)' = getwdir(w)
         /\ \A e \in EventSet : Made(e)' = Made(e)
         /\ Arriving'
<1>1. \A w \in Given : getwdir(w)' = getwdir(w)
  BY DEF getwdir
<1>2. ASSUME NEW e \in EventSet
      PROVE  Made(e)' = Made(e)
  <2>1. e.wd \in Given
    BY DEF EventSet, Given
  <2> QED
    BY <1>1, <2>1 DEF Made
<1>3. /\ Len(Events) \in Nat /\ Len(Events') \in Nat
      /\ \A j \in 1..Len(Events) : Events[j] \in EventSet
  <2>1. Len(Events') \in Nat
    <3>1. evtbuf' \in Seq(EventSet') /\ queue' \in Seq(EventSet')
      BY DEF Numbers
    <3> QED
      BY <3>1 DEF Events
  <2> QED
    BY <2>1, EventsAre
<1>4. ASSUME NEW j \in 1..Len(Events'), Events'[j].isdir
      PROVE  /\ Events'[j].name \in Nat /\ Made(Events[j])' \in exists'
             /\ \A i \in (j + 1)..Len(Events') : Events'[i].isdir =>
                  Earlier(Made(Events[j])', Made(Events[i])')
  <2>1. /\ j + k \in 1..Len(Events) /\ Events'[j] = Events[j + k]
        /\ Events[j + k].isdir
    BY <1>4
  <2>2. /\ Events[j + k].name \in Nat /\ Made(Events[j + k]) \in exists
        /\ \A i \in (j + k + 1)..Len(Events) : Events[i].isdir =>
             Earlier(Made(Events[j + k]), Made(Events[i]))
    BY <2>1 DEF Arriving
  <2>3. ASSUME NEW i \in 1..Len(Events')
        PROVE  i + k \in 1..Len(Events)
               /\ Made(Events[i])' = Made(Events[i + k])
    <3>1. i + k \in 1..Len(Events) /\ Events'[i] = Events[i + k]
      OBVIOUS
    <3>2. PICK e \in EventSet : e = Events[i + k]
      BY <1>3, <3>1
    <3>3. Made(Events[i])' = Append(getwdir(e.wd)', e.name)
      BY <3>1, <3>2 DEF Made, getwdir
    <3>4. Made(e)' = Append(getwdir(e.wd)', e.name)
      BY DEF Made, getwdir
    <3> QED
      BY <1>2, <3>1, <3>2, <3>3, <3>4
  <2>4. ASSUME NEW i \in (j + 1)..Len(Events'), Events'[i].isdir
        PROVE  Earlier(Made(Events[j])', Made(Events[i])')
    <3>1. i \in 1..Len(Events') /\ i + k \in (j + k + 1)..Len(Events)
      BY <1>3, <2>3
    <3>2. Events[i + k].isdir
      BY <3>1, <2>4
    <3>3. Earlier(Made(Events[j + k]), Made(Events[i + k]))
      BY <2>2, <3>1, <3>2
    <3> QED
      BY <2>3, <3>1, <3>3
  <2> QED
    BY <2>1, <2>2, <2>3, <2>4
<1> QED
  BY <1>1, <1>2, <1>4 DEF Arriving

\* A directory made is a new one, the newest, and not on the path to another.
LEMMA MkdirGrows ==
  ASSUME WatchInv, Grown, mkdir
  PROVE  /\ here' \notin exists /\ exists' = exists \union {here'}
         /\ Grown'
         /\ \A c \in exists : IsPrefix(c, here') => IsPrefix(c, here)
         /\ \E p \in exists, x \in Nat :
              here' = Append(p, x) /\ Post(p, TRUE, x)
<1>1. /\ exists \subseteq Seq(Nat \ {0}) /\ IsFiniteSet(exists)
      /\ here \in exists /\ exists \subseteq Path /\ Len(here) \in Nat
  BY DEF WatchInv, Tree, Path
<1>2. PICK n \in 0..Len(here) :
        LET p == SubSeq(here, 1, n)
            new == Cardinality(Children(p)) + 1
        IN  /\ here' = Append(p, new)
            /\ exists' = exists \union {here'} /\ Post(p, TRUE, new)
  BY DEF mkdir
<1>3. PICK p \in Path : p = SubSeq(here, 1, n) /\ Len(p) = n
  <2>1. SubSeq(here, 1, n) \in Path /\ Len(SubSeq(here, 1, n)) = n
    BY <1>1 DEF Path
  <2> QED
    BY <2>1
<1>4. \A j \in 1..n : p[j] = here[j]
  BY <1>1, <1>3 DEF Path
<1>5. p \in exists
  <2>1. CASE n = Len(here)
    <3>1. p = here
      BY <1>1, <1>3, <2>1 DEF Path
    <3> QED
      BY <1>1, <3>1
  <2>2. CASE n # Len(here)
    <3>1. n \in 0..(Len(here) - 1)
      BY <1>1, <2>2
    <3> QED
      BY <1>1, <1>3, <3>1 DEF Grown
  <2> QED
    BY <2>1, <2>2
<1>6. IsFiniteSet(Children(p))
  <2>1. Children(p) \subseteq exists
    BY DEF Children
  <2> QED
    BY <1>1, <2>1, FS_Subset
<1>7. PICK k \in Nat : k = Cardinality(Children(p))
  BY <1>6, FS_CardinalityType
<1>8. PICK q : q = Append(p, k + 1) /\ q = here'
  BY <1>2, <1>3, <1>7
<1>9. /\ q \in Path /\ Len(q) = n + 1 /\ q[n + 1] = k + 1
      /\ \A j \in 1..n : q[j] = p[j]
  BY <1>3, <1>7, <1>8 DEF Path
<1>10. exists' = exists \union {q} /\ here' = q /\ Post(p, TRUE, k + 1)
  BY <1>2, <1>3, <1>7, <1>8
<1>11. ASSUME NEW i \in 0..n
       PROVE  SubSeq(q, 1, i) = SubSeq(p, 1, i)
  BY <1>3, <1>9, <1>11 DEF Path
<1>12. SubSeq(p, 1, n) = p
  BY <1>3 DEF Path
<1>13. q \notin exists
  <2> SUFFICES ASSUME q \in exists
               PROVE  FALSE
    OBVIOUS
  <2>1. n \in 0..(Len(q) - 1)
    BY <1>9
  <2>2. q[n + 1] <= Cardinality(Children(SubSeq(q, 1, n)))
    BY <2>1 DEF Grown
  <2>3. SubSeq(q, 1, n) = p
    BY <1>11, <1>12
  <2>4. q[n + 1] <= k
    BY <2>2, <2>3, <1>7, Zenon
  <2> QED
    BY <2>4, <1>9
<1>14. /\ IsPrefix(p, q)
       /\ \A c \in Path : IsPrefix(c, q) => IsPrefix(c, p) \/ c = q
  <2>1. k + 1 \in Nat
    OBVIOUS
  <2>2. IsPrefix(p, Append(p, k + 1))
    BY <2>1, PrefixOfAppend
  <2>3. ASSUME NEW c \in Path
        PROVE  IsPrefix(c, Append(p, k + 1))
                 => IsPrefix(c, p) \/ c = Append(p, k + 1)
    BY <2>1, PrefixOfAppend
  <2> QED
    BY <2>2, <2>3, <1>8
<1>15. IsPrefix(p, here)
  <2>1. here \in Path /\ Len(p) = n /\ n <= Len(here)
    BY <1>1, <1>3
  <2>2. IsPrefix(p, here) <=> /\ Len(p) <= Len(here)
                              /\ \A j \in 1..Len(p) : p[j] = here[j]
    BY <2>1, PrefixIs, Zenon
  <2> QED
    BY <2>1, <2>2, <1>4
<1>16. \A c \in exists : IsPrefix(c, q) => IsPrefix(c, here)
  BY <1>1, <1>13, <1>14, <1>15, PrefixTransitive
<1>17. ASSUME NEW d \in exists', NEW i \in 0..(Len(d) - 1)
       PROVE  /\ SubSeq(d, 1, i) \in exists'
              /\ d[i + 1] <= Cardinality(Children(SubSeq(d, 1, i))')
  <2>1. ASSUME NEW s \in exists
        PROVE  /\ IsFiniteSet(Children(s)')
               /\ Children(s) \subseteq Children(s)'
               /\ Cardinality(Children(s)) \in Nat
               /\ Cardinality(Children(s)') \in Nat
               /\ Cardinality(Children(s)) <= Cardinality(Children(s)')
    <3>1. /\ Children(s)' \subseteq exists \union {q}
          /\ Children(s) \subseteq Children(s)'
      BY <1>10 DEF Children
    <3>2. IsFiniteSet(exists \union {q})
      BY <1>1, FS_AddElement
    <3>3. IsFiniteSet(Children(s)')
      BY <3>1, <3>2, FS_Subset
    <3> QED
      BY <3>1, <3>3, FS_Subset, FS_CardinalityType
  <2>2. CASE d \in exists
    <3>1. /\ SubSeq(d, 1, i) \in exists
          /\ d[i + 1] <= Cardinality(Children(SubSeq(d, 1, i)))
      BY <2>2 DEF Grown
    <3>2. PICK s \in exists : s = SubSeq(d, 1, i)
      BY <3>1
    <3>3. d[i + 1] \in Nat
      BY <1>1, <2>2 DEF Path
    <3>4. d[i + 1] <= Cardinality(Children(s))
      BY <3>1, <3>2
    <3>5. d[i + 1] <= Cardinality(Children(s)')
      BY <2>1, <3>3, <3>4
    <3> QED
      BY <3>2, <3>5, <1>10
  <2>3. CASE d = q /\ i < n
    <3>1. SubSeq(d, 1, i) = SubSeq(here, 1, i) /\ d[i + 1] = here[i + 1]
      <4>1. i \in 0..n /\ i + 1 \in 1..n
        BY <1>9, <2>3
      <4>2. SubSeq(p, 1, i) = SubSeq(here, 1, i)
        BY <1>1, <1>3, <4>1, <1>4 DEF Path
      <4> QED
        BY <2>3, <4>1, <4>2, <1>4, <1>9, <1>11
    <3>2. i \in 0..(Len(here) - 1)
      BY <1>1, <2>3, <1>9
    <3>3. /\ SubSeq(here, 1, i) \in exists
          /\ here[i + 1] <= Cardinality(Children(SubSeq(here, 1, i)))
      BY <1>1, <3>2 DEF Grown
    <3>4. PICK s \in exists : s = SubSeq(here, 1, i)
      BY <3>3
    <3>5. here[i + 1] \in Nat
      BY <1>1, <3>2 DEF Path
    <3>6. here[i + 1] <= Cardinality(Children(s))
      BY <3>3, <3>4
    <3>7. here[i + 1] <= Cardinality(Children(s)')
      BY <2>1, <3>5, <3>6
    <3> QED
      BY <3>1, <3>4, <3>7, <1>10
  <2>4. CASE d = q /\ i = n
    <3>1. SubSeq(d, 1, i) = p
      BY <2>4, <1>11, <1>12
    <3>2. q \in Children(p)' /\ q \notin Children(p)
      BY <1>3, <1>9, <1>10, <1>13, <1>14 DEF Children
    <3>3. Cardinality(Children(p) \union {q}) = k + 1
      BY <1>6, <1>7, <3>2, FS_AddElement
    <3>4. /\ Children(p) \union {q} \subseteq Children(p)'
          /\ IsFiniteSet(Children(p)')
      BY <1>5, <2>1, <3>2
    <3>5. Cardinality(Children(p) \union {q}) <= Cardinality(Children(p)')
      BY <3>4, FS_Subset
    <3> QED
      BY <2>4, <3>1, <3>3, <3>5, <1>5, <1>9, <1>10
  <2> QED
    BY <2>2, <2>3, <2>4, <1>9, <1>10, <1>17
<1>18. ASSUME NEW d \in exists'
       PROVE  IsPrefix(d, q) \/ Earlier(d, q)
  <2>1. CASE d = q
    BY <2>1, <1>9, PrefixOrder
  <2>2. CASE d \in exists
    <3>1. d \in Path /\ Len(d) \in Nat /\ \A j \in 1..Len(d) : d[j] \in Nat
      BY <1>1, <2>2 DEF Path
    <3>2. CASE IsPrefix(d, p)
      BY <3>1, <3>2, <1>9, <1>14, PrefixTransitive
    <3>3. CASE IsPrefix(p, d) /\ d # p
      <4>1. n < Len(d) /\ \A j \in 1..n : p[j] = d[j]
        <5>1. Len(p) < Len(d) /\ Len(p) = n
          BY <3>1, <3>3, <1>3, PrefixOrder
        <5>2. \A j \in 1..Len(p) : p[j] = d[j]
          BY <3>1, <3>3, PrefixIs
        <5> QED
          BY <5>1, <5>2
      <4>2. n \in 0..(Len(d) - 1)
        BY <4>1, <1>3, <3>1
      <4>3. SubSeq(d, 1, n) = p
        BY <4>1, <3>1, <1>3 DEF Path
      <4>4. d[n + 1] <= k
        BY <2>2, <4>2, <4>3, <1>7 DEF Grown
      <4>5. n + 1 \in 1..Len(d) /\ d[n + 1] \in Nat
        BY <3>1, <4>1
      <4>6. d[n + 1] < q[n + 1]
        BY <4>4, <4>5, <1>7, <1>9
      <4>7. \A j \in 1..n : d[j] = q[j]
        BY <4>1, <1>9
      <4> QED
        BY <4>5, <4>6, <4>7, <1>9 DEF Earlier
    <3>4. CASE ~IsPrefix(d, p) /\ ~IsPrefix(p, d)
      <4>1. \E j \in 1..n : j <= Len(d) /\ p[j] # d[j]
        <5>1. /\ ~(/\ Len(d) <= Len(p)
                    /\ \A j \in 1..Len(d) : d[j] = p[j])
              /\ ~(/\ Len(p) <= Len(d)
                    /\ \A j \in 1..Len(p) : p[j] = d[j])
          BY <3>1, <3>4, PrefixIs
        <5>2. Len(p) = n /\ n \in Nat
          BY <1>1, <1>3
        <5> QED
          BY <5>1, <5>2, <3>1
      <4>2. ~IsPrefix(d, here)
        <5>1. PICK j \in 1..n : j <= Len(d) /\ p[j] # d[j]
          BY <4>1
        <5>2. j \in 1..Len(d) /\ d[j] # here[j]
          BY <5>1, <1>4, <3>1
        <5> QED
          BY <5>2, <1>1, <3>1, PrefixIs
      <4>3. Earlier(d, here)
        BY <2>2, <4>2 DEF Grown
      <4>4. PICK i \in 1..Len(d) : /\ i <= Len(here) /\ d[i] < here[i]
                                   /\ \A j \in 1..(i - 1) : d[j] = here[j]
        BY <4>3 DEF Earlier
      <4>5. i <= n
        <5>1. PICK j \in 1..n : j <= Len(d) /\ p[j] # d[j]
          BY <4>1
        <5> QED
          BY <5>1, <4>4, <1>4, <3>1
      <4>6. d[i] < q[i] /\ \A j \in 1..(i - 1) : d[j] = q[j]
        BY <4>4, <4>5, <1>4, <1>9
      <4>7. i <= Len(q)
        BY <4>5, <1>9
      <4> QED
        BY <4>6, <4>7 DEF Earlier
    <3>5. d = p => IsPrefix(d, p)
      BY <1>3, PrefixOrder
    <3> QED
      BY <3>2, <3>3, <3>4, <3>5
  <2> QED
    BY <2>1, <2>2, <1>10
<1>19. Grown'
  BY <1>10, <1>17, <1>18 DEF Grown
<1>20. k + 1 \in Nat /\ here' = Append(p, k + 1)
  BY <1>8
<1>21. \A c \in exists : IsPrefix(c, here') => IsPrefix(c, here)
  BY <1>10, <1>16
<1> QED
  BY <1>5, <1>10, <1>13, <1>19, <1>20, <1>21

\* A directory still to watch has no watch: it takes a new number.
LEMMA NewNumber ==
  ASSUME WatchInv, Ordered, dirent # <<>>, add_watch(Head(dirent)),
         nextwd <= MAX_DIRS
  PROVE  /\ nextwd' = nextwd + 1 /\ curdir' = nextwd
         /\ DOMAIN watches' = DOMAIN watches \union {nextwd}
         /\ wdirs'[nextwd % MAX_DIRS] = dirent[1]
         /\ \A w \in Given : wdirs'[w % MAX_DIRS] = wdirs[w % MAX_DIRS]
<1>1. /\ nextwd \in 1..MAX_DIRS /\ DOMAIN watches \subseteq Given
      /\ wdirs \in [0..(MAX_DIRS - 1) -> Path]
      /\ MAX_DIRS \in Nat
  BY NotifyAssumption DEF WatchInv, Numbers, Given
<1>2. dirent \in Seq(Path)
  BY DEF WatchInv, Places
<1>3. PICK m \in Nat \ {0} : m = Len(dirent)
  BY <1>2
<1>4. dirent[1] \in Path /\ Head(dirent) = dirent[1] /\ 1 \in 1..m
  BY <1>2, <1>3
<1>5. ~Watched(dirent[1])
  <2> SUFFICES ASSUME Watched(dirent[1])
               PROVE  FALSE
    OBVIOUS
  <2>1. PICK w \in DOMAIN watches : watches[w] = dirent[1]
    BY DEF Watched
  <2>2. getwdir(w) = dirent[1] /\ w \in Given
    BY <1>1, <2>1 DEF WatchInv, NamesWatched
  <2>3. ~IsPrefix(dirent[1], getwdir(w))
    BY <1>3, <1>4, <2>2 DEF Ordered
  <2> QED
    BY <1>4, <2>2, <2>3, PrefixOrder
<1>6. /\ watches' = [w \in DOMAIN watches \union {nextwd} |->
                       IF w = nextwd THEN dirent[1] ELSE watches[w]]
      /\ nextwd' = nextwd + 1 /\ curdir' = nextwd
      /\ wdirs' = [wdirs EXCEPT ![nextwd % MAX_DIRS] = dirent[1]]
  BY <1>4, <1>5 DEF add_watch
<1>7. nextwd % MAX_DIRS \in 0..(MAX_DIRS - 1)
  BY <1>1, OwnPlace
<1>8. wdirs'[nextwd % MAX_DIRS] = dirent[1]
  BY <1>1, <1>6, <1>7
<1>9. ASSUME NEW w \in Given
      PROVE  wdirs'[w % MAX_DIRS] = wdirs[w % MAX_DIRS]
  <2>1. w \in 1..MAX_DIRS /\ w # nextwd
    BY <1>1 DEF Given
  <2>2. w % MAX_DIRS # nextwd % MAX_DIRS /\ w % MAX_DIRS \in 0..(MAX_DIRS - 1)
    BY <2>1, <1>1, OwnPlace
  <2> QED
    BY <1>1, <1>6, <2>2
<1> QED
  BY <1>6, <1>8, <1>9

\* The next directory of dirent is watched.
LEMMA AddedPath ==
  ASSUME WatchInv, WatchInv', PathInv, dirent # <<>>, nextwd <= MAX_DIRS,
         add_watch(Head(dirent)), dirent' = Tail(dirent),
         UNCHANGED <<wvars, queue, evtbuf, avpath>>,
         npc' = "adding" => npc = "adding"
  PROVE  PathInv'
<1>1. /\ nextwd' = nextwd + 1 /\ curdir' = nextwd
      /\ wdirs'[nextwd % MAX_DIRS] = dirent[1]
      /\ \A w \in Given : wdirs'[w % MAX_DIRS] = wdirs[w % MAX_DIRS]
  BY NewNumber DEF PathInv
<1>2. /\ Numbers /\ Numbers' /\ Tree /\ nextwd \in Nat \ {0}
      /\ dirent \in Seq(Path) /\ exists \subseteq Path
  <2>1. exists \subseteq Path
    BY DEF WatchInv, Tree, Path
  <2>2. Numbers /\ Numbers' /\ Tree /\ dirent \in Seq(Path)
    BY DEF WatchInv, Places
  <2>3. nextwd \in 1..(MAX_DIRS + 1)
    BY <2>2 DEF Numbers
  <2>4. nextwd \in Nat \ {0}
    BY <2>3, NotifyAssumption
  <2> QED
    BY <2>1, <2>2, <2>4
<1>3. PICK m \in Nat \ {0} : m = Len(dirent)
  BY <1>2
<1>4. Len(dirent') = m - 1 /\ \A i \in 1..(m - 1) : dirent'[i] = dirent[i + 1]
  BY <1>2, <1>3
<1>5. \A i \in 1..Len(dirent') : i + 1 \in 1..m /\ dirent'[i] = dirent[i + 1]
  BY <1>3, <1>4
<1>6. Given' = Given \union {nextwd} /\ nextwd \notin Given
  BY <1>1, <1>2 DEF Given
<1>7. /\ \A w \in Given : getwdir(w)' = getwdir(w)
      /\ \A w : w = nextwd => getwdir(w)' = dirent[1]
  BY <1>1 DEF getwdir
<1>8. 1 \in 1..m /\ exists' = exists /\ here' = here /\ Events' = Events
  BY DEF wvars, Events
<1>9. Grown'
  BY <1>8 DEF PathInv, Grown, Children
<1>10. InTree'
  <2>1. \A w \in Given' : getwdir(w)' \in exists'
    BY <1>3, <1>6, <1>7, <1>8 DEF PathInv, InTree
  <2>2. \A i \in 1..Len(dirent') : dirent'[i] \in exists'
    BY <1>3, <1>5, <1>8 DEF PathInv, InTree
  <2>3. npc' = "adding" =>
          /\ avpath' \in exists' /\ Len(avpath') > 0
          /\ \A i \in 1..Len(dirent') : IsPrefix(avpath', dirent'[i])
    BY <1>3, <1>5, <1>8 DEF PathInv, InTree
  <2> QED
    BY <2>1, <2>2, <2>3 DEF InTree
<1>11. Ordered'
  <2>1. ASSUME NEW v \in Given', NEW w \in Given', v < w
        PROVE  ~IsPrefix(getwdir(w)', getwdir(v)')
    <3>1. v \in Given /\ v # nextwd
      BY <1>2, <1>6, <2>1 DEF Given
    <3>2. CASE w \in Given
      BY <2>1, <3>1, <3>2, <1>7 DEF PathInv, Ordered
    <3>3. CASE w = nextwd
      <4>1. ~IsPrefix(dirent[1], getwdir(v))
        BY <3>1, <1>3, <1>8 DEF PathInv, Ordered
      <4> QED
        BY <3>1, <3>3, <4>1, <1>7
    <3> QED
      BY <3>2, <3>3, <1>6
  <2>2. ASSUME NEW i \in 1..Len(dirent'), NEW v \in Given'
        PROVE  ~IsPrefix(dirent'[i], getwdir(v)')
    <3>1. i + 1 \in 1..Len(dirent) /\ dirent'[i] = dirent[i + 1]
          /\ 1 \in 1..Len(dirent) /\ 1 < i + 1
      BY <1>3, <1>5, <1>4
    <3>2. CASE v \in Given
      BY <3>1, <3>2, <1>7 DEF PathInv, Ordered
    <3>3. CASE v = nextwd
      <4>1. ~IsPrefix(dirent[i + 1], dirent[1])
        BY <3>1 DEF PathInv, Ordered
      <4> QED
        BY <3>1, <3>3, <4>1, <1>7
    <3> QED
      BY <3>2, <3>3, <1>6
  <2>3. ASSUME NEW i \in 1..Len(dirent'), NEW j \in 1..Len(dirent'), i < j
        PROVE  ~IsPrefix(dirent'[j], dirent'[i])
    <3>1. /\ i + 1 \in 1..Len(dirent) /\ dirent'[i] = dirent[i + 1]
          /\ j + 1 \in 1..Len(dirent) /\ dirent'[j] = dirent[j + 1]
          /\ i + 1 < j + 1
      BY <1>3, <1>4, <1>5, <2>3
    <3> QED
      BY <3>1 DEF PathInv, Ordered
  <2> QED
    BY <2>1, <2>2, <2>3 DEF Ordered
<1>12. Latest'
  BY <1>1, <1>2 DEF Latest
<1>13. /\ Arriving' /\ \A e \in EventSet : Made(e)' = Made(e)
  <2>1. \A j \in 1..Len(Events') :
          j + 0 \in 1..Len(Events) /\ Events'[j] = Events[j + 0]
    BY <1>2, <1>8, EventsAre
  <2> QED
    BY <1>1, <1>2, <1>8, <2>1, ArrivingKept DEF PathInv
<1>14. Behind'
  <2> SUFFICES ASSUME NEW j \in 1..Len(Events'), Events'[j].isdir
               PROVE  /\ \A w \in Given' :
                           Precedes(getwdir(w)', Made(Events[j])')
                      /\ \A i \in 1..Len(dirent') :
                           Precedes(dirent'[i], Made(Events[j])')
    BY DEF Behind
  <2>1. PICK e \in EventSet : e = Events[j]
    BY <1>2, <1>8, EventsAre
  <2>2. Made(Events[j])' = Made(e)' /\ Made(e)' = Made(e)
    BY <1>8, <1>13, <2>1 DEF Made, getwdir
  <2>3. /\ \A w \in Given : Precedes(getwdir(w), Made(e))
        /\ \A i \in 1..Len(dirent) : Precedes(dirent[i], Made(e))
    BY <1>8, <2>1 DEF PathInv, Behind
  <2>4. \A w \in Given' : Precedes(getwdir(w)', Made(e))
    BY <2>3, <1>3, <1>6, <1>7, <1>8
  <2>5. \A i \in 1..Len(dirent') : Precedes(dirent'[i], Made(e))
    BY <2>3, <1>3, <1>5
  <2> QED
    BY <2>2, <2>4, <2>5
<1> QED
  BY <1>9, <1>10, <1>11, <1>12, <1>13, <1>14 DEF PathInv

\* The order in which a walk finds the directories below d.
LEMMA WalkFacts ==
  ASSUME WatchInv, NEW d \in exists, NEW s \in dirs_check(d)
  PROVE  /\ Len(s) \in Nat \ {0} /\ DOMAIN s = 1..Len(s)
         /\ \A i \in 1..Len(s) : s[i] \in exists /\ IsPrefix(d, s[i])
         /\ \A i, j \in 1..Len(s) : i < j => ~IsPrefix(s[j], s[i])
<1>1. exists \subseteq Path /\ IsFiniteSet(exists)
  BY DEF WatchInv, Tree, Path
<1>2. IsPrefix(d, d)
  BY <1>1, PrefixOrder
<1>3. CASE ~sdirflag
  <2>1. s = <<d>>
    BY <1>3, Zenon DEF dirs_check
  <2>2. Len(<<d>>) = 1 /\ DOMAIN <<d>> = 1..1 /\ <<d>>[1] = d
    OBVIOUS
  <2>3. \A i \in 1..1 : i = 1
    OBVIOUS
  <2> QED
    BY <2>1, <2>2, <2>3, <1>2
<1>4. CASE sdirflag
  <2> DEFINE n == Cardinality(Below(d))
  <2>1. s \in SetToSeqs(Below(d)) /\ IsWalk(s)
    BY <1>4 DEF dirs_check
  <2>2. s \in [1..n -> Below(d)] /\ \A i, j \in 1..n : i # j => s[i] # s[j]
    BY <2>1 DEF SetToSeqs
  <2>3. d \in Below(d) /\ Below(d) \subseteq exists
    BY <1>2 DEF Below
  <2>4. IsFiniteSet(Below(d))
    BY <1>1, <2>3, FS_Subset
  <2>5. n \in Nat \ {0}
    BY <2>3, <2>4, FS_CardinalityType, FS_EmptySet
  <2> HIDE DEF n
  <2>6. Len(s) = n /\ DOMAIN s = 1..n
    BY <2>2, <2>5
  <2>7. \A i \in 1..n : s[i] \in exists /\ IsPrefix(d, s[i])
    BY <2>2 DEF Below
  <2>8. ASSUME NEW i \in 1..n, NEW j \in 1..n, i < j, IsPrefix(s[j], s[i])
        PROVE  FALSE
    <3>1. s[j] # s[i]
      BY <2>2, <2>5, <2>8
    <3>2. IsStrictPrefix(s[j], s[i])
      BY <3>1, <2>8 DEF IsStrictPrefix
    <3>3. j < i
      BY <3>2, <2>1, <2>6 DEF IsWalk
    <3> QED
      BY <3>3, <2>5, <2>8
  <2> QED
    BY <2>5, <2>6, <2>7, <2>8
<1> QED
  BY <1>3, <1>4

\* An event is taken: what the others tell of stays as it is.
LEMMA TakenPath ==
  ASSUME WatchInv, WatchInv', PathInv, npc = "event", npc' # "start",
         evtbuf' = Tail(evtbuf), queue' = queue,
         UNCHANGED <<wvars, nextwd, wdirs, curdir>>
  PROVE  /\ Grown' /\ Latest' /\ Arriving'
         /\ \A e \in EventSet : Made(e)' = Made(e)
         /\ \A j \in 1..Len(Events') : /\ j + 1 \in 1..Len(Events)
                                       /\ Events'[j] = Events[j + 1]
<1>1. Numbers /\ Numbers' /\ evtbuf # <<>>
  BY DEF WatchInv, Places
<1>2. /\ Len(Events) \in Nat \ {0} /\ Len(Events') = Len(Events) - 1
      /\ \A j \in 1..Len(Events') : Events'[j] = Events[j + 1]
  BY <1>1, FirstTaken
<1>3. \A j \in 1..Len(Events') :
        j + 1 \in 1..Len(Events) /\ Events'[j] = Events[j + 1]
  BY <1>2
<1>4. Grown' /\ Latest'
  BY DEF PathInv, Grown, Latest, Children, wvars
<1>5. exists \subseteq exists' /\ 1 \in {0, 1}
      /\ \A w \in Given : wdirs'[w % MAX_DIRS] = wdirs[w % MAX_DIRS]
  BY DEF wvars
<1>6. Arriving' /\ \A e \in EventSet : Made(e)' = Made(e)
  BY <1>1, <1>3, <1>5, ArrivingKept DEF PathInv
<1> QED
  BY <1>3, <1>4, <1>6

LEMMA HandledPath ==
  ASSUME WatchInv, WatchInv', PathInv, npc = "event",
         npc' \notin {"start", "adding"},
         evtbuf' = Tail(evtbuf), queue' = queue,
         UNCHANGED <<wvars, nextwd, wdirs, curdir, dirent>>
  PROVE  PathInv'
<1>1. /\ Grown' /\ Latest' /\ Arriving'
      /\ \A e \in EventSet : Made(e)' = Made(e)
      /\ \A j \in 1..Len(Events') : /\ j + 1 \in 1..Len(Events)
                                    /\ Events'[j] = Events[j + 1]
  BY TakenPath
<1>2. InTree' /\ Ordered'
  BY DEF PathInv, InTree, Ordered, Given, getwdir, wvars
<1>3. Behind'
  <2> SUFFICES ASSUME NEW j \in 1..Len(Events'), Events'[j].isdir
               PROVE  /\ \A w \in Given :
                           Precedes(getwdir(w), Made(Events[j])')
                      /\ \A i \in 1..Len(dirent) :
                           Precedes(dirent[i], Made(Events[j])')
    BY DEF Behind, Given, getwdir
  <2>1. PICK e \in EventSet : e = Events[j + 1] /\ e = Events'[j]
    BY <1>1, EventsAre DEF WatchInv
  <2>2. Made(Events[j])' = Made(e)' /\ Made(e)' = Made(e)
    BY <1>1, <2>1 DEF Made, getwdir
  <2>3. /\ \A w \in Given : Precedes(getwdir(w), Made(e))
        /\ \A i \in 1..Len(dirent) : Precedes(dirent[i], Made(e))
    BY <1>1, <2>1 DEF PathInv, Behind
  <2> QED
    BY <2>2, <2>3
<1> QED
  BY <1>1, <1>2, <1>3 DEF PathInv

\* A new directory: no directory watched is below it, nor is one that a later
\* event tells of.
LEMMA NewDirectoryFacts ==
  ASSUME WatchInv, PathInv, new_directory
  PROVE  /\ npc = "event" /\ dirent = <<>> /\ Len(dirent) = 0
         /\ EventDir \in exists /\ EventDir \in Path /\ Len(EventDir) > 0
         /\ Len(EventDir) = Len(getwdir(Event.wd)) + 1
         /\ Event.wd \in Given
         /\ \A w \in Given : Precedes(getwdir(w), EventDir)
         /\ \A j \in 2..Len(Events) : Events[j].isdir =>
              Earlier(EventDir, Made(Events[j]))
<1>1. Numbers /\ evtbuf # <<>> /\ npc = "event" /\ dirent = <<>>
  BY DEF WatchInv, Places, new_directory
<1>2. evtbuf \in Seq(EventSet) /\ queue \in Seq(EventSet)
  BY <1>1 DEF Numbers
<1>3. PICK m \in Nat \ {0} : m = Len(evtbuf)
  BY <1>1, <1>2
<1>4. Len(Events) \in Nat \ {0} /\ Events[1] = Event
  <2>1. Events[1] = evtbuf[1] /\ evtbuf[1] = Head(evtbuf)
    BY <1>2, <1>3 DEF Events
  <2>2. Len(Events) = m + Len(queue) /\ Len(queue) \in Nat
    BY <1>1, <1>2, <1>3, EventsAre
  <2> QED
    BY <2>1, <2>2 DEF Event
<1>5. 1 \in 1..Len(Events) /\ Event.isdir /\ EventDir \in exists
  BY <1>4 DEF new_directory
<1>6. EventDir = Made(Events[1])
  BY <1>4 DEF EventDir, Made
<1>7. /\ Event.wd \in Given /\ Event.name \in Nat
      /\ \A w \in Given : Precedes(getwdir(w), EventDir)
      /\ \A j \in 2..Len(Events) : Events[j].isdir =>
           Earlier(EventDir, Made(Events[j]))
  BY <1>1, <1>4, <1>5, <1>6, EventsAre DEF PathInv, Arriving, Behind
<1>8. getwdir(Event.wd) \in Path
  <2>1. getwdir(Event.wd) \in exists
    BY <1>7 DEF PathInv, InTree
  <2> QED
    BY <2>1 DEF WatchInv, Tree, Path
<1>9. /\ EventDir \in Path /\ Len(EventDir) = Len(getwdir(Event.wd)) + 1
      /\ Len(getwdir(Event.wd)) \in Nat
  BY <1>7, <1>8, PrefixOfAppend DEF EventDir, Path
<1> QED
  BY <1>1, <1>5, <1>7, <1>9

LEMMA NewDirectoryPath ==
  ASSUME WatchInv, WatchInv', PathInv, new_directory
  PROVE  PathInv'
<1>1. /\ npc = "event" /\ Len(dirent) = 0
      /\ EventDir \in exists /\ EventDir \in Path /\ Len(EventDir) > 0
      /\ \A w \in Given : Precedes(getwdir(w), EventDir)
      /\ \A j \in 2..Len(Events) : Events[j].isdir =>
           Earlier(EventDir, Made(Events[j]))
  BY NewDirectoryFacts
<1>2. /\ avpath' = EventDir /\ evtbuf' = Tail(evtbuf) /\ queue' = queue
      /\ UNCHANGED <<wvars, nextwd, curdir, wdirs>>
      /\ npc' \in {"astray", "adding"}
      /\ npc' = "astray" => dirent' = dirent
      /\ npc' = "adding" => dirent' \in dirs_check(EventDir)
  BY DEF new_directory
<1>3. /\ Grown' /\ Latest' /\ Arriving'
      /\ \A e \in EventSet : Made(e)' = Made(e)
      /\ \A j \in 1..Len(Events') : /\ j + 1 \in 1..Len(Events)
                                    /\ Events'[j] = Events[j + 1]
  BY <1>1, <1>2, TakenPath
<1>4. /\ exists' = exists /\ exists \subseteq Path /\ Given' = Given
      /\ \A w \in Given : getwdir(w)' = getwdir(w) /\ getwdir(w) \in exists
  BY <1>2 DEF wvars, Given, getwdir, PathInv, InTree, WatchInv, Tree, Path
<1>5. /\ Len(dirent') \in Nat
      /\ \A i \in 1..Len(dirent') :
           dirent'[i] \in exists /\ IsPrefix(EventDir, dirent'[i])
      /\ \A i, j \in 1..Len(dirent') :
           i < j => ~IsPrefix(dirent'[j], dirent'[i])
  <2>1. CASE npc' = "astray"
    BY <1>1, <1>2, <2>1
  <2>2. CASE npc' = "adding"
    <3>1. PICK s \in dirs_check(EventDir) : s = dirent'
      BY <1>2, <2>2
    <3> QED
      BY <1>1, <3>1, WalkFacts
  <2> QED
    BY <1>2, <2>1, <2>2
<1>6. InTree'
  BY <1>1, <1>2, <1>4, <1>5 DEF InTree
<1>7. Ordered'
  <2>1. ASSUME NEW i \in 1..Len(dirent'), NEW v \in Given
        PROVE  ~IsPrefix(dirent'[i], getwdir(v)')
    BY <1>1, <1>4, <1>5, PrecedesExcludes
  <2>2. \A v, w \in Given : v < w => ~IsPrefix(getwdir(w)', getwdir(v)')
    BY <1>4 DEF PathInv, Ordered
  <2> QED
    BY <1>4, <1>5, <2>1, <2>2 DEF Ordered
<1>8. Behind'
  <2> SUFFICES ASSUME NEW j \in 1..Len(Events'), Events'[j].isdir
               PROVE  /\ \A w \in Given' :
                           Precedes(getwdir(w)', Made(Events[j])')
                      /\ \A i \in 1..Len(dirent') :
                           Precedes(dirent'[i], Made(Events[j])')
    BY DEF Behind
  <2>1. PICK e \in EventSet : e = Events[j + 1] /\ e = Events'[j]
    BY <1>3, EventsAre DEF WatchInv
  <2>2. Made(Events[j])' = Made(e)' /\ Made(e)' = Made(e)
    BY <1>3, <2>1 DEF Made, getwdir
  <2>3. j + 1 \in 1..Len(Events) /\ j + 1 \in 2..Len(Events)
    BY <1>3
  <2>4. Earlier(EventDir, Made(e))
    BY <1>1, <2>1, <2>3
  <2>5. Made(e) \in Path
    BY <1>3, <1>4, <2>1, <2>3 DEF PathInv, Arriving
  <2>6. \A w \in Given : Precedes(getwdir(w), Made(e))
    BY <2>1, <2>3 DEF PathInv, Behind
  <2>7. ASSUME NEW i \in 1..Len(dirent')
        PROVE  Precedes(dirent'[i], Made(e))
    <3>1. dirent'[i] \in Path /\ IsPrefix(EventDir, dirent'[i])
      BY <1>4, <1>5
    <3>2. IsPrefix(Made(e), Made(e))
      BY <2>5, PrefixOrder
    <3> QED
      BY <1>1, <2>4, <2>5, <3>1, <3>2, EarlierBelow DEF Precedes
  <2> QED
    BY <1>4, <2>2, <2>6, <2>7
<1> QED
  BY <1>3, <1>6, <1>7, <1>8 DEF PathInv

\* A new instance begins with the path of the directory being handled.
LEMMA ResettingPath ==
  ASSUME WatchInv, WatchInv', PathInv, resetting
  PROVE  /\ PathInv'
         /\ Len(avpath) \in Nat \ {0} /\ Len(dirent') = Len(avpath) + 1
         /\ Len(dirent'[Len(dirent')]) = Len(avpath)
<1>1. /\ npc = "adding" /\ npc' = "start" /\ nextwd' = 1
      /\ queue' = <<>> /\ evtbuf' = <<>> /\ exists' = exists /\ here' = here
      /\ dirent' = [i \in 1..(Len(avpath) + 1) |-> SubSeq(avpath, 1, i - 1)]
  BY DEF resetting, wvars
<1>2. avpath \in exists /\ avpath \in Path /\ Len(avpath) > 0
  BY <1>1 DEF PathInv, InTree, WatchInv, Tree, Path
<1>3. PICK m \in Nat \ {0} : m = Len(avpath)
  BY <1>2 DEF Path
<1>4. /\ Len(dirent') = m + 1
      /\ \A i \in 1..(m + 1) : dirent'[i] = SubSeq(avpath, 1, i - 1)
  BY <1>1, <1>3
<1>5. ASSUME NEW i \in 1..(m + 1)
      PROVE  /\ SubSeq(avpath, 1, i - 1) \in Path
             /\ Len(SubSeq(avpath, 1, i - 1)) = i - 1
  BY <1>2, <1>3 DEF Path
<1>6. SubSeq(avpath, 1, m) = avpath
  BY <1>2, <1>3 DEF Path
<1>7. ASSUME NEW i \in 1..(m + 1)
      PROVE  SubSeq(avpath, 1, i - 1) \in exists
  <2>1. CASE i = m + 1
    <3>1. i - 1 = m
      BY <2>1
    <3> QED
      BY <3>1, <1>2, <1>6
  <2>2. CASE i # m + 1
    <3>1. i - 1 \in 0..(Len(avpath) - 1)
      BY <2>2, <1>3
    <3> QED
      BY <3>1, <1>2 DEF PathInv, Grown
  <2> QED
    BY <2>1, <2>2
<1>8. Len(Events') = 0 /\ Given' = {}
  BY <1>1 DEF Events, Given
<1>9. Grown'
  BY <1>1 DEF PathInv, Grown, Children
<1>10. InTree'
  BY <1>1, <1>4, <1>7, <1>8 DEF InTree
<1>11. Ordered'
  <2>1. ASSUME NEW i \in 1..(m + 1), NEW j \in 1..(m + 1), i < j
        PROVE  ~IsPrefix(SubSeq(avpath, 1, j - 1), SubSeq(avpath, 1, i - 1))
    <3>1. ~(Len(SubSeq(avpath, 1, j - 1)) <= Len(SubSeq(avpath, 1, i - 1)))
      BY <1>5, <2>1
    <3>2. /\ SubSeq(avpath, 1, j - 1) \in Path
          /\ SubSeq(avpath, 1, i - 1) \in Path
      BY <1>5
    <3> QED
      BY <3>1, <3>2, <1>5, PrefixOrder
  <2>2. ASSUME NEW i \in 1..Len(dirent'), NEW j \in 1..Len(dirent'), i < j
        PROVE  ~IsPrefix(dirent'[j], dirent'[i])
    BY <1>4, <2>1, <2>2
  <2> QED
    BY <1>8, <2>2 DEF Ordered
<1>12. Latest' /\ Arriving' /\ Behind'
  BY <1>1, <1>8 DEF Latest, Arriving, Behind
<1>13. Len(dirent'[Len(dirent')]) = m
  BY <1>3, <1>4, <1>6
<1> QED
  BY <1>3, <1>4, <1>9, <1>10, <1>11, <1>12, <1>13 DEF PathInv

\* Nothing but events without directories is added.
LEMMA OtherPath ==
  ASSUME WatchInv, WatchInv', PathInv,
         UNCHANGED <<exists, here, nextwd, wdirs, curdir, dirent, avpath>>,
         npc' \in {"start", "adding"} => npc' = npc,
         npc' # "start" => npc # "start",
         Len(Events) <= Len(Events'),
         \A j \in 1..Len(Events) : Events'[j] = Events[j],
         \A j \in (Len(Events) + 1)..Len(Events') : ~Events'[j].isdir
  PROVE  PathInv'
<1>1. /\ Len(Events) \in Nat /\ Len(Events') \in Nat
      /\ \A j \in 1..Len(Events) : Events[j] \in EventSet
  <2>1. Len(Events') \in Nat
    <3>1. evtbuf' \in Seq(EventSet') /\ queue' \in Seq(EventSet')
      BY DEF WatchInv, Numbers
    <3> QED
      BY <3>1 DEF Events
  <2> QED
    BY <2>1, EventsAre DEF WatchInv
<1>2. \A j \in 1..Len(Events') : Events'[j].isdir =>
        j \in 1..Len(Events) /\ Events'[j] = Events[j] /\ Events[j].isdir
  BY <1>1
<1>3. ASSUME NEW j \in 1..Len(Events)
      PROVE  Made(Events[j])' = Made(Events[j])
  BY DEF Made, getwdir
<1>4. Grown' /\ InTree' /\ Ordered' /\ Latest'
  BY DEF PathInv, Grown, Children, InTree, Ordered, Latest, Given, getwdir
<1>5. Arriving'
  <2> SUFFICES ASSUME NEW j \in 1..Len(Events'), Events'[j].isdir
               PROVE  /\ Events'[j].name \in Nat /\ Made(Events[j])' \in exists
                      /\ \A k \in (j + 1)..Len(Events') : Events'[k].isdir =>
                           Earlier(Made(Events[j])', Made(Events[k])')
    BY DEF Arriving
  <2>1. j \in 1..Len(Events) /\ Events'[j] = Events[j] /\ Events[j].isdir
    BY <1>2
  <2>2. ASSUME NEW k \in (j + 1)..Len(Events'), Events'[k].isdir
        PROVE  Earlier(Made(Events[j])', Made(Events[k])')
    <3>1. k \in 1..Len(Events) /\ k \in (j + 1)..Len(Events) /\ Events[k].isdir
      BY <1>1, <1>2, <2>1, <2>2
    <3>2. Earlier(Made(Events[j]), Made(Events[k]))
      BY <2>1, <3>1 DEF PathInv, Arriving
    <3> QED
      BY <2>1, <3>1, <3>2, <1>3
  <2> QED
    BY <2>1, <2>2, <1>3 DEF PathInv, Arriving
<1>6. Behind'
  <2> SUFFICES ASSUME NEW j \in 1..Len(Events'), Events'[j].isdir
               PROVE  /\ \A w \in Given :
                           Precedes(getwdir(w), Made(Events[j])')
                      /\ \A i \in 1..Len(dirent) :
                           Precedes(dirent[i], Made(Events[j])')
    BY DEF Behind, Given, getwdir
  <2> QED
    BY <1>2, <1>3 DEF PathInv, Behind
<1> QED
  BY <1>4, <1>5, <1>6 DEF PathInv

\* A directory is made.  If the one it is in is watched, no directory that an
\* earlier event tells of can be above it.
LEMMA MkdirPath ==
  ASSUME WatchInv, WatchInv', PathInv, mkdir
  PROVE  PathInv'
<1>1. /\ here' \notin exists /\ exists' = exists \union {here'}
      /\ Grown'
      /\ \E p \in exists, x \in Nat :
           here' = Append(p, x) /\ Post(p, TRUE, x)
  BY MkdirGrows DEF PathInv
<1>2. PICK p \in exists, x \in Nat : here' = Append(p, x) /\ Post(p, TRUE, x)
  BY <1>1
<1>3. exists \subseteq Path /\ Numbers /\ Numbers'
  BY DEF WatchInv, Tree, Path
<1>4. PICK q \in Path : q = here'
  BY <1>2, <1>3, PrefixOfAppend
<1>5. UNCHANGED <<nextwd, wdirs, curdir, dirent, avpath, npc, evtbuf,
                  watches>>
  BY DEF mkdir
<1>6. Given' = Given /\ \A w \in Given : getwdir(w)' = getwdir(w)
  BY <1>5 DEF Given, getwdir
<1>7. InTree' /\ Ordered' /\ Latest'
  BY <1>1, <1>5, <1>6 DEF PathInv, InTree, Ordered, Latest
<1>8. ASSUME NEW c \in exists
      PROVE  Precedes(c, q)
  <2>1. IsPrefix(c, q) \/ Earlier(c, q)
    BY <1>1, <1>4 DEF Grown
  <2>2. c # q /\ c \in Path
    BY <1>1, <1>3, <1>4
  <2> QED
    BY <2>1, <2>2, PrefixOrder DEF Precedes
<1>9. ASSUME NEW e \in EventSet
      PROVE  Made(e)' = Made(e)
  BY <1>5 DEF Made, getwdir
<1>10. /\ Len(Events) \in Nat
       /\ \A j \in 1..Len(Events) : Events[j] \in EventSet
  BY <1>3, EventsAre
<1>11. \/ ~Watched(p) /\ Events' = Events
       \/ \E w \in DOMAIN watches :
            /\ watches[w] = p
            /\ Len(Events') = Len(Events) + 1
            /\ \A j \in 1..Len(Events) : Events'[j] = Events[j]
            /\ Events'[Len(Events) + 1] =
                 [wd |-> w, isdir |-> TRUE, name |-> x]
  <2>1. CASE ~Watched(p)
    BY <2>1, <1>2, <1>5 DEF Post, Events
  <2>2. CASE Watched(p)
    <3>1. PICK w \in DOMAIN watches :
            /\ watches[w] = p
            /\ queue' = Append(queue, [wd |-> w, isdir |-> TRUE, name |-> x])
      BY <2>2, <1>2, WatchedFacts DEF Post
    <3>2. [wd |-> w, isdir |-> TRUE, name |-> x] \in EventSet
      BY <1>3 DEF EventSet, Numbers
    <3>3. evtbuf' = evtbuf
      BY <1>5
    <3> QED
      BY <1>3, <3>1, <3>2, <3>3, EventPosted
  <2> QED
    BY <2>1, <2>2
<1>12. CASE Events' = Events
  <2>1. \A j \in 1..Len(Events') :
          j + 0 \in 1..Len(Events) /\ Events'[j] = Events[j + 0]
    BY <1>10, <1>12
  <2>2. Arriving'
    BY <1>1, <1>3, <1>5, <2>1, ArrivingKept DEF PathInv
  <2>3. Behind'
    <3> SUFFICES ASSUME NEW j \in 1..Len(Events), Events[j].isdir
                 PROVE  /\ \A w \in Given :
                             Precedes(getwdir(w), Made(Events[j])')
                        /\ \A i \in 1..Len(dirent) :
                             Precedes(dirent[i], Made(Events[j])')
      BY <1>5, <1>6, <1>12 DEF Behind
    <3>1. Made(Events[j])' = Made(Events[j])
      BY <1>5, <1>12 DEF Made, getwdir
    <3> QED
      BY <3>1 DEF PathInv, Behind
  <2> QED
    BY <1>1, <1>7, <2>2, <2>3 DEF PathInv
<1>13. CASE Events' # Events
  <2>1. PICK w \in DOMAIN watches :
          /\ watches[w] = p
          /\ Len(Events') = Len(Events) + 1
          /\ \A j \in 1..Len(Events) : Events'[j] = Events[j]
          /\ Events'[Len(Events) + 1] = [wd |-> w, isdir |-> TRUE, name |-> x]
    BY <1>11, <1>13
  <2>2. PICK n \in Nat : n = Len(Events)
    BY <1>10
  <2>3. getwdir(w) = p /\ w \in Given
    BY <1>3, <2>1 DEF WatchInv, NamesWatched, Numbers, Given
  <2>4. Made(Events[n + 1])' = q /\ Events'[n + 1].name = x
    <3>1. Events'[n + 1].wd = w /\ Events'[n + 1].name = x
      BY <2>1, <2>2
    <3>2. getwdir(w)' = p
      BY <2>3, <1>6
    <3>3. Made(Events[n + 1])' = Append(getwdir(w)', x)
      BY <3>1 DEF Made, getwdir
    <3> QED
      BY <3>1, <3>2, <3>3, <1>2, <1>4
  <2>5. ASSUME NEW j \in 1..n
        PROVE  /\ Events'[j] = Events[j]
               /\ Made(Events[j])' = Made(Events[j])
    <3>1. Events'[j] = Events[j]
      BY <2>1, <2>2
    <3> QED
      BY <3>1, <1>5 DEF Made, getwdir
  <2>6. ASSUME NEW j \in 1..n, Events[j].isdir
        PROVE  Earlier(Made(Events[j]), q)
    <3>1. /\ Made(Events[j]) \in exists /\ Made(Events[j]) \in Path
          /\ Precedes(getwdir(w), Made(Events[j]))
      BY <1>3, <2>2, <2>3, <2>6 DEF PathInv, Arriving, Behind
    <3>2. PICK d \in exists : d = Made(Events[j])
      BY <3>1
    <3>3. Precedes(p, d) /\ d \in Path /\ p \in Path
      BY <1>3, <2>3, <3>1, <3>2
    <3>4. IsPrefix(d, q) => IsPrefix(d, p)
      <4>1. IsPrefix(d, q) => IsPrefix(d, p) \/ d = q
        BY <1>2, <1>4, <3>3, PrefixOfAppend
      <4> QED
        BY <4>1, <1>1, <1>4
    <3>5. ~IsPrefix(d, p)
      BY <3>3, PrefixOrder, PrecedesExcludes
    <3>6. IsPrefix(d, q) \/ Earlier(d, q)
      BY <1>1, <1>4 DEF Grown
    <3> QED
      BY <3>2, <3>4, <3>5, <3>6
  <2>7. Arriving'
    <3> SUFFICES ASSUME NEW j \in 1..(n + 1), Events'[j].isdir
                 PROVE  /\ Events'[j].name \in Nat
                        /\ Made(Events[j])' \in exists'
                        /\ \A k \in (j + 1)..(n + 1) : Events'[k].isdir =>
                             Earlier(Made(Events[j])', Made(Events[k])')
      BY <2>1, <2>2 DEF Arriving
    <3>1. CASE j = n + 1
      BY <3>1, <2>4, <1>1, <1>4
    <3>2. CASE j \in 1..n
      <4>1. /\ Events'[j] = Events[j] /\ Events[j].isdir
            /\ Made(Events[j])' = Made(Events[j])
        BY <3>2, <2>5
      <4>2. Events[j].name \in Nat /\ Made(Events[j]) \in exists
        BY <4>1, <3>2, <2>2 DEF PathInv, Arriving
      <4>3. ASSUME NEW k \in (j + 1)..(n + 1), Events'[k].isdir
            PROVE  Earlier(Made(Events[j])', Made(Events[k])')
        <5>1. CASE k = n + 1
          BY <5>1, <4>1, <2>4, <2>6, <3>2
        <5>2. CASE k \in (j + 1)..n
          <6>1. k \in 1..n /\ Events[k].isdir
            BY <5>2, <4>3, <3>2, <2>5
          <6>2. Earlier(Made(Events[j]), Made(Events[k]))
            BY <6>1, <5>2, <4>1, <3>2, <2>2 DEF PathInv, Arriving
          <6> QED
            BY <6>1, <6>2, <4>1, <2>5
        <5> QED
          BY <5>1, <5>2, <3>2
      <4> QED
        BY <4>1, <4>2, <4>3, <1>1
    <3> QED
      BY <3>1, <3>2
  <2>8. Behind'
    <3> SUFFICES ASSUME NEW j \in 1..(n + 1), Events'[j].isdir
                 PROVE  /\ \A v \in Given :
                             Precedes(getwdir(v), Made(Events[j])')
                        /\ \A i \in 1..Len(dirent) :
                             Precedes(dirent[i], Made(Events[j])')
      BY <1>5, <1>6, <2>1, <2>2 DEF Behind
    <3>1. CASE j = n + 1
      BY <3>1, <2>4, <1>8 DEF PathInv, InTree
    <3>2. CASE j \in 1..n
      BY <3>2, <2>2, <2>5 DEF PathInv, Behind
    <3> QED
      BY <3>1, <3>2
  <2> QED
    BY <1>1, <1>7, <2>7, <2>8 DEF PathInv
<1> QED
  BY <1>12, <1>13

LEMMA PathInit == NInit => PathInv
<1> SUFFICES ASSUME NInit
             PROVE  PathInv
  OBVIOUS
<1>1. WatchInv
  BY WatchInit
<1>2. /\ exists \in {{<<>>}, {<<>>, <<1>>}} /\ here \in exists
      /\ \A d \in exists : d = <<>> \/ d = <<1>>
      /\ \A d \in exists : Len(d) <= Len(here)
      /\ dirent \in {<<<<>>>>, <<<<>>, here>>} /\ IsInjective(dirent)
  BY Zenon DEF NInit, topdir
<1>3. /\ <<>> \in Path /\ Len(<<>>) = 0 /\ <<1>> \in Path /\ Len(<<1>>) = 1
      /\ <<1>>[1] = 1 /\ SubSeq(<<1>>, 1, 0) = <<>>
      /\ <<>> # <<1>>
  BY DEF Path
<1>4. IsPrefix(<<>>, <<1>>) /\ ~IsPrefix(<<1>>, <<>>)
      /\ IsPrefix(<<>>, <<>>) /\ IsPrefix(<<1>>, <<1>>)
  <2>1. 0 <= 1 /\ ~(1 <= 0) /\ 1..0 = {}
    OBVIOUS
  <2>2. IsPrefix(<<>>, <<1>>)
    BY <1>3, <2>1, PrefixIs
  <2>3. ~IsPrefix(<<1>>, <<>>)
    BY <1>3, <2>1, PrefixIs
  <2> QED
    BY <1>3, <2>2, <2>3, PrefixOrder
<1>5. Grown
  <2>1. ASSUME NEW d \in exists, NEW n \in 0..(Len(d) - 1)
        PROVE  /\ SubSeq(d, 1, n) \in exists
               /\ d[n + 1] <= Cardinality(Children(SubSeq(d, 1, n)))
    <3>1. d = <<1>> /\ n = 0
      <4>1. 0..(0 - 1) = {} /\ \A i \in 0..(1 - 1) : i = 0
        OBVIOUS
      <4>2. d # <<>>
        BY <1>3, <2>1, <4>1, Zenon
      <4>3. d = <<1>>
        BY <1>2, <4>2
      <4> QED
        BY <1>3, <2>1, <4>1, <4>3, Zenon
    <3>2. <<>> \in exists
      BY <1>2
    <3>3. <<1>> \in Children(<<>>) /\ Children(<<>>) \subseteq exists
      BY <1>3, <1>4, <3>1 DEF Children
    <3>4. IsFiniteSet(Children(<<>>))
      BY <1>1, <3>3, FS_Subset DEF WatchInv, Tree
    <3>5. /\ Cardinality(Children(<<>>)) \in Nat
          /\ Cardinality(Children(<<>>)) # 0
      BY <3>3, <3>4, FS_CardinalityType, FS_EmptySet
    <3>6. 1 <= Cardinality(Children(<<>>))
      BY <3>5
    <3>7. 0 + 1 = 1
      OBVIOUS
    <3> QED
      BY <1>3, <3>1, <3>2, <3>6, <3>7, Zenon
  <2>2. ASSUME NEW d \in exists
        PROVE  IsPrefix(d, here)
    <3>1. CASE d = <<>>
      BY <3>1, <1>2, <1>4
    <3>2. CASE d = <<1>>
      <4>1. here # <<>>
        <5>1. ~(1 <= 0)
          OBVIOUS
        <5> QED
          BY <5>1, <3>2, <1>2, <1>3, Zenon
      <4>2. here = <<1>>
        BY <4>1, <1>2
      <4> QED
        BY <3>2, <4>2, <1>4
    <3> QED
      BY <3>1, <3>2, <1>2
  <2> QED
    BY <2>1, <2>2 DEF Grown
<1>6. nextwd = 1 /\ npc = "start" /\ evtbuf = <<>> /\ queue = <<>>
  BY DEF NInit
<1>7. Given = {} /\ Len(Events) = 0
  BY <1>6 DEF Given, Events
<1>8. /\ \A i \in 1..Len(dirent) : dirent[i] \in exists
      /\ \A i, j \in 1..Len(dirent) : i < j => ~IsPrefix(dirent[j], dirent[i])
  <2>1. CASE dirent = <<<<>>>>
    <3>1. Len(dirent) = 1 /\ dirent[1] = <<>>
      BY <2>1
    <3>2. \A i \in 1..1 : i = 1
      OBVIOUS
    <3> QED
      BY <3>1, <3>2, <1>2
  <2>2. CASE dirent = <<<<>>, here>>
    <3>1. /\ Len(dirent) = 2 /\ dirent[1] = <<>> /\ dirent[2] = here
          /\ DOMAIN dirent = 1..2
      BY <2>2
    <3>2. here = <<1>>
      <4>1. here # <<>>
        BY <1>2, <3>1 DEF IsInjective
      <4> QED
        BY <4>1, <1>2
    <3>3. \A i, j \in 1..2 : i < j => i = 1 /\ j = 2
      OBVIOUS
    <3>4. \A i \in 1..2 : i = 1 \/ i = 2
      OBVIOUS
    <3> QED
      BY <3>1, <3>2, <3>3, <3>4, <1>2, <1>4
  <2> QED
    BY <1>2, <2>1, <2>2
<1> QED
  BY <1>5, <1>6, <1>7, <1>8
  DEF PathInv, InTree, Ordered, Latest, Arriving, Behind

LEMMA PathStep ==
  ASSUME WatchInv, WatchInv', PathInv, [NNext]_nvars
  PROVE  PathInv'
<1>1. /\ Numbers /\ Numbers'
      /\ evtbuf \in Seq(EventSet) /\ queue \in Seq(EventSet)
  BY DEF WatchInv, Numbers
<1>2. /\ Len(Events) \in Nat
      /\ \A j \in 1..Len(Events) : Events[j] \in EventSet
  BY <1>1, EventsAre
<1>3. ASSUME UNCHANGED <<exists, here, nextwd, wdirs, curdir, dirent, avpath>>,
             npc' \in {"start", "adding"} => npc' = npc,
             npc' # "start" => npc # "start", Events' = Events
      PROVE  PathInv'
  <2>1. /\ Len(Events) <= Len(Events')
        /\ \A j \in 1..Len(Events) : Events'[j] = Events[j]
        /\ \A j \in (Len(Events) + 1)..Len(Events') : ~Events'[j].isdir
    BY <1>2, <1>3
  <2> QED
    BY <1>3, <2>1, OtherPath
<1>4. CASE UNCHANGED nvars \/ remove_file
  BY <1>3, <1>4 DEF remove_file, nvars, wvars, ivars, rmvars, Events
<1>5. CASE mkdir
  BY <1>5, MkdirPath
<1>6. CASE close_file
  <2>1. PICK d \in exists, n \in Names : Post(d, FALSE, n)
    BY <1>6 DEF close_file
  <2>2. /\ UNCHANGED <<exists, here, nextwd, wdirs, curdir, dirent, avpath,
                       npc>>
        /\ evtbuf' = evtbuf
    BY <1>6 DEF close_file
  <2>3. CASE ~Watched(d)
    <3>1. Events' = Events
      BY <2>1, <2>2, <2>3 DEF Post, Events
    <3> QED
      BY <1>3, <2>2, <3>1
  <2>4. CASE Watched(d)
    <3>1. PICK w \in DOMAIN watches :
            queue' = Append(queue, [wd |-> w, isdir |-> FALSE, name |-> n])
      BY <2>1, <2>4, WatchedFacts DEF Post
    <3>2. PICK e \in EventSet : queue' = Append(queue, e) /\ ~e.isdir
      <4>1. [wd |-> w, isdir |-> FALSE, name |-> n] \in EventSet
        BY <1>1 DEF EventSet, Numbers
      <4> QED
        BY <3>1, <4>1
    <3>3. /\ Len(Events') = Len(Events) + 1
          /\ \A j \in 1..Len(Events) : Events'[j] = Events[j]
          /\ Events'[Len(Events) + 1] = e
      BY <1>1, <2>2, <3>2, EventPosted
    <3>4. /\ Len(Events) <= Len(Events')
          /\ \A j \in (Len(Events) + 1)..Len(Events') : ~Events'[j].isdir
      BY <1>2, <3>2, <3>3
    <3> QED
      BY <2>2, <3>3, <3>4, OtherPath
  <2> QED
    BY <2>3, <2>4
<1>7. CASE start
  <2>1. dirent # <<>> /\ add_watch(Head(dirent)) /\ dirent' = Tail(dirent)
        /\ UNCHANGED <<wvars, queue, evtbuf, avpath>> /\ npc' # "adding"
    BY <1>7 DEF start, WatchInv, Places
  <2>2. nextwd <= MAX_DIRS
    <3>1. dirent \in Seq(Path)
      BY DEF WatchInv, Places
    <3>2. PICK m \in Nat \ {0} : m = Len(dirent)
      BY <2>1, <3>1
    <3>3. nextwd \in Nat /\ nextwd + m <= MaxDepth + 2
      BY <1>1, <1>7, <3>2 DEF start, WatchInv, InTime, Numbers
    <3> QED
      BY <3>3, NotifyAssumption
  <2> QED
    BY <2>1, <2>2, AddedPath
<1>8. CASE read_events
  <2>1. evtbuf = <<>> /\ evtbuf' = queue /\ queue' = <<>>
    BY <1>8 DEF read_events, WatchInv, Places
  <2>2. Events' = Events
    BY <1>1, <2>1 DEF Events
  <2> QED
    BY <1>3, <1>8, <2>2 DEF read_events, wvars
<1>9. CASE disappeared \/ same_file \/ announce
  <2>1. /\ npc = "event" /\ evtbuf' = Tail(evtbuf) /\ queue' = queue
        /\ npc' = AfterEvent(evtbuf')
        /\ UNCHANGED <<wvars, nextwd, wdirs, curdir, dirent>>
    BY <1>9 DEF disappeared, same_file, announce, ivars
  <2>2. npc' \notin {"start", "adding"}
    BY <2>1 DEF AfterEvent
  <2> QED
    BY <2>1, <2>2, HandledPath
<1>10. CASE new_directory
  BY <1>10, NewDirectoryPath
<1>11. CASE watch_directory
  <2>1. npc = "adding" /\ add_watch(Head(dirent)) /\ dirent' = Tail(dirent)
        /\ UNCHANGED <<wvars, queue, evtbuf, avpath>>
        /\ dirent # <<>> /\ ~(curdir > MAX_DIRS - 1)
    BY <1>11 DEF watch_directory, WatchInv, Places, IS_EXHAUST
  <2>2. nextwd <= MAX_DIRS
    <3>1. /\ curdir \in 0..MAX_DIRS /\ nextwd \in 1..(MAX_DIRS + 1)
          /\ MAX_DIRS \in Nat
      BY <1>1, NotifyAssumption DEF Numbers
    <3>2. nextwd = MAX_DIRS + 1 => curdir = MAX_DIRS
      BY <2>1 DEF WatchInv, InTime
    <3> QED
      BY <2>1, <3>1, <3>2
  <2> QED
    BY <2>1, <2>2, AddedPath
<1>12. CASE resetting
  BY <1>12, ResettingPath
<1> QED
  BY <1>4, <1>5, <1>6, <1>7, <1>8, <1>9, <1>10, <1>11, <1>12
  DEF NNext, Writer, Notifier

-----------------------------------------------------------------------------
(* The ring of the directories left.                                       *)

\* The directories found below a new one are at most B.
WalksWithin(B) == npc = "adding" => Len(dirent) <= B

Kept == 0..(MAX_KEEPDIR - 1)

\* The numbers and their ring in the types of the instance.
LEMMA RingNumbers ==
  ASSUME Numbers
  PROVE  /\ nextwd \in Nat \ {0} /\ nextwd \in Nat
         /\ curdir \in 0..MAX_DIRS
         /\ qrmdir \in [Kept -> 0..MAX_DIRS]
         /\ \A i \in Kept : qrmdir[i] \in Nat
         /\ MAX_DIRS \in Nat /\ MaxDepth \in Nat \ {0} /\ MaxDepth \in Nat
         /\ MAX_KEEPDIR \in Nat \ {0} /\ MAX_KEEPDIR \in Nat
<1>1. /\ MAX_DIRS \in Nat /\ MaxDepth \in Nat \ {0}
      /\ MAX_KEEPDIR \in Nat \ {0}
  BY NotifyAssumption
<1>2. nextwd \in 1..(MAX_DIRS + 1) /\ curdir \in 0..MAX_DIRS
  BY DEF Numbers
<1>3. qrmdir \in [Kept -> 0..MAX_DIRS]
  BY DEF Numbers, Kept
<1>4. nextwd \in Nat \ {0}
  BY <1>1, <1>2
<1>5. \A i \in Kept : qrmdir[i] \in Nat
  BY <1>1, <1>3
<1> QED
  BY <1>1, <1>2, <1>3, <1>4, <1>5

\* How many directories are left before the number at i is used.
Age(i) == IF i >= curqrmd THEN i - curqrmd ELSE i - curqrmd + MAX_KEEPDIR

\* The number at i is one of this instance.
Own(i) == qrmdir[i] \in Given

\* The most numbers that can have been given out since the last directory
\* was left: B for each level gone down.
Reach(B) == IF npc = "adding" THEN Len(avpath) * B - Len(dirent)
            ELSE IF npc = "astray" THEN MaxDepth * B
            ELSE Len(getwdir(curdir)) * B

\* What an instance begins with: no number that it will give out soon is in
\* the ring, and it watches the path of one directory.
FreshRing(B) ==
  /\ \A i \in Kept : qrmdir[i] = 0
                     \/ qrmdir[i] >= 2 + MAX_KEEPDIR * (MaxDepth * B)
  /\ DOMAIN watches = Given
  /\ nextwd + Len(dirent) <= Len(dirent[Len(dirent)]) + 2

\* The directories in the ring are not on the path to the newest one; their
\* numbers are near, and those of the former instance far.
LeftOnes == \A i \in Kept : Own(i) => ~IsPrefix(getwdir(qrmdir[i]), here)
Near(B) ==
  \A i \in Kept : Own(i) =>
    nextwd - 1 - qrmdir[i]
      <= (MAX_KEEPDIR - 1 - Age(i)) * (MaxDepth * B) + Reach(B)
Far(B) ==
  \A i \in Kept : ~Own(i) =>
    \/ qrmdir[i] = 0
    \/ qrmdir[i] >= nextwd + (Age(i) + 1) * (MaxDepth * B) - Reach(B)

\* They were left in the order of their numbers.
InOrder ==
  /\ \A i, j \in Kept : Own(i) /\ Age(i) < Age(j) =>
       Own(j) /\ qrmdir[i] < qrmdir[j]
  /\ npc \in {"select", "event"} => \A i \in Kept : qrmdir[i] # curdir

\* What is no longer watched is older than all of them.
GivenUp ==
  \A w \in Given \ DOMAIN watches :
    /\ ~IsPrefix(getwdir(w), here)
    /\ \A i \in Kept : Own(i) /\ qrmdir[i] > w

FullRing(B) == LeftOnes /\ Near(B) /\ Far(B) /\ InOrder /\ GivenUp

RingInv(B) == IF npc = "start" THEN FreshRing(B) ELSE FullRing(B)

LEMMA Products ==
  ASSUME NEW S \in Nat, NEW a \in Nat, NEW b \in Nat
  PROVE  /\ a * S \in Nat /\ (a + 1) * S = a * S + S
         /\ a <= b => a * S <= b * S
         /\ 0 * S = 0 /\ 1 * S = S
<1>1. a * S \in Nat /\ (a + 1) * S = a * S + S /\ 0 * S = 0 /\ 1 * S = S
  OBVIOUS
<1>2. a <= b => a * S <= b * S
  OBVIOUS
<1> QED
  BY <1>1, <1>2

LEMMA AgeRange ==
  ASSUME Numbers
  PROVE  /\ \A i \in Kept : Age(i) \in 0..(MAX_KEEPDIR - 1)
         /\ \A i \in Kept : Age(i) = 0 <=> i = curqrmd
         /\ curqrmd \in Kept
<1>1. MAX_KEEPDIR \in Nat \ {0} /\ curqrmd \in 0..(MAX_KEEPDIR - 1)
  BY NotifyAssumption DEF Numbers
<1> QED
  BY <1>1 DEF Age, Kept

LEMMA ReachRange ==
  ASSUME WatchInv, PathInv, npc # "start",
         NEW B \in Nat \ {0}, WalksWithin(B)
  PROVE  /\ MaxDepth * B \in Nat
         /\ Reach(B) \in 0..(MaxDepth * B)
         /\ npc = "adding" => Reach(B) < MaxDepth * B
         /\ curdir = nextwd - 1 /\ curdir \in Given
         /\ Len(getwdir(curdir)) \in 0..MaxDepth
         /\ Reach(B) >= 0
<1>1. MaxDepth \in Nat \ {0} /\ nextwd \in Nat /\ nextwd > 1
      /\ exists \subseteq Path
  <2>1. exists \subseteq Path
    BY DEF WatchInv, Tree, Path
  <2>2. nextwd \in Nat
    BY NotifyAssumption DEF WatchInv, Numbers
  <2> QED
    BY <2>1, <2>2, NotifyAssumption DEF PathInv, Latest
<1>2. curdir = nextwd - 1 /\ curdir \in Given
  BY <1>1 DEF PathInv, Latest, Given
<1>3. Len(getwdir(curdir)) \in 0..MaxDepth
  <2>1. getwdir(curdir) \in exists
    BY <1>2 DEF PathInv, InTree
  <2>2. Len(getwdir(curdir)) \in Nat
    BY <1>1, <2>1 DEF Path
  <2> QED
    BY <2>1, <2>2, <1>1 DEF WatchInv, Tree
<1>4. ASSUME NEW a \in 0..MaxDepth
      PROVE  a * B \in 0..(MaxDepth * B)
  BY <1>1, Products
<1>5. MaxDepth * B \in Nat
  BY <1>1, Products
<1>6. CASE npc = "adding"
  <2>1. PICK n \in Nat \ {0} : n = Len(dirent)
    <3>1. dirent # <<>> /\ dirent \in Seq(Path)
      BY <1>6 DEF WatchInv, Places
    <3> QED
      BY <3>1
  <2>2. n <= B
    BY <1>6, <2>1 DEF WalksWithin
  <2>3. PICK a \in 1..MaxDepth : a = Len(avpath)
    <3>1. avpath \in exists /\ Len(avpath) > 0
      BY <1>6 DEF PathInv, InTree
    <3>2. Len(avpath) \in Nat /\ Len(avpath) <= MaxDepth
      BY <3>1, <1>1 DEF WatchInv, Tree, Path
    <3> QED
      BY <3>1, <3>2
  <2>4. B <= a * B /\ a * B \in 0..(MaxDepth * B)
    <3>1. 1 * B <= a * B /\ 1 * B = B
      BY <1>1, Products
    <3> QED
      BY <3>1, <1>4
  <2>5. Reach(B) = a * B - n
    BY <1>6, <2>1, <2>3 DEF Reach
  <2> QED
    BY <1>2, <1>3, <1>5, <2>1, <2>2, <2>4, <2>5
<1>7. CASE npc = "astray"
  BY <1>2, <1>3, <1>5, <1>7 DEF Reach
<1>8. CASE npc \notin {"adding", "astray"}
  BY <1>2, <1>3, <1>4, <1>5, <1>8 DEF Reach
<1> QED
  BY <1>6, <1>7, <1>8

\* Steps that leave the ring alone.
LEMMA RingSame ==
  ASSUME NEW B \in Nat \ {0}, WatchInv, FullRing(B), Reach(B)' = Reach(B),
         npc' # "start",
         npc' \in {"select", "event"} => npc \in {"select", "event"},
         UNCHANGED <<qrmdir, curqrmd, nextwd, curdir, watches, wdirs>>,
         \A w \in Given :
           IsPrefix(getwdir(w), here') => IsPrefix(getwdir(w), here)
  PROVE  RingInv(B)'
<1>1. /\ Given' = Given /\ \A w \in Given : getwdir(w)' = getwdir(w)
      /\ \A i \in Kept : /\ Own(i)' = Own(i) /\ Age(i)' = Age(i)
                         /\ qrmdir'[i] = qrmdir[i]
  BY DEF Given, getwdir, Own, Age
<1>2. LeftOnes'
  BY <1>1 DEF FullRing, LeftOnes, Own, getwdir
<1>3. Near(B)' /\ Far(B)' /\ InOrder'
  BY <1>1 DEF FullRing, Near, Far, InOrder
<1>4. GivenUp'
  BY <1>1 DEF FullRing, GivenUp, getwdir
<1> QED
  BY <1>2, <1>3, <1>4 DEF RingInv, FullRing

LEMMA ReachRangeNext ==
  ASSUME NEW B \in Nat \ {0}
  PROVE  WatchInv' /\ PathInv' /\ npc' # "start" /\ WalksWithin(B)'
           => Reach(B)' \in 0..(MaxDepth * B)
<1>1. WatchInv /\ PathInv /\ npc # "start" /\ WalksWithin(B)
        => Reach(B) \in 0..(MaxDepth * B)
  BY ReachRange
<1>2. (WatchInv /\ PathInv /\ npc # "start" /\ WalksWithin(B)
         => Reach(B) \in 0..(MaxDepth * B))'
  BY <1>1, PTL
<1> QED
  BY <1>2

\* A new directory in the current one: the reach grows by a level.
LEMMA StayRing ==
  ASSUME NEW B \in Nat \ {0}, WatchInv, PathInv, WatchInv', PathInv',
         FullRing(B), WalksWithin(B), WalksWithin(B)',
         new_directory, ~Leaves(Event.wd)
  PROVE  RingInv(B)'
<1>1. /\ npc = "event" /\ npc' \in {"astray", "adding"} /\ avpath' = EventDir
      /\ UNCHANGED <<qrmdir, curqrmd, nextwd, curdir, watches, wdirs, here>>
  BY DEF new_directory, rmvars, wvars
<1>2. /\ Len(EventDir) = Len(getwdir(curdir)) + 1 /\ Event.wd = curdir
  BY NewDirectoryFacts DEF Leaves
<1>3. Reach(B) \in 0..(MaxDepth * B) /\ MaxDepth * B \in Nat
      /\ Len(getwdir(curdir)) \in 0..MaxDepth
  BY <1>1, ReachRange
<1>4. Reach(B)' \in 0..(MaxDepth * B)
  BY <1>1, ReachRangeNext
<1>5. Reach(B) <= Reach(B)'
  <2>1. CASE npc' = "astray"
    BY <1>3, <2>1 DEF Reach
  <2>2. CASE npc' = "adding"
    <3>1. PICK a \in Nat : a = Len(getwdir(curdir))
      BY <1>3
    <3>2. Reach(B) = a * B /\ Reach(B)' = (a + 1) * B - Len(dirent')
      BY <1>1, <1>2, <2>2, <3>1 DEF Reach
    <3>3. Len(dirent') <= B /\ Len(dirent') \in Nat
      <4>1. dirent' \in Seq(Path)
        BY DEF WatchInv, Places
      <4> QED
        BY <2>2, <4>1 DEF WalksWithin
    <3>4. (a + 1) * B = a * B + B /\ a * B \in Nat
      BY Products
    <3> QED
      BY <3>2, <3>3, <3>4
  <2> QED
    BY <1>1, <2>1, <2>2
<1>6. /\ Given' = Given /\ \A w \in Given : getwdir(w)' = getwdir(w)
      /\ \A i \in Kept : /\ Own(i)' = Own(i) /\ Age(i)' = Age(i)
                         /\ qrmdir'[i] = qrmdir[i]
  BY <1>1 DEF Given, getwdir, Own, Age
<1>7. /\ \A i \in Kept : Age(i) \in 0..(MAX_KEEPDIR - 1)
      /\ MAX_KEEPDIR \in Nat /\ nextwd \in Nat
      /\ \A i \in Kept : qrmdir[i] \in Nat
  <2>1. \A i \in Kept : Age(i) \in 0..(MAX_KEEPDIR - 1)
    BY AgeRange DEF WatchInv
  <2>2. nextwd \in Nat /\ qrmdir \in [Kept -> 0..MAX_DIRS]
        /\ MAX_KEEPDIR \in Nat /\ MAX_DIRS \in Nat
    BY RingNumbers DEF WatchInv
  <2> QED
    BY <2>1, <2>2
<1>8. LeftOnes' /\ GivenUp'
  BY <1>1, <1>6 DEF FullRing, LeftOnes, GivenUp, Own, getwdir
<1>9. InOrder'
  BY <1>1, <1>6 DEF FullRing, InOrder
<1>10. PICK r \in Nat, s \in Nat : r = Reach(B) /\ s = Reach(B)'
  BY <1>3, <1>4
<1>11. /\ nextwd \in Nat /\ \A i \in Kept : qrmdir[i] \in Nat
       /\ r <= s
  BY <1>7, <1>7, <1>5, <1>10
<1>12. Near(B)'
  <2> SUFFICES ASSUME NEW i \in Kept, Own(i)
               PROVE  nextwd - 1 - qrmdir[i]
                 <= (MAX_KEEPDIR - 1 - Age(i)) * (MaxDepth * B) + Reach(B)'
    BY <1>1, <1>6 DEF Near
  <2>1. nextwd - 1 - qrmdir[i]
          <= (MAX_KEEPDIR - 1 - Age(i)) * (MaxDepth * B) + Reach(B)
    BY DEF FullRing, Near
  <2>2. PICK P \in Nat : P = (MAX_KEEPDIR - 1 - Age(i)) * (MaxDepth * B)
    BY <1>3, <1>7, Products
  <2>3. nextwd - 1 - qrmdir[i] <= P + r
    BY <2>1, <2>2, <1>10, Zenon
  <2>4. nextwd - 1 - qrmdir[i] <= P + s
    BY <2>3, <1>10, <1>11
  <2> QED
    BY <2>2, <2>4, <1>10, Zenon
<1>13. Far(B)'
  <2> SUFFICES ASSUME NEW i \in Kept, ~Own(i), qrmdir[i] # 0
               PROVE  qrmdir[i] >= nextwd + (Age(i) + 1) * (MaxDepth * B)
                                     - Reach(B)'
    BY <1>1, <1>6 DEF Far
  <2>1. qrmdir[i] >= nextwd + (Age(i) + 1) * (MaxDepth * B) - Reach(B)
    BY DEF FullRing, Far
  <2>2. PICK P \in Nat : P = (Age(i) + 1) * (MaxDepth * B)
    BY <1>3, <1>7, Products
  <2>3. qrmdir[i] >= nextwd + P - r
    BY <2>1, <2>2, <1>10, Zenon
  <2>4. qrmdir[i] >= nextwd + P - s
    BY <2>3, <1>10, <1>11
  <2> QED
    BY <2>2, <2>4, <1>10, Zenon
<1> QED
  BY <1>1, <1>8, <1>9, <1>12, <1>13 DEF RingInv, FullRing

\* The ring turns: every number is one step older, the new one the youngest.
LEMMA Turned ==
  ASSUME Numbers, curqrmd' = Next_qrmd(curqrmd)
  PROVE  /\ Age(curqrmd) = 0 /\ curqrmd \in Kept
         /\ \A i \in Kept : i # curqrmd => Age(i)' = Age(i) - 1 /\ Age(i) > 0
         /\ \A i \in Kept : i = curqrmd => Age(i)' = MAX_KEEPDIR - 1
         /\ \A i \in Kept : Age(i)' \in 0..(MAX_KEEPDIR - 1)
                            /\ Age(i) \in 0..(MAX_KEEPDIR - 1)
<1>1. MAX_KEEPDIR \in Nat \ {0} /\ curqrmd \in 0..(MAX_KEEPDIR - 1)
  BY NotifyAssumption DEF Numbers
<1>2. curqrmd' = IF curqrmd = MAX_KEEPDIR - 1 THEN 0 ELSE curqrmd + 1
  BY <1>1 DEF Next_qrmd
<1> QED
  BY <1>1, <1>2 DEF Age, Kept

\* A new directory above the current one, which is left.
LEMMA LeaveRing ==
  ASSUME NEW B \in Nat \ {0}, WatchInv, PathInv, WatchInv', PathInv',
         FullRing(B), WalksWithin(B), WalksWithin(B)',
         new_directory, Leaves(Event.wd)
  PROVE  RingInv(B)'
<1>1. /\ npc = "event" /\ npc' \in {"astray", "adding"} /\ rm_watch(curdir)
      /\ UNCHANGED <<nextwd, curdir, wdirs, here>>
  BY DEF new_directory, wvars
<1>2. /\ EventDir \in exists /\ EventDir \in Path
      /\ EventDir = Append(getwdir(Event.wd), Event.name)
      /\ Event.wd \in Given
      /\ \A w \in Given : Precedes(getwdir(w), EventDir)
      /\ Event.wd # curdir
  BY NewDirectoryFacts DEF Leaves, EventDir
<1>3. /\ Reach(B) \in 0..(MaxDepth * B) /\ MaxDepth * B \in Nat
      /\ curdir = nextwd - 1 /\ curdir \in Given
  BY <1>1, ReachRange
<1>4. Reach(B)' \in 0..(MaxDepth * B)
  BY <1>1, ReachRangeNext
<1>5. ~IsPrefix(getwdir(curdir), here)
  <2>10. \A w \in Given : getwdir(w) \in Path
    BY DEF PathInv, InTree, WatchInv, Tree, Path
  <2>1. PICK p \in Path : p = getwdir(Event.wd)
    BY <1>2, <2>10
  <2>2. PICK c \in Path : c = getwdir(curdir)
    BY <1>3, <2>10
  <2>3. ~IsPrefix(c, p)
    <3>1. Event.wd < curdir
      <4>1. nextwd \in Nat
        BY RingNumbers DEF WatchInv
      <4> QED
        BY <4>1, <1>2, <1>3 DEF Given
    <3> QED
      BY <3>1, <1>2, <1>3, <2>1, <2>2 DEF PathInv, Ordered
  <2>4. Event.name \in Nat
    <3>1. EventDir \in Path /\ getwdir(Event.wd) \in Path
      BY <1>2, <2>1
    <3>2. Numbers /\ evtbuf # <<>> /\ Event.isdir
      BY <1>1 DEF WatchInv, Places, new_directory
    <3>3. 1 \in 1..Len(Events) /\ Events[1] = Event
      <4>1. evtbuf \in Seq(EventSet) /\ queue \in Seq(EventSet)
        BY <3>2 DEF Numbers
      <4>2. PICK m \in Nat \ {0} : m = Len(evtbuf)
        BY <3>2, <4>1
      <4>3. Events[1] = evtbuf[1] /\ evtbuf[1] = Head(evtbuf)
        BY <4>1, <4>2 DEF Events
      <4>4. Len(Events) = m + Len(queue) /\ Len(queue) \in Nat
        BY <3>2, <4>1, <4>2, EventsAre
      <4> QED
        BY <4>3, <4>4 DEF Event
    <3> QED
      BY <3>2, <3>3 DEF PathInv, Arriving
  <2>5. IsPrefix(c, EventDir) => c = EventDir
    BY <1>2, <2>1, <2>3, <2>4, PrefixOfAppend
  <2>6. Precedes(c, EventDir)
    BY <1>2, <1>3, <2>2
  <2>7. Earlier(c, EventDir)
    <3>1. Len(EventDir) \in Nat
      BY <1>2 DEF Path
    <3>2. c = EventDir => ~(Len(c) < Len(EventDir))
      BY <3>1
    <3> QED
      BY <2>5, <2>6, <3>2 DEF Precedes
  <2>8. IsPrefix(EventDir, here) \/ Earlier(EventDir, here)
    BY <1>2 DEF PathInv, Grown
  <2>9. here \in Path
    BY DEF WatchInv, Tree, Path
  <2> QED
    BY <1>2, <2>2, <2>7, <2>8, <2>9, LeftBehind
<1>6. /\ Age(curqrmd) = 0 /\ curqrmd \in Kept
      /\ \A i \in Kept : i # curqrmd => Age(i)' = Age(i) - 1 /\ Age(i) > 0
      /\ \A i \in Kept : i = curqrmd => Age(i)' = MAX_KEEPDIR - 1
      /\ \A i \in Kept : Age(i)' \in 0..(MAX_KEEPDIR - 1)
                         /\ Age(i) \in 0..(MAX_KEEPDIR - 1)
  BY <1>1, Turned DEF WatchInv, rm_watch
<1>7. /\ MAX_KEEPDIR \in Nat \ {0} /\ nextwd \in Nat
      /\ \A i \in Kept : qrmdir[i] \in Nat
      /\ qrmdir \in [Kept -> 0..MAX_DIRS] /\ MAX_DIRS \in Nat
  BY RingNumbers DEF WatchInv
<1>8. /\ \A i \in Kept : qrmdir'[i] = IF i = curqrmd THEN curdir ELSE qrmdir[i]
      /\ DOMAIN watches' = DOMAIN watches \ {qrmdir[curqrmd]}
  BY <1>1, <1>6, <1>7 DEF rm_watch, Unwatch
<1>9. /\ Given' = Given /\ \A w \in Given : getwdir(w)' = getwdir(w)
      /\ \A i \in Kept : i # curqrmd => (Own(i)' <=> Own(i))
      /\ \A i \in Kept : i = curqrmd => Own(i)'
      /\ \A w \in Given : w <= curdir
  BY <1>1, <1>3, <1>7, <1>8 DEF Given, getwdir, Own
<1>10. \A i \in Kept : qrmdir[i] # curdir
  BY <1>1 DEF FullRing, InOrder
<1>11. LeftOnes'
  <2> SUFFICES ASSUME NEW i \in Kept, Own(i)'
               PROVE  ~IsPrefix(wdirs[qrmdir'[i] % MAX_DIRS], here)
    BY <1>1 DEF LeftOnes, getwdir
  <2>1. CASE i = curqrmd
    BY <2>1, <1>5, <1>8 DEF getwdir
  <2>2. CASE i # curqrmd
    BY <2>2, <1>8, <1>9 DEF FullRing, LeftOnes, getwdir
  <2> QED
    BY <2>1, <2>2
<1>12. Near(B)'
  <2> SUFFICES ASSUME NEW i \in Kept, Own(i)'
               PROVE  nextwd - 1 - qrmdir'[i]
                 <= (MAX_KEEPDIR - 1 - Age(i)') * (MaxDepth * B) + Reach(B)'
    BY <1>1 DEF Near
  <2>1. CASE i = curqrmd
    <3>1. (MAX_KEEPDIR - 1 - Age(i)') * (MaxDepth * B) = 0
      <4>1. MAX_KEEPDIR - 1 - Age(i)' = 0
        BY <2>1, <1>6, <1>7
      <4> QED
        BY <4>1, <1>3, Products
    <3> QED
      BY <2>1, <3>1, <1>3, <1>4, <1>7, <1>8
  <2>2. CASE i # curqrmd
    <3>1. PICK a \in Nat : a = MAX_KEEPDIR - 1 - Age(i)
      BY <1>6, <1>7
    <3>2. MAX_KEEPDIR - 1 - Age(i)' = a + 1
      BY <2>2, <3>1, <1>6, <1>7
    <3>3. nextwd - 1 - qrmdir[i] <= a * (MaxDepth * B) + Reach(B)
      BY <2>2, <3>1, <1>9 DEF FullRing, Near
    <3>4. (a + 1) * (MaxDepth * B) = a * (MaxDepth * B) + MaxDepth * B
          /\ a * (MaxDepth * B) \in Nat
      BY <1>3, Products
    <3>5. nextwd - 1 - qrmdir[i] <= (a + 1) * (MaxDepth * B) + Reach(B)'
      BY <3>3, <3>4, <1>3, <1>4, <1>7
    <3> QED
      BY <2>2, <3>2, <3>5, <1>8
  <2> QED
    BY <2>1, <2>2
<1>13. Far(B)'
  <2> SUFFICES ASSUME NEW i \in Kept, ~Own(i)', qrmdir'[i] # 0
               PROVE  qrmdir'[i] >= nextwd + (Age(i)' + 1) * (MaxDepth * B)
                                      - Reach(B)'
    BY <1>1 DEF Far
  <2>1. i # curqrmd /\ qrmdir'[i] = qrmdir[i] /\ ~Own(i)
    BY <1>8, <1>9
  <2>2. PICK a \in Nat : a = Age(i) /\ Age(i)' = a - 1
    BY <2>1, <1>6
  <2>3. qrmdir[i] >= nextwd + (a + 1) * (MaxDepth * B) - Reach(B)
    BY <2>1, <2>2 DEF FullRing, Far
  <2>4. (a + 1) * (MaxDepth * B) = a * (MaxDepth * B) + MaxDepth * B
        /\ a * (MaxDepth * B) \in Nat
    BY <1>3, Products
  <2>5. qrmdir[i] >= nextwd + a * (MaxDepth * B) - Reach(B)'
    BY <2>3, <2>4, <1>3, <1>4, <1>7
  <2>6. Age(i)' + 1 = a
    BY <2>2
  <2> QED
    BY <2>1, <2>5, <2>6
<1>14. InOrder'
  <2> SUFFICES ASSUME NEW i \in Kept, NEW j \in Kept, Own(i)', Age(i)' < Age(j)'
               PROVE  Own(j)' /\ qrmdir'[i] < qrmdir'[j]
    BY <1>1 DEF InOrder
  <2>1. i # curqrmd
    BY <1>6, <1>7
  <2>2. Own(i) /\ qrmdir'[i] = qrmdir[i]
    BY <2>1, <1>8, <1>9
  <2>3. CASE j = curqrmd
    <3>1. qrmdir[i] \in Given /\ qrmdir[i] # curdir
      BY <2>2, <1>10 DEF Own
    <3> QED
      BY <2>2, <2>3, <3>1, <1>3, <1>7, <1>8, <1>9 DEF Given
  <2>4. CASE j # curqrmd
    <3>1. Age(i) < Age(j)
      BY <2>1, <2>4, <1>6
    <3> QED
      BY <2>2, <2>4, <3>1, <1>8, <1>9 DEF FullRing, InOrder
  <2> QED
    BY <2>3, <2>4
<1>15. GivenUp'
  <2> SUFFICES ASSUME NEW w \in Given, w \notin DOMAIN watches'
               PROVE  /\ ~IsPrefix(getwdir(w), here)
                      /\ \A i \in Kept : Own(i)' /\ qrmdir'[i] > w
    BY <1>1, <1>9 DEF GivenUp, getwdir
  <2>1. CASE w \notin DOMAIN watches
    <3>1. ~IsPrefix(getwdir(w), here) /\ \A i \in Kept : Own(i) /\ qrmdir[i] > w
      BY <2>1 DEF FullRing, GivenUp
    <3>2. curdir > w
      BY <3>1, <1>3, <1>6, <1>7, <1>9 DEF Own, Given
    <3> QED
      BY <3>1, <3>2, <1>8, <1>9
  <2>2. CASE w \in DOMAIN watches
    <3>1. w = qrmdir[curqrmd] /\ Own(curqrmd)
      BY <2>2, <1>8 DEF Own
    <3>2. ~IsPrefix(getwdir(w), here)
      BY <3>1, <1>6 DEF FullRing, LeftOnes
    <3>3. ASSUME NEW i \in Kept, i # curqrmd
          PROVE  Own(i) /\ qrmdir[i] > w
      <4>1. Age(curqrmd) < Age(i)
        BY <3>3, <1>6
      <4>2. Own(i) /\ qrmdir[curqrmd] < qrmdir[i]
        BY <3>1, <4>1, <1>6 DEF FullRing, InOrder
      <4> QED
        BY <3>1, <4>2, <1>6, <1>7
    <3>4. curdir > w
      BY <3>1, <1>3, <1>6, <1>7, <1>9, <1>10 DEF Given
    <3> QED
      BY <3>2, <3>3, <3>4, <1>8, <1>9
  <2> QED
    BY <2>1, <2>2
<1> QED
  BY <1>1, <1>11, <1>12, <1>13, <1>14, <1>15 DEF RingInv, FullRing

\* A directory is watched: a number more, and a directory less to come.
LEMMA AddRing ==
  ASSUME NEW B \in Nat \ {0}, WatchInv, PathInv, WatchInv', PathInv',
         FullRing(B), WalksWithin(B), WalksWithin(B)', watch_directory
  PROVE  RingInv(B)'
<1>1. /\ npc = "adding" /\ npc' \in {"adding", "event", "select"}
      /\ dirent # <<>> /\ add_watch(Head(dirent)) /\ dirent' = Tail(dirent)
      /\ npc' = (IF dirent' = <<>> THEN AfterEvent(evtbuf) ELSE "adding")
      /\ UNCHANGED <<qrmdir, curqrmd, avpath, here>>
      /\ ~(curdir > MAX_DIRS - 1)
  BY DEF watch_directory, rmvars, wvars, AfterEvent, WatchInv, Places,
         IS_EXHAUST
<1>2. nextwd \in 1..MAX_DIRS
  <2>1. /\ curdir \in 0..MAX_DIRS /\ nextwd \in 1..(MAX_DIRS + 1)
        /\ MAX_DIRS \in Nat
    BY NotifyAssumption DEF WatchInv, Numbers
  <2>2. nextwd = MAX_DIRS + 1 => curdir = MAX_DIRS
    BY <1>1 DEF WatchInv, InTime
  <2> QED
    BY <1>1, <2>1, <2>2
<1>3. /\ nextwd' = nextwd + 1 /\ curdir' = nextwd
      /\ DOMAIN watches' = DOMAIN watches \union {nextwd}
      /\ wdirs'[nextwd % MAX_DIRS] = dirent[1]
      /\ \A w \in Given : wdirs'[w % MAX_DIRS] = wdirs[w % MAX_DIRS]
  <2>1. nextwd <= MAX_DIRS
    BY <1>2, NotifyAssumption
  <2> QED
    BY <1>1, <2>1, NewNumber DEF PathInv
<1>4. /\ Reach(B) \in 0..(MaxDepth * B) /\ MaxDepth * B \in Nat
      /\ Reach(B) < MaxDepth * B
  BY <1>1, ReachRange
<1>5. Reach(B)' \in 0..(MaxDepth * B)
  BY <1>1, ReachRangeNext
<1>6. Reach(B)' >= Reach(B) + 1
  <2>1. dirent \in Seq(Path) /\ avpath \in Path
    BY DEF WatchInv, Places
  <2>2. PICK n \in Nat \ {0} : n = Len(dirent)
    BY <1>1, <2>1
  <2>3. Len(dirent') = n - 1
    BY <1>1, <2>1, <2>2
  <2>4. PICK a \in Nat : a = Len(avpath)
    BY <2>1 DEF Path
  <2>5. Reach(B) = a * B - n /\ a * B \in Nat
    BY <1>1, <2>2, <2>4, Products DEF Reach
  <2>6. CASE npc' = "adding"
    <3>1. Reach(B)' = a * B - (n - 1)
      BY <1>1, <2>3, <2>4, <2>6 DEF Reach
    <3> QED
      BY <3>1, <2>5
  <2>7. CASE npc' # "adding"
    <3>1. Reach(B)' = Len(dirent[1]) * B
      BY <1>1, <1>3, <2>7 DEF Reach, getwdir
    <3>2. IsPrefix(avpath, dirent[1]) /\ dirent[1] \in Path
      BY <1>1, <2>1, <2>2 DEF PathInv, InTree
    <3>3. a <= Len(dirent[1]) /\ Len(dirent[1]) \in Nat
      BY <2>1, <2>4, <3>2, PrefixOrder DEF Path
    <3>4. a * B <= Len(dirent[1]) * B /\ Len(dirent[1]) * B \in Nat
      BY <3>3, Products
    <3> QED
      BY <2>5, <3>1, <3>4
  <2> QED
    BY <2>6, <2>7
<1>7. /\ \A i \in Kept : Age(i) \in 0..(MAX_KEEPDIR - 1)
      /\ MAX_KEEPDIR \in Nat /\ \A i \in Kept : qrmdir[i] \in Nat
  <2>1. \A i \in Kept : Age(i) \in 0..(MAX_KEEPDIR - 1)
    BY AgeRange DEF WatchInv
  <2>2. qrmdir \in [Kept -> 0..MAX_DIRS] /\ MAX_KEEPDIR \in Nat
        /\ MAX_DIRS \in Nat
    BY RingNumbers DEF WatchInv
  <2> QED
    BY <2>1, <2>2
<1>8. \A i \in Kept : qrmdir[i] # nextwd
  <2> SUFFICES ASSUME NEW i \in Kept, qrmdir[i] = nextwd
               PROVE  FALSE
    OBVIOUS
  <2>1. ~Own(i) /\ nextwd # 0
    BY <1>2 DEF Own, Given
  <2>2. nextwd >= nextwd + (Age(i) + 1) * (MaxDepth * B) - Reach(B)
    BY <2>1 DEF FullRing, Far
  <2>3. PICK a \in Nat : a = Age(i)
    BY <1>7
  <2>4. (a + 1) * (MaxDepth * B) = a * (MaxDepth * B) + MaxDepth * B
        /\ a * (MaxDepth * B) \in Nat
    BY <1>4, Products
  <2> QED
    BY <2>2, <2>3, <2>4, <1>2, <1>4
<1>9. /\ Given' = Given \union {nextwd}
      /\ \A w \in Given : getwdir(w)' = getwdir(w)
      /\ \A i \in Kept : /\ (Own(i)' <=> Own(i)) /\ Age(i)' = Age(i)
                         /\ qrmdir'[i] = qrmdir[i]
  <2>1. Given' = Given \union {nextwd}
    BY <1>2, <1>3 DEF Given
  <2> QED
    BY <1>1, <1>3, <1>8, <2>1 DEF getwdir, Own, Age
<1>10. LeftOnes'
  BY <1>1, <1>9 DEF FullRing, LeftOnes, Own, getwdir
<1>11. PICK r \in Nat, s \in Nat : r = Reach(B) /\ s = Reach(B)'
  BY <1>4, <1>5
<1>12. /\ nextwd \in Nat /\ \A i \in Kept : qrmdir[i] \in Nat
       /\ r + 1 <= s
  BY <1>2, <1>7, <1>6, <1>11, NotifyAssumption
<1>13. Near(B)'
  <2> SUFFICES ASSUME NEW i \in Kept, Own(i)
               PROVE  (nextwd + 1) - 1 - qrmdir[i]
                 <= (MAX_KEEPDIR - 1 - Age(i)) * (MaxDepth * B) + Reach(B)'
    BY <1>3, <1>9 DEF Near
  <2>1. nextwd - 1 - qrmdir[i]
          <= (MAX_KEEPDIR - 1 - Age(i)) * (MaxDepth * B) + Reach(B)
    BY DEF FullRing, Near
  <2>2. PICK P \in Nat : P = (MAX_KEEPDIR - 1 - Age(i)) * (MaxDepth * B)
    BY <1>4, <1>7, Products
  <2>3. nextwd - 1 - qrmdir[i] <= P + r
    BY <2>1, <2>2, <1>11, Zenon
  <2>4. (nextwd + 1) - 1 - qrmdir[i] <= P + s
    BY <2>3, <1>11, <1>12
  <2> QED
    BY <2>2, <2>4, <1>11, Zenon
<1>14. Far(B)'
  <2> SUFFICES ASSUME NEW i \in Kept, ~Own(i), qrmdir[i] # 0
               PROVE  qrmdir[i] >= (nextwd + 1)
                        + (Age(i) + 1) * (MaxDepth * B) - Reach(B)'
    BY <1>3, <1>9 DEF Far
  <2>1. qrmdir[i] >= nextwd + (Age(i) + 1) * (MaxDepth * B) - Reach(B)
    BY DEF FullRing, Far
  <2>2. PICK P \in Nat : P = (Age(i) + 1) * (MaxDepth * B)
    BY <1>4, <1>7, Products
  <2>3. qrmdir[i] >= nextwd + P - r
    BY <2>1, <2>2, <1>11, Zenon
  <2>4. qrmdir[i] >= (nextwd + 1) + P - s
    BY <2>3, <1>11, <1>12
  <2> QED
    BY <2>2, <2>4, <1>11, Zenon
<1>15. InOrder'
  BY <1>3, <1>8, <1>9 DEF FullRing, InOrder
<1>16. GivenUp'
  <2> SUFFICES ASSUME NEW w \in Given', w \notin DOMAIN watches'
               PROVE  /\ ~IsPrefix(wdirs'[w % MAX_DIRS], here)
                      /\ \A i \in Kept : Own(i)' /\ qrmdir'[i] > w
    BY <1>1 DEF GivenUp, getwdir
  <2>1. w \in Given /\ w \notin DOMAIN watches
    BY <1>3, <1>9
  <2> QED
    BY <2>1, <1>3, <1>9 DEF FullRing, GivenUp, getwdir
<1> QED
  BY <1>1, <1>10, <1>13, <1>14, <1>15, <1>16 DEF RingInv, FullRing

\* A new instance comes when the ring holds no low numbers any more.
LEMMA ResetRing ==
  ASSUME NEW B \in Nat \ {0}, WatchInv, PathInv, WatchInv', PathInv',
         MAX_DIRS > 2 * MAX_KEEPDIR * MaxDepth * B,
         FullRing(B), WalksWithin(B), resetting
  PROVE  RingInv(B)'
<1>1. /\ npc = "adding" /\ npc' = "start" /\ nextwd' = 1 /\ DOMAIN watches' = {}
      /\ qrmdir' = qrmdir /\ curdir > MAX_DIRS - 1
  BY DEF resetting, IS_EXHAUST
<1>2. /\ Len(avpath) \in Nat \ {0} /\ Len(dirent') = Len(avpath) + 1
      /\ Len(dirent'[Len(dirent')]) = Len(avpath)
  BY ResettingPath
<1>3. /\ Reach(B) \in 0..(MaxDepth * B) /\ MaxDepth * B \in Nat
      /\ Reach(B) < MaxDepth * B /\ curdir = nextwd - 1
  BY <1>1, ReachRange
<1>4. /\ MAX_DIRS \in Nat /\ MAX_KEEPDIR \in Nat \ {0} /\ MaxDepth \in Nat
      /\ nextwd \in Nat /\ curdir \in 0..MAX_DIRS
      /\ qrmdir \in [Kept -> 0..MAX_DIRS]
  BY RingNumbers DEF WatchInv
<1>5. nextwd = MAX_DIRS + 1
  BY <1>1, <1>3, <1>4
<1>6. PICK S \in Nat : S = MaxDepth * B
  BY <1>3
<1>7. PICK KS \in Nat : KS = MAX_KEEPDIR * S
  BY <1>4, <1>6, Products
<1>8. MAX_DIRS > KS + KS
  <2>1. 2 * MAX_KEEPDIR * MaxDepth * B = 2 * (MAX_KEEPDIR * (MaxDepth * B))
    BY <1>4
  <2>2. 2 * MAX_KEEPDIR * MaxDepth * B = 2 * KS
    BY <2>1, <1>6, <1>7
  <2> QED
    BY <2>2, <1>4
<1>9. ASSUME NEW i \in Kept
      PROVE  qrmdir[i] = 0 \/ qrmdir[i] >= 2 + KS
  <2>1. Age(i) \in 0..(MAX_KEEPDIR - 1) /\ qrmdir[i] \in 0..MAX_DIRS
    BY <1>4, AgeRange DEF WatchInv
  <2>2. CASE Own(i)
    <3>1. nextwd - 1 - qrmdir[i]
            <= (MAX_KEEPDIR - 1 - Age(i)) * (MaxDepth * B) + Reach(B)
      BY <2>2 DEF FullRing, Near
    <3>2. PICK a \in Nat : a = MAX_KEEPDIR - 1 - Age(i)
      BY <2>1, <1>4
    <3>3. a + 1 <= MAX_KEEPDIR
      BY <3>2, <2>1, <1>4
    <3>4. (a + 1) * S <= KS /\ (a + 1) * S = a * S + S /\ a * S \in Nat
      BY <3>3, <1>4, <1>7, Products
    <3>5. MAX_DIRS - qrmdir[i] <= a * S + Reach(B)
      <4>1. nextwd - 1 - qrmdir[i] <= a * S + Reach(B)
        BY <3>1, <3>2, <1>6, Zenon
      <4> QED
        BY <4>1, <1>5, <2>1, <1>4
    <3> QED
      BY <3>4, <3>5, <2>1, <1>3, <1>4, <1>6, <1>8
  <2>3. CASE ~Own(i)
    BY <2>1, <2>3, <1>4, <1>5 DEF Own, Given
  <2> QED
    BY <2>2, <2>3
<1>10. Given' = {}
  BY <1>1 DEF Given
<1>11. FreshRing(B)'
  BY <1>1, <1>2, <1>6, <1>7, <1>9, <1>10 DEF FreshRing
<1> QED
  BY <1>1, <1>11 DEF RingInv

\* The path of a new instance is watched.
LEMMA StartRing ==
  ASSUME NEW B \in Nat \ {0}, WatchInv, PathInv, WatchInv', PathInv',
         FreshRing(B), start
  PROVE  RingInv(B)'
<1>1. /\ npc = "start" /\ npc' \in {"start", "select"}
      /\ dirent # <<>> /\ add_watch(Head(dirent)) /\ dirent' = Tail(dirent)
      /\ npc' = (IF dirent' = <<>> THEN "select" ELSE "start")
      /\ UNCHANGED <<qrmdir, curqrmd, here>>
  BY DEF start, rmvars, wvars, WatchInv, Places
<1>2. PICK n \in Nat \ {0} : n = Len(dirent)
  BY <1>1 DEF WatchInv, Places
<1>3. /\ Len(dirent') = n - 1
      /\ \A i \in 1..(n - 1) : dirent'[i] = dirent[i + 1]
      /\ dirent' = <<>> <=> n = 1
  <2>1. dirent \in Seq(Path)
    BY DEF WatchInv, Places
  <2>2. /\ dirent' \in Seq(Path) /\ Len(dirent') = n - 1
        /\ \A i \in 1..(n - 1) : dirent'[i] = dirent[i + 1]
    BY <1>1, <1>2, <2>1
  <2>3. dirent' = <<>> <=> Len(dirent') = 0
    BY <2>2
  <2> QED
    BY <1>2, <2>2, <2>3
<1>4. /\ nextwd \in Nat \ {0} /\ MAX_DIRS \in Nat /\ MaxDepth \in Nat \ {0}
      /\ MAX_KEEPDIR \in Nat \ {0}
      /\ qrmdir \in [Kept -> 0..MAX_DIRS]
  BY RingNumbers DEF WatchInv
<1>5. nextwd <= MAX_DIRS
  BY <1>1, <1>2, <1>4, NotifyAssumption DEF WatchInv, InTime
<1>6. /\ nextwd' = nextwd + 1 /\ curdir' = nextwd
      /\ DOMAIN watches' = DOMAIN watches \union {nextwd}
      /\ wdirs'[nextwd % MAX_DIRS] = dirent[1]
  BY <1>1, <1>5, NewNumber DEF PathInv
<1>7. Given' = Given \union {nextwd}
  BY <1>4, <1>6 DEF Given
<1>8. DOMAIN watches' = Given'
  BY <1>6, <1>7 DEF FreshRing
<1>9. PICK a \in Nat : a = Len(dirent[n]) /\ a <= MaxDepth
  <2>1. dirent[n] \in exists
    BY <1>2 DEF PathInv, InTree
  <2>2. Len(dirent[n]) \in Nat /\ Len(dirent[n]) <= MaxDepth
    BY <2>1 DEF WatchInv, Tree
  <2> QED
    BY <2>2
<1>10. nextwd + n <= a + 2
  BY <1>2, <1>9 DEF FreshRing
<1>11. PICK S \in Nat : S = MaxDepth * B
  BY <1>4, Products
<1>12. PICK KS \in Nat : KS = MAX_KEEPDIR * S
  BY <1>4, <1>11, Products
<1>13. \A i \in Kept : qrmdir[i] \in Nat
                        /\ (qrmdir[i] = 0 \/ qrmdir[i] >= 2 + KS)
  BY <1>4, <1>11, <1>12 DEF FreshRing
<1>14. CASE npc' = "start"
  <2>1. n # 1 /\ dirent'[n - 1] = dirent[n]
    BY <1>1, <1>3, <1>14
  <2>2. nextwd' + Len(dirent') <= Len(dirent'[Len(dirent')]) + 2
    BY <2>1, <1>3, <1>4, <1>6, <1>9, <1>10
  <2>3. FreshRing(B)'
    BY <2>2, <1>1, <1>8, <1>11, <1>12, <1>13 DEF FreshRing
  <2> QED
    BY <2>3, <1>14 DEF RingInv
<1>15. CASE npc' = "select"
  <2>1. n = 1
    BY <1>1, <1>3, <1>15
  <2>2. Reach(B)' = a * B
    BY <2>1, <1>6, <1>9, <1>15 DEF Reach, getwdir
  <2>3. a <= a * B /\ a * B \in Nat /\ a <= S /\ S <= KS
    <3>1. a * 1 <= a * B /\ a * 1 = a
      BY <1>9
    <3>2. a * B \in Nat
      BY Products
    <3>3. MaxDepth * 1 <= MaxDepth * B /\ MaxDepth * 1 = MaxDepth
      BY <1>4
    <3>4. 1 * S <= MAX_KEEPDIR * S /\ 1 * S = S
      BY <1>4, Products
    <3> QED
      BY <3>1, <3>2, <3>3, <3>4, <1>4, <1>9, <1>11, <1>12
  <2>4. \A i \in Kept : ~Own(i)' /\ qrmdir'[i] # nextwd
    <3>1. \A i \in Kept : qrmdir[i] \notin 1..nextwd
      BY <2>1, <2>3, <1>4, <1>10, <1>13
    <3> QED
      BY <3>1, <1>1, <1>4, <1>6 DEF Own, Given
  <2>5. Far(B)'
    <3> SUFFICES ASSUME NEW i \in Kept, qrmdir[i] # 0
                 PROVE  qrmdir[i] >= nextwd' + (Age(i)' + 1) * S - a * B
      BY <2>2, <1>1, <1>11 DEF Far
    <3>1. Age(i)' = Age(i) /\ Age(i) \in 0..(MAX_KEEPDIR - 1)
      BY <1>1, AgeRange DEF Age, WatchInv
    <3>2. PICK g \in Nat : g = Age(i)' + 1 /\ g <= MAX_KEEPDIR
      BY <3>1, <1>4
    <3>3. g * S <= KS /\ g * S \in Nat
      BY <3>2, <1>4, <1>12, Products
    <3> QED
      BY <3>2, <3>3, <2>1, <2>3, <1>4, <1>6, <1>10, <1>13
  <2>6. LeftOnes' /\ Near(B)' /\ InOrder'
    BY <2>4, <1>6 DEF LeftOnes, Near, InOrder
  <2>7. GivenUp'
    BY <1>8 DEF GivenUp
  <2> QED
    BY <2>5, <2>6, <2>7, <1>15 DEF RingInv, FullRing
<1> QED
  BY <1>1, <1>14, <1>15

LEMMA RingInit ==
  ASSUME NEW B \in Nat \ {0}, NInit
  PROVE  RingInv(B)
<1>1. /\ npc = "start" /\ qrmdir = [i \in Kept |-> 0] /\ nextwd = 1
      /\ watches = [w \in {} |-> topdir]
      /\ exists \in {{<<>>}, {<<>>, <<1>>}} /\ here \in exists
      /\ dirent \in {<<<<>>>>, <<<<>>, here>>} /\ IsInjective(dirent)
  BY Zenon DEF NInit, topdir, Kept
<1>2. DOMAIN watches = Given
  BY <1>1 DEF Given
<1>3. nextwd + Len(dirent) <= Len(dirent[Len(dirent)]) + 2
  <2>1. CASE dirent = <<<<>>>>
    <3>1. Len(dirent) = 1 /\ dirent[1] = <<>> /\ Len(<<>>) = 0
      BY <2>1
    <3>2. 1 + 1 <= 0 + 2
      OBVIOUS
    <3> QED
      BY <3>1, <3>2, <1>1
  <2>2. CASE dirent = <<<<>>, here>>
    <3>1. Len(dirent) = 2 /\ dirent[1] = <<>> /\ dirent[2] = here
          /\ DOMAIN dirent = 1..2
      BY <2>2
    <3>2. here # <<>>
      BY <1>1, <3>1 DEF IsInjective
    <3>3. here = <<1>> /\ Len(<<1>>) = 1
      BY <1>1, <3>2
    <3>4. Len(here) = 1
      BY <3>3, Zenon
    <3>5. 1 + 2 <= 1 + 2
      OBVIOUS
    <3> QED
      BY <3>1, <3>4, <3>5, <1>1
  <2> QED
    BY <1>1, <2>1, <2>2
<1>4. \A i \in Kept : qrmdir[i] = 0
  BY <1>1
<1>5. FreshRing(B)
  BY <1>2, <1>3, <1>4 DEF FreshRing
<1> QED
  BY <1>1, <1>5 DEF RingInv

LEMMA RingStep ==
  ASSUME NEW B \in Nat \ {0}, MAX_DIRS > 2 * MAX_KEEPDIR * MaxDepth * B,
         WatchInv, WatchInv', PathInv, PathInv', RingInv(B),
         WalksWithin(B), WalksWithin(B)', [NNext]_nvars
  PROVE  RingInv(B)'
<1>1. ASSUME npc = "start", npc' = "start",
             UNCHANGED <<qrmdir, watches, nextwd, dirent>>
      PROVE  RingInv(B)'
  BY <1>1 DEF RingInv, FreshRing, Given
<1>2. ASSUME npc # "start",
             UNCHANGED <<npc, avpath, dirent, qrmdir, curqrmd, nextwd, curdir,
                         watches, wdirs>>,
             \A w \in Given :
               IsPrefix(getwdir(w), here') => IsPrefix(getwdir(w), here)
      PROVE  RingInv(B)'
  <2>1. Reach(B)' = Reach(B)
    BY <1>2 DEF Reach, getwdir
  <2>2. FullRing(B)
    BY <1>2 DEF RingInv
  <2> QED
    BY <1>2, <2>1, <2>2, RingSame
<1>3. ASSUME npc \in {"select", "event"}, npc' \in {"select", "event"},
             UNCHANGED <<here, qrmdir, curqrmd, nextwd, curdir, watches, wdirs>>
      PROVE  RingInv(B)'
  <2>1. Reach(B)' = Reach(B)
    BY <1>3 DEF Reach, getwdir
  <2>2. FullRing(B)
    BY <1>3 DEF RingInv
  <2> QED
    BY <1>3, <2>1, <2>2, RingSame
<1>4. CASE mkdir
  <2>1. \A w \in Given :
          IsPrefix(getwdir(w), here') => IsPrefix(getwdir(w), here)
    BY <1>4, MkdirGrows DEF PathInv, InTree
  <2>2. UNCHANGED <<npc, avpath, dirent, qrmdir, curqrmd, nextwd, curdir,
                    watches, wdirs>>
    BY <1>4 DEF mkdir, rmvars
  <2> QED
    BY <1>1, <1>2, <2>1, <2>2
<1>5. CASE UNCHANGED nvars \/ close_file \/ remove_file
  <2>1. UNCHANGED <<here, npc, avpath, dirent, qrmdir, curqrmd, nextwd, curdir,
                    watches, wdirs>>
    BY <1>5 DEF close_file, remove_file, nvars, wvars, ivars, rmvars
  <2> QED
    BY <1>1, <1>2, <2>1
<1>6. CASE read_events \/ disappeared \/ same_file \/ announce
  <2>1. /\ npc \in {"select", "event"} /\ npc' \in {"select", "event"}
        /\ UNCHANGED <<here, qrmdir, curqrmd, nextwd, curdir, watches, wdirs>>
    BY <1>6 DEF read_events, disappeared, same_file, announce, AfterEvent,
                wvars, ivars, rmvars
  <2> QED
    BY <1>3, <2>1
<1>7. CASE new_directory
  <2>1. FullRing(B)
    BY <1>7 DEF new_directory, RingInv
  <2> QED
    BY <1>7, <2>1, StayRing, LeaveRing
<1>8. CASE watch_directory
  <2>1. FullRing(B)
    BY <1>8 DEF watch_directory, RingInv
  <2> QED
    BY <1>8, <2>1, AddRing
<1>9. CASE resetting
  <2>1. FullRing(B)
    BY <1>9 DEF resetting, RingInv
  <2> QED
    BY <1>9, <2>1, ResetRing
<1>10. CASE start
  <2>1. FreshRing(B)
    BY <1>10 DEF start, RingInv
  <2> QED
    BY <1>10, <2>1, StartRing
<1> QED
  BY <1>4, <1>5, <1>6, <1>7, <1>8, <1>9, <1>10 DEF NNext, Writer, Notifier

LEMMA RingKeeps ==
  ASSUME NEW B \in Nat \ {0}, RingInv(B)
  PROVE  PathWatched /\ GraceKept
<1> SUFFICES ASSUME npc # "start"
             PROVE  PathWatched /\ GraceKept
  BY DEF PathWatched, GraceKept
<1>1. GivenUp
  BY DEF RingInv, FullRing
<1> QED
  BY <1>1 DEF GivenUp, PathWatched, GraceKept, Given, Kept

\* If no more than B directories are ever found below a new one, and wdirs is
\* long against what MAX_KEEPDIR directories left behind can span with them,
\* the path to the newest directory stays watched, and a directory left is
\* watched until MAX_KEEPDIR later ones have been left: rm_watch gives up
\* neither too much nor too early, in an instance and from one to the next
\* (inotifylib2.c, rm_watch and reset_watch).
THEOREM PathStaysWatched ==
  ASSUME NEW B \in Nat \ {0}, MAX_DIRS > 2 * MAX_KEEPDIR * MaxDepth * B
  PROVE  NSpec /\ []WalksWithin(B) => []PathWatched /\ []GraceKept
<1> DEFINE Inv == WatchInv /\ PathInv /\ RingInv(B)
<1>1. NInit => Inv
  BY WatchInit, PathInit, RingInit
<1>2. Inv /\ WalksWithin(B) /\ WalksWithin(B)' /\ [NNext]_nvars => Inv'
  <2> SUFFICES ASSUME Inv, WalksWithin(B), WalksWithin(B)', [NNext]_nvars
               PROVE  Inv'
    OBVIOUS
  <2>1. WatchInv'
    BY WatchStep
  <2>2. PathInv'
    BY <2>1, PathStep
  <2> QED
    BY <2>1, <2>2, RingStep
<1>3. Inv => PathWatched /\ GraceKept
  BY RingKeeps
<1> QED
  BY <1>1, <1>2, <1>3, PTL DEF NSpec

\* Without sdirflag a new directory is watched alone: each level is one number.
THEOREM PathStaysWatchedAlone ==
  MAX_DIRS > 2 * MAX_KEEPDIR * MaxDepth
    => (NSpec /\ ~sdirflag => []PathWatched /\ []GraceKept)
<1> SUFFICES ASSUME MAX_DIRS > 2 * MAX_KEEPDIR * MaxDepth
             PROVE  NSpec /\ ~sdirflag => []PathWatched /\ []GraceKept
  OBVIOUS
<1> DEFINE Alone == ~sdirflag /\ WalksWithin(1)
           Inv == WatchInv /\ PathInv /\ RingInv(1)
<1>1. NInit /\ ~sdirflag => Alone
  BY DEF NInit, WalksWithin
<1>2. Alone /\ WatchInv /\ [NNext]_nvars => Alone'
  <2> SUFFICES ASSUME Alone, WatchInv, [NNext]_nvars
               PROVE  Alone'
    OBVIOUS
  <2>1. ~sdirflag'
    BY DEF NNext, Writer, Notifier, mkdir, close_file, remove_file, start,
           read_events, disappeared, new_directory, watch_directory,
           resetting, same_file, announce, nvars
  <2>2. CASE new_directory
    <3>1. npc' = "adding" => dirent' = <<avpath'>>
      BY <2>2, Zenon DEF new_directory, dirs_check
    <3>2. Len(<<avpath'>>) = 1
      OBVIOUS
    <3>3. 1 <= 1
      OBVIOUS
    <3> QED
      BY <2>1, <3>1, <3>2, <3>3, Zenon DEF WalksWithin
  <2>3. CASE watch_directory
    <3>1. dirent \in Seq(Path) /\ dirent # <<>> /\ dirent' = Tail(dirent)
          /\ npc = "adding"
      BY <2>3 DEF watch_directory, WatchInv, Places
    <3>2. PICK n \in Nat \ {0} : n = Len(dirent)
      BY <3>1
    <3>3. Len(dirent') = n - 1 /\ n <= 1
      BY <3>1, <3>2 DEF WalksWithin
    <3> QED
      BY <2>1, <3>3 DEF WalksWithin
  <2>4. CASE start \/ read_events \/ disappeared \/ same_file \/ announce
             \/ resetting
    <3>1. npc' # "adding"
      BY <2>4 DEF start, read_events, disappeared, same_file, announce,
                  resetting, AfterEvent
    <3> QED
      BY <2>1, <3>1 DEF WalksWithin
  <2>5. CASE mkdir \/ close_file \/ remove_file \/ UNCHANGED nvars
    <3>1. npc' = npc /\ dirent' = dirent
      BY <2>5 DEF mkdir, close_file, remove_file, nvars
    <3> QED
      BY <2>1, <3>1 DEF WalksWithin
  <2> QED
    BY <2>2, <2>3, <2>4, <2>5 DEF NNext, Writer, Notifier
<1>3. 1 \in Nat \ {0} /\ MAX_DIRS > 2 * MAX_KEEPDIR * MaxDepth * 1
  BY NotifyAssumption
<1>4. NInit => Inv
  BY <1>3, WatchInit, PathInit, RingInit
<1>5. Inv /\ Alone /\ Alone' /\ [NNext]_nvars => Inv'
  <2> SUFFICES ASSUME Inv, Alone, Alone', [NNext]_nvars
               PROVE  Inv'
    OBVIOUS
  <2>1. WatchInv'
    BY WatchStep
  <2>2. PathInv'
    BY <2>1, PathStep
  <2>3. RingInv(1)'
    BY <2>1, <2>2, <1>3, RingStep
  <2> QED
    BY <2>1, <2>2, <2>3
<1>6. Inv => PathWatched /\ GraceKept
  BY <1>3, RingKeeps
<1>7. Inv => WatchInv
  OBVIOUS
<1> HIDE DEF Inv, Alone
<1> QED
  BY <1>1, <1>2, <1>4, <1>5, <1>6, <1>7, PTL DEF NSpec
=============================================================================
