------------------------------- MODULE Notify -------------------------------
(***************************************************************************)
(* mynotify of inotifylib2.c: one loop that watches a tree of directories  *)
(* with inotify and calls a function for every file closed in it.  Every   *)
(* program of the repository but the clients runs this loop.               *)
(*                                                                         *)
(* A directory is the sequence of numbers on its path, <<>> the watched    *)
(* top directory.  The data is stored under the time of its creation       *)
(* (doc/jit-dt.tex: 2017-0503/00/01/): directories are made in the order   *)
(* of their paths and none is returned to for a new directory.  They are   *)
(* not removed.  The kernel's side of inotify is external.                 *)
(*                                                                         *)
(* MAX_DIRS must be large against what MAX_KEEPDIR directories left behind *)
(* span, as 2881 is against 10: reset_watch leaves the numbers of the old  *)
(* instance in qrmdir, and they must not come up again in the new one      *)
(* before they are overwritten.                                            *)
(***************************************************************************)
EXTENDS Integers, Sequences, FiniteSets, SequencesExt

CONSTANTS MAX_DIRS,     \* length of wdirs
          MAX_KEEPDIR,  \* length of qrmdir
          MAX_SUBDIRS,  \* length of dirent
          Untyped,      \* directories of which readdir gives no entry's type
          MaxDepth,     \* levels below the top directory
          MaxDirs,      \* directories ever made
          MaxTops,      \* of these, directly below the top directory
          MaxBlind,     \* of these, in one directory not watched
          Names,        \* names of files
          MaxFiles,     \* files there at a time
          MaxQueue,     \* events not yet handled
          Rewrites      \* may a name just announced be written again?

ASSUME NotifyAssumption ==
  /\ MAX_KEEPDIR \in Nat \ {0} /\ MaxDepth \in Nat \ {0}
  /\ MAX_SUBDIRS \in Nat \ {0}
  /\ MAX_DIRS \in Nat /\ MAX_DIRS > MaxDepth + 1
  /\ MaxDirs \in Nat /\ MaxTops \in Nat /\ MaxBlind \in Nat
  /\ MaxFiles \in Nat /\ MaxQueue \in Nat
  /\ Rewrites \in BOOLEAN

VARIABLES
  exists,    \* the directories
  here,      \* the newest of them
  files,     \* files closed and still there
  owed,      \* of these: closed in a watched directory, not yet announced
  watches,   \* watches[w]: the directory that watch w is on
  nextwd,    \* number of the next watch
  queue,     \* events not yet read
  sdirflag,  \* are the directories below a new one looked for?
  npc,       \* control point of mynotify
  evtbuf,    \* events read
  avpath,    \* directory of the event being handled
  dirent,    \* directories still to watch
  curdir,    \* watch of the directory current now
  wdirs,     \* wdirs[w % MAX_DIRS]: the directory named for watch w
  qrmdir,    \* watches to be removed later
  curqrmd,   \* place in qrmdir
  prevpath   \* file announced last, if func took it

wvars == <<exists, here, files>>
ivars == <<watches, nextwd, queue>>
rmvars == <<qrmdir, curqrmd>>
nvars == <<wvars, ivars, owed, sdirflag, npc, evtbuf, avpath, dirent, curdir,
           wdirs, rmvars, prevpath>>

topdir == <<>>
NoDir == <<0>>
NoFile == [dir |-> NoDir, name |-> "none"]

Children(p) == {d \in exists : Len(d) = Len(p) + 1 /\ IsPrefix(p, d)}

-----------------------------------------------------------------------------
(* inotify: an event goes to the watch on the directory it happens in.     *)

Watched(d) == \E w \in DOMAIN watches : watches[w] = d

Post(d, isdir, name) ==
  queue' = IF Watched(d)
           THEN Append(queue, [wd    |-> CHOOSE w \in DOMAIN watches :
                                           watches[w] = d,
                               isdir |-> isdir, name |-> name])
           ELSE queue

(* The radar's side makes directories and closes files.  A file may be     *)
(* closed more than once before it is announced.                           *)

mkdir ==
  /\ Cardinality(exists) <= MaxDirs /\ Len(evtbuf \o queue) < MaxQueue
  /\ \E n \in 0..Len(here) :
       LET p == SubSeq(here, 1, n)
           new == Cardinality(Children(p)) + 1
       IN  /\ n < MaxDepth /\ (n = 0 => new <= MaxTops)
           /\ Watched(p) \/ new <= MaxBlind
           /\ here' = Append(p, new)
           /\ exists' = exists \union {here'}
           /\ Post(p, TRUE, new)
  /\ UNCHANGED <<files, owed, watches, nextwd, sdirflag, npc, evtbuf, avpath,
                 dirent, curdir, wdirs, rmvars, prevpath>>

\* Files closed in directories neither watched nor current change nothing.
close_file ==
  /\ Len(evtbuf \o queue) < MaxQueue
  /\ \E d \in exists, n \in Names :
       LET f == [dir |-> d, name |-> n]
       IN  /\ Watched(d) \/ IsPrefix(d, here)
           /\ \/ Rewrites
              \/ f \in owed
              \/ f \notin files /\ f # prevpath
           /\ files' = files \union {f}
           /\ Cardinality(files') <= MaxFiles
           /\ owed' = IF Watched(d) THEN owed \union {f} ELSE owed
           /\ Post(d, FALSE, n)
  /\ UNCHANGED <<exists, here, watches, nextwd, sdirflag, npc, evtbuf, avpath,
                 dirent, curdir, wdirs, rmvars, prevpath>>

\* Data already announced is removed some day.
remove_file ==
  /\ \E f \in files \ owed : files' = files \ {f}
  /\ UNCHANGED <<exists, here, owed, ivars, sdirflag, npc, evtbuf, avpath, dirent,
                 curdir, wdirs, rmvars, prevpath>>

-----------------------------------------------------------------------------
(* mynotify.                                                               *)

getwdir(wd) == wdirs[wd % MAX_DIRS]

\* Mutants: one watch more, a ring without an end, the wrong condition.
IS_EXHAUST_late(idx) == idx > MAX_DIRS
Next_qrmd_on(q) == q + 1
Leaves_always(wd) == TRUE
Same_name(f) == prevpath.name = f.name

IS_EXHAUST(idx) == idx > MAX_DIRS - 1

Next_qrmd(q) == (q + 1) % MAX_KEEPDIR

\* A directory made above the current one: the current one is left.
Leaves(wd) == wd # curdir

\* "the same file has been transfered"
Same(f) == prevpath = f

\* inotify_add_watch gives a directory its number if it has one already.
add_watch(d) ==
  LET wd == IF Watched(d) THEN CHOOSE w \in DOMAIN watches : watches[w] = d
            ELSE nextwd
  IN  /\ watches' = [w \in DOMAIN watches \union {wd} |->
                       IF w = wd THEN d ELSE watches[w]]
      /\ nextwd' = IF Watched(d) THEN nextwd ELSE nextwd + 1
      /\ wdirs' = [wdirs EXCEPT ![wd % MAX_DIRS] = d]
      /\ curdir' = wd

Unwatch(wd) == watches' = [w \in DOMAIN watches \ {wd} |-> watches[w]]

\* Mutant: the directory just left is the one no longer watched.
rm_watch_now(wd) ==
  /\ Unwatch(wd)
  /\ qrmdir' = [qrmdir EXCEPT ![curqrmd] = wd]
  /\ curqrmd' = Next_qrmd(curqrmd)

\* "Actual removing watching directory is postponed": the number found in
\* the ring is removed (if there is such a watch), wd takes its place.
rm_watch(wd) ==
  /\ Unwatch(qrmdir[curqrmd])
  /\ qrmdir' = [qrmdir EXCEPT ![curqrmd] = wd]
  /\ curqrmd' = Next_qrmd(curqrmd)

\* The results of dirs_check: d and, with sdirflag, what is below it, in the
\* order of a walk that meets the entries of a directory in any order.
Below(d) == {c \in exists : IsPrefix(d, c)}
IsWalk(s) == \A i, j, k \in DOMAIN s :
  /\ IsStrictPrefix(s[i], s[j]) => i < j
  /\ i < j /\ j < k /\ IsPrefix(s[i], s[k]) => IsPrefix(s[i], s[j])
dirs_check(d) == IF sdirflag THEN {s \in SetToSeqs(Below(d)) : IsWalk(s)}
                 ELSE {<<d>>}

\* With sdirflag a regular file is taken for a directory, under the name that
\* dirent holds from before: at first "/".  Where stat must tell the type "."
\* is walked into again and again.  And the rows of dirent are not counted.
Astray(d) == sdirflag /\ \/ \E f \in files : IsPrefix(d, f.dir)
                         \/ Below(d) \intersect Untyped # {}
                         \/ Cardinality(Below(d)) > MAX_SUBDIRS

AfterEvent(rest) == IF rest = <<>> THEN "select" ELSE "event"

NInit ==
  /\ exists \in {{topdir}, {topdir, <<1>>}}
  /\ here \in exists /\ \A d \in exists : Len(d) <= Len(here)
  /\ files = {} /\ owed = {} /\ watches = [w \in {} |-> topdir] /\ nextwd = 1
  /\ queue = <<>> /\ evtbuf = <<>> /\ avpath = NoDir
  /\ sdirflag \in BOOLEAN /\ npc = "start"
  /\ dirent \in {<<topdir>>, <<topdir, here>>} /\ IsInjective(dirent)
  /\ curdir = 0 /\ wdirs = [i \in 0..(MAX_DIRS - 1) |-> NoDir]
  /\ qrmdir = [i \in 0..(MAX_KEEPDIR - 1) |-> 0] /\ curqrmd = 0
  /\ prevpath = NoFile

\* A new instance: the top directory, then the path of startdir.
start ==
  /\ npc = "start"
  /\ add_watch(Head(dirent))
  /\ dirent' = Tail(dirent)
  /\ npc' = IF dirent' = <<>> THEN "select" ELSE "start"
  /\ UNCHANGED <<wvars, owed, queue, sdirflag, evtbuf, avpath, rmvars, prevpath>>

read_events ==
  /\ npc = "select" /\ queue # <<>>
  /\ evtbuf' = queue /\ queue' = <<>> /\ npc' = "event"
  /\ UNCHANGED <<wvars, owed, watches, nextwd, sdirflag, avpath, dirent, curdir,
                 wdirs, rmvars, prevpath>>

Event == Head(evtbuf)
EventDir == Append(getwdir(Event.wd), Event.name)
EventFile == [dir |-> getwdir(Event.wd), name |-> Event.name]

\* stat fails: what the event names is not there (any more).
disappeared ==
  /\ npc = "event"
  /\ IF Event.isdir THEN EventDir \notin exists ELSE EventFile \notin files
  /\ evtbuf' = Tail(evtbuf) /\ npc' = AfterEvent(evtbuf')
  /\ UNCHANGED <<wvars, owed, ivars, sdirflag, avpath, dirent, curdir, wdirs, rmvars,
                 prevpath>>

new_directory ==
  /\ npc = "event" /\ Event.isdir /\ EventDir \in exists
  /\ avpath' = EventDir /\ evtbuf' = Tail(evtbuf)
  /\ IF Leaves(Event.wd) THEN rm_watch(curdir) ELSE UNCHANGED <<watches, rmvars>>
  /\ IF Astray(avpath')
     THEN npc' = "astray" /\ UNCHANGED dirent
     ELSE npc' = "adding" /\ dirent' \in dirs_check(avpath')
  /\ UNCHANGED <<wvars, owed, nextwd, queue, sdirflag, curdir, wdirs, prevpath>>

watch_directory ==
  /\ npc = "adding" /\ ~IS_EXHAUST(curdir)
  /\ add_watch(Head(dirent))
  /\ dirent' = Tail(dirent)
  /\ npc' = IF dirent' = <<>> THEN AfterEvent(evtbuf) ELSE "adding"
  /\ UNCHANGED <<wvars, owed, queue, sdirflag, evtbuf, avpath, rmvars, prevpath>>

\* resetting: the instance is closed with all its events, and the loop starts
\* again with the path of the directory being handled.  reset_watch then uses
\* the old numbers on the new instance, which has no watches.
resetting ==
  /\ npc = "adding" /\ IS_EXHAUST(curdir)
  /\ watches' = [w \in {} |-> topdir] /\ nextwd' = 1 /\ queue' = <<>>
  /\ evtbuf' = <<>> /\ owed' = {} /\ curqrmd' = 0
  /\ dirent' = [i \in 1..(Len(avpath) + 1) |-> SubSeq(avpath, 1, i - 1)]
  /\ npc' = "start"
  /\ UNCHANGED <<wvars, sdirflag, avpath, curdir, wdirs, qrmdir, prevpath>>

same_file ==
  /\ npc = "event" /\ ~Event.isdir /\ EventFile \in files /\ Same(EventFile)
  /\ evtbuf' = Tail(evtbuf) /\ npc' = AfterEvent(evtbuf')
  /\ UNCHANGED <<wvars, owed, ivars, sdirflag, avpath, dirent, curdir, wdirs, rmvars,
                 prevpath>>

\* func is called, and the path recorded if it returns 1.
announce ==
  /\ npc = "event" /\ ~Event.isdir /\ EventFile \in files /\ ~Same(EventFile)
  /\ owed' = owed \ {EventFile}
  /\ prevpath' \in {EventFile, NoFile}
  /\ evtbuf' = Tail(evtbuf) /\ npc' = AfterEvent(evtbuf')
  /\ UNCHANGED <<wvars, ivars, sdirflag, avpath, dirent, curdir, wdirs, rmvars>>

Writer == mkdir \/ close_file \/ remove_file
Notifier == start \/ read_events \/ disappeared \/ new_directory
            \/ watch_directory \/ resetting \/ same_file \/ announce
NNext == Writer \/ Notifier
NSpec == NInit /\ [][NNext]_nvars

-----------------------------------------------------------------------------
(* Properties.                                                             *)

\* The type invariant: watch numbers stay within wdirs and the ring of
\* delayed removals within qrmdir.
NTypeOK ==
  /\ \A d \in exists : Len(d) <= MaxDepth
  /\ here \in exists /\ owed \subseteq files
  /\ DOMAIN watches \subseteq 1..MAX_DIRS /\ nextwd \in 1..(MAX_DIRS + 1)
  /\ npc \in {"start", "select", "event", "adding", "astray"}
  /\ curdir \in 0..MAX_DIRS /\ curqrmd \in 0..(MAX_KEEPDIR - 1)
  /\ \A i \in 0..(MAX_KEEPDIR - 1) : qrmdir[i] \in 0..MAX_DIRS
  /\ npc \in {"start", "adding"} <=> dirent # <<>>
  /\ npc = "event" => evtbuf # <<>>

\* Whatever was removed or reset before, the name kept for a watch (wdirs is
\* shared by all numbers equal modulo MAX_DIRS, and outlives an instance) is
\* that of the directory it is on: no event is taken for another's.
NamesWatched == \A w \in DOMAIN watches : getwdir(w) = watches[w]

\* The directories on the path to the newest one are never given up: once
\* watched by the present instance they stay so, although only the last
\* directory added counts as current and old numbers stay in qrmdir.
PathWatched ==
  npc # "start" => \A w \in 1..(nextwd - 1) :
    IsPrefix(getwdir(w), here) => w \in DOMAIN watches

\* A directory that was left is watched until MAX_KEEPDIR more recent ones have
\* been left, so that files closed late in it are announced.
GraceKept ==
  npc # "start" => \A w \in 1..(nextwd - 1) :
    w \notin DOMAIN watches => \A i \in 0..(MAX_KEEPDIR - 1) : qrmdir[i] > w

\* A file closed in a watched directory has been announced when mynotify waits
\* again with no event left, except those under way when it started anew.
EachAnnounced == npc = "select" /\ queue = <<>> => owed = {}
=============================================================================
