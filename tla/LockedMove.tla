----------------------------- MODULE LockedMove -----------------------------
(***************************************************************************)
(* Sending within one machine: watch_and_transfer, given a URL "lock:" and *)
(* a directory, hands every announced file to locked_move (translib.c),    *)
(* which copies it there under one of the two READY lock files, removes it *)
(* and writes its name into the lock file.  The application is one that    *)
(* uses jitkclient, as with kwatcher; see KWatch for the locks.            *)
(*                                                                         *)
(* Between two files the mover holds no lock, and it does not wait for a   *)
(* name to be read.  It ends at the first error of open, read or write.    *)
(***************************************************************************)
EXTENDS Integers

CONSTANTS NMoved,        \* number of files
          Blocks,        \* writes it takes to copy a file
          MoverDeaths,   \* deaths of the mover, by an error or otherwise
          ReaderDeaths,  \* deaths of the application
          Opens          \* whether the application uses jitopen

ASSUME LockedMoveAssumption ==
  /\ NMoved \in Nat /\ Blocks \in Nat \ {0}
  /\ MoverDeaths \in Nat /\ ReaderDeaths \in Nat /\ Opens \in BOOLEAN

Moved == 1..NMoved
Ready == {0, 1}
Nobody == "nobody"
NoName == 0   \* in a lock file: just created, or nullified
Absent == -1

VARIABLES
  mpc,      \* control point of locked_move
  mfile,    \* the file locked_move was called for last
  mtick,    \* its ticktack
  here,     \* files of the watched directory
  there,    \* there[f]: blocks of file f in the other directory, or Absent
  named,    \* named[l]: file named in lock file l
  owner,    \* owner[l]: who holds its lock
  rpc,      \* control point of the application
  rtick,    \* its ticktack
  mdeaths, rdeaths

mvars == <<mpc, mfile, mtick, here, there>>
rvars == <<rpc, rtick>>
lmvars == <<mvars, rvars, named, owner, mdeaths, rdeaths>>

MHolds == 1 - mtick
RHolds == 1 - rtick

LMInit ==
  /\ mpc = "watch" /\ mfile = 0 /\ mtick = 0
  /\ here = {} /\ there = [f \in Moved |-> Absent]
  /\ named = [l \in Ready |-> NoName] /\ owner = [l \in Ready |-> Nobody]
  /\ rpc = "idle" /\ rtick = 0 /\ mdeaths = 0 /\ rdeaths = 0

-----------------------------------------------------------------------------
(* locked_move.                                                            *)

\* The next file is closed in the watched directory and mynotify announces it.
\* One closed while no mover runs is not announced.
arrive ==
  /\ mpc \in {"watch", "dead"} /\ mfile < NMoved
  /\ mfile' = mfile + 1
  /\ here' = here \cup {mfile'}
  /\ mpc' = IF mpc = "watch" THEN "lock" ELSE "dead"
  /\ UNCHANGED <<mtick, there, rvars, named, owner, mdeaths, rdeaths>>

\* Mutants: the lock is not waited for; the name is written first.
move_lock_nowait ==
  /\ mpc = "lock"
  /\ owner' = [owner EXCEPT ![mtick] = "mover"]
  /\ mtick' = 1 - mtick
  /\ mpc' = "copy" /\ there' = [there EXCEPT ![mfile] = 0]
  /\ UNCHANGED <<mfile, here, rvars, named, mdeaths, rdeaths>>

move_lock_names ==
  /\ mpc = "lock" /\ owner[mtick] = Nobody
  /\ owner' = [owner EXCEPT ![mtick] = "mover"]
  /\ mtick' = 1 - mtick
  /\ named' = [named EXCEPT ![mtick] = mfile]
  /\ mpc' = "copy" /\ there' = [there EXCEPT ![mfile] = 0]
  /\ UNCHANGED <<mfile, here, rvars, mdeaths, rdeaths>>

\* locked_lock; the destination is created or emptied.
move_lock ==
  /\ mpc = "lock" /\ owner[mtick] = Nobody
  /\ owner' = [owner EXCEPT ![mtick] = "mover"]
  /\ mtick' = 1 - mtick
  /\ mpc' = "copy" /\ there' = [there EXCEPT ![mfile] = 0]
  /\ UNCHANGED <<mfile, here, rvars, named, mdeaths, rdeaths>>

copy ==
  /\ mpc = "copy" /\ there[mfile] < Blocks
  /\ there' = [there EXCEPT ![mfile] = @ + 1]
  /\ UNCHANGED <<mpc, mfile, mtick, here, rvars, named, owner, mdeaths,
                 rdeaths>>

\* Mutant: the loop ends at the first short write.
remove_early ==
  /\ mpc = "copy" /\ there[mfile] > 0
  /\ here' = here \ {mfile} /\ mpc' = "write"
  /\ UNCHANGED <<mfile, mtick, there, rvars, named, owner, mdeaths,
                 rdeaths>>

\* The end of the file: unlink.
remove ==
  /\ mpc = "copy" /\ there[mfile] = Blocks
  /\ here' = here \ {mfile} /\ mpc' = "write"
  /\ UNCHANGED <<mfile, mtick, there, rvars, named, owner, mdeaths,
                 rdeaths>>

\* locked_write and locked_unlock.
write_name ==
  /\ mpc = "write"
  /\ named' = [named EXCEPT ![MHolds] = mfile]
  /\ owner' = [owner EXCEPT ![MHolds] = Nobody]
  /\ mpc' = "watch"
  /\ UNCHANGED <<mfile, mtick, here, there, rvars, mdeaths, rdeaths>>

\* The mover is killed, or ends with an error.
move_dies ==
  /\ mpc # "dead" /\ mdeaths < MoverDeaths
  /\ mdeaths' = mdeaths + 1
  /\ owner' = [l \in Ready |-> IF owner[l] = "mover" THEN Nobody ELSE owner[l]]
  /\ mpc' = "dead" /\ mtick' = 0
  /\ UNCHANGED <<mfile, here, there, rvars, named, rdeaths>>

\* It is started again; what is in the directory by then is not announced.
move_restart ==
  /\ mpc = "dead" /\ mpc' = "watch"
  /\ UNCHANGED <<mfile, mtick, here, there, rvars, named, owner, mdeaths,
                 rdeaths>>

-----------------------------------------------------------------------------
(* The application, with jitkclient.                                       *)

read_lock ==
  /\ rpc \in {"get", "open"} /\ owner[rtick] = Nobody
  /\ owner' = [owner EXCEPT ![rtick] = "reader"]
  /\ rtick' = 1 - rtick
  /\ rpc' = IF rpc = "get" THEN "got" ELSE "opening"
  /\ UNCHANGED <<mvars, named, mdeaths, rdeaths>>

\* Mutant: the lock file is not closed.
read_nothing_kept ==
  /\ rpc \in {"got", "opening"} /\ named[RHolds] = NoName
  /\ rpc' = "idle"
  /\ UNCHANGED <<mvars, rtick, named, owner, mdeaths, rdeaths>>

\* A lock file without a name: both calls close it.
read_nothing ==
  /\ rpc \in {"got", "opening"} /\ named[RHolds] = NoName
  /\ owner' = [owner EXCEPT ![RHolds] = Nobody]
  /\ rpc' = "idle"
  /\ UNCHANGED <<mvars, rtick, named, mdeaths, rdeaths>>

\* septype finds names by the separator behind each, and locked_move writes
\* none: jitget has no file to open, and nullifies.
jitget_none ==
  /\ rpc = "got" /\ named[RHolds] # NoName
  /\ named' = [named EXCEPT ![RHolds] = NoName]
  /\ owner' = [owner EXCEPT ![RHolds] = Nobody]
  /\ rpc' = "idle"
  /\ UNCHANGED <<mvars, rtick, mdeaths, rdeaths>>

\* jitopen opens no file either and returns -1, with the lock.
jitopen_none ==
  /\ rpc = "opening" /\ named[RHolds] # NoName
  /\ rpc' = "idle"
  /\ UNCHANGED <<mvars, rtick, named, owner, mdeaths, rdeaths>>

read_call ==
  /\ rpc = "idle"
  /\ rpc' \in IF Opens THEN {"get", "open"} ELSE {"get"}
  /\ UNCHANGED <<mvars, rtick, named, owner, mdeaths, rdeaths>>

\* The application dies anywhere and is started again.
read_restart ==
  /\ rdeaths < ReaderDeaths /\ rdeaths' = rdeaths + 1
  /\ owner' = [l \in Ready |-> IF owner[l] = "reader" THEN Nobody ELSE owner[l]]
  /\ rpc' = "idle" /\ rtick' = 0
  /\ UNCHANGED <<mvars, named, mdeaths>>

locked_move == move_lock \/ copy \/ remove \/ write_name
reader == read_lock \/ read_nothing \/ jitget_none \/ jitopen_none

LMNext ==
  \/ arrive \/ locked_move \/ move_dies \/ move_restart
  \/ read_call \/ reader \/ read_restart

LMSpec == LMInit /\ [][LMNext]_lmvars

\* As in KWatch: both processes are scheduled, and the kernel does not pass
\* over a waiting flock for ever.
LMFairness ==
  /\ WF_lmvars(copy \/ remove \/ write_name) /\ SF_lmvars(move_lock)
  /\ WF_lmvars(reader)

-----------------------------------------------------------------------------
(* Properties.                                                             *)

LMTypeOK ==
  /\ mpc \in {"watch", "lock", "copy", "write", "dead"}
  /\ mfile \in 0..NMoved /\ mtick \in Ready /\ rtick \in Ready
  /\ here \subseteq Moved
  /\ there \in [Moved -> {Absent} \cup 0..Blocks]
  /\ named \in [Ready -> Moved \cup {NoName}]
  /\ owner \in [Ready -> {Nobody, "mover", "reader"}]
  /\ mpc \in {"copy", "write"} => owner[MHolds] = "mover"
  /\ rpc \in {"idle", "get", "open", "got", "opening"}
  /\ rpc \in {"got", "opening"} => owner[RHolds] = "reader"

\* A file is whole on one side at any moment, across errors and deaths.
NothingLost ==
  \A f \in Moved : f <= mfile => f \in here \/ there[f] = Blocks

\* What a lock file names is whole, and is not being written again: the lock
\* of the file that is being copied names another one.
NamedIsWhole ==
  \A l \in Ready : named[l] # NoName =>
    there[named[l]] = Blocks /\ named[l] \notin here

\* A lock that jitopen kept when it found nothing to open under a name.
Kept(l) ==
  /\ owner[l] = "reader" /\ named[l] # NoName
  /\ ~(rpc \in {"got", "opening"} /\ l = RHolds)

\* The mover gets its lock file in the end, unless the application has kept
\* one: then mover and application both wait for it.
MoverGoesOn == mpc = "lock" ~> (mpc # "lock" \/ \E l \in Ready : Kept(l))
=============================================================================
