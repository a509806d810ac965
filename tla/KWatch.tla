------------------------------- MODULE KWatch -------------------------------
(***************************************************************************)
(* The file passing method: the daemon kwatcher tells one application of   *)
(* complete observations through two lock files in the data directory,     *)
(* JITDT-READY-1 and JITDT-READY-2, used in turn by both sides (kwatcher.c,*)
(* locked_... in misclib.c, jitkclient.c).                                 *)
(*                                                                         *)
(* The daemon holds the file it will write next; it writes and closes it,  *)
(* and only then locks the other one.  The application locks, reads and    *)
(* nullifies.  A lock is an flock: it belongs to the open file, is waited  *)
(* for in the kernel and is gone when its holder dies.                     *)
(*                                                                         *)
(* The names in a lock file are represented by the date of the entry.      *)
(*                                                                         *)
(* An application of several MPI ranks calls together: rank 0 uses the     *)
(* library and jitclient.c broadcasts what it got (MPIENV).                *)
(***************************************************************************)
EXTENDS KHistory

CONSTANTS Counts,      \* values of the count argument of jitget
          OpenTypes,   \* types asked for with jitopen
          MaxLate,     \* files that come late
          MaxSkipped,  \* dates in a row that stay incomplete
          MaxDeaths    \* deaths of kwatcher, and of the application

ASSUME KWatchAssumption ==
  /\ Counts \subseteq 1..Cardinality(Types) /\ OpenTypes \subseteq Types
  /\ MaxLate \in Nat /\ MaxSkipped \in Nat
  /\ MaxDeaths \in [{"kwatcher", "app"} -> Nat]

Locks == {0, 1}
NoOne == "none"
EMPTY == -1      \* content of a lock file that was just created
NONE == 0        \* ... and of one that starts with a null byte

VARIABLES
  content,  \* content[l]: date named in lock file l, EMPTY or NONE
  holder,   \* holder[l]: who holds the lock of file l
  kpc,      \* control point of kwatcher
  ktick,    \* its ticktack: the lock file it takes next
  newest,   \* newest date that has arrived
  late,     \* number of files that came after one of a newer date
  said,     \* the last two dates written to a lock file
  doomed,   \* files mkhist is about to unlink
  cpc,      \* control point of the application
  ctick,    \* its ticktack
  call,     \* the call it is in: GET and a count, or OPEN and a type
  fpath,    \* its static buffer: a name is in it
  ci,       \* loop index of jitget
  cdate,    \* date it has read from the lock file
  part,     \* part[t]: date of the file read for type t, NULL if none
  others,   \* others[t]: what the other ranks have in the area of type t
  taken,    \* dates whose lock file it has nullified
  deaths    \* deaths[p]: how often p has died

kvars == <<content, holder, kpc, ktick, newest, late, said, doomed>>
cvars == <<cpc, ctick, call, fpath, ci, cdate, part, others, taken>>
kwvars == <<khvars, kvars, cvars, deaths>>

NoPart == [t \in Types |-> NULL]
NoCall == [cmd |-> "none", arg |-> 0]

\* The lock file each side holds, or took last: ticktack has moved on.
KLock == 1 - ktick
CLock == 1 - ctick

KWInit ==
  /\ KHistInit
  /\ content = [l \in Locks |-> EMPTY] /\ holder = [l \in Locks |-> NoOne]
  /\ kpc = "lock" /\ ktick = 0 /\ newest = 0 /\ late = 0
  /\ said = <<NONE, NONE>> /\ doomed = {}
  /\ cpc = "idle" /\ ctick = 0 /\ call = NoCall /\ fpath = FALSE
  /\ ci = 0 /\ cdate = NONE /\ part = NoPart
  /\ others = NoPart /\ taken = {}
  /\ deaths = [p \in {"kwatcher", "app"} |-> 0]

-----------------------------------------------------------------------------
(* kwatcher.                                                               *)

\* A file of the newest date, or a late one.
InTime(d) ==
  \/ d >= newest
  \/ d < newest /\ late < MaxLate /\ date[curhistp] # 0 /\ Timely(d)

\* transfer, up to the return of mkhist or to the unlinks that open a new
\* entry.  At most MaxSkipped dates in a row stay incomplete.
transfer(d, t) ==
  /\ kpc = "notify"
  /\ InTime(d)
  /\ d > newest => Cardinality({s \in Slots : date[s] > said[1]}) <= MaxSkipped
  /\ mkhist(d, t)
  /\ newest' = IF d > newest THEN d ELSE newest
  /\ late' = IF d < newest THEN late + 1 ELSE late
  /\ doomed' = disk \ disk'
  /\ kpc' = IF files' # NULL THEN "write"
            ELSE IF doomed' # {} THEN "unlink" ELSE "notify"
  /\ UNCHANGED <<content, holder, ktick, said, cvars, deaths>>

\* The files of the old entry go one by one, in the order of their types.
unlink ==
  /\ kpc = "unlink"
  /\ \E f \in doomed :
       /\ \A g \in doomed : f[2] <= g[2]
       /\ doomed' = doomed \ {f}
  /\ kpc' = IF doomed' = {} THEN "notify" ELSE "unlink"
  /\ UNCHANGED <<khvars, content, holder, ktick, newest, late, said, cvars,
                 deaths>>

\* What can be opened in the data directory.
There == disk \cup doomed

\* locked_write and locked_unlock.
locked_write ==
  /\ kpc = "write"
  /\ content' = [content EXCEPT ![KLock] = files]
  /\ holder' = [holder EXCEPT ![KLock] = NoOne]
  /\ said' = <<files, said[1]>>
  /\ kpc' = "lock"
  /\ UNCHANGED <<khvars, ktick, newest, late, doomed, cvars, deaths>>

\* Mutant: the lock is not waited for.
locked_lock_nowait ==
  /\ kpc = "lock"
  /\ holder' = [holder EXCEPT ![ktick] = "kwatcher"]
  /\ ktick' = 1 - ktick
  /\ kpc' = "notify"
  /\ UNCHANGED <<khvars, content, newest, late, said, doomed, cvars, deaths>>

\* locked_lock, at the start and after each write.
locked_lock ==
  /\ kpc = "lock" /\ holder[ktick] = NoOne
  /\ holder' = [holder EXCEPT ![ktick] = "kwatcher"]
  /\ ktick' = 1 - ktick
  /\ kpc' = "notify"
  /\ UNCHANGED <<khvars, content, newest, late, said, doomed, cvars, deaths>>

\* kwatcher dies and is started again: its history is gone, the files are not.
kwatcher_restart ==
  /\ deaths["kwatcher"] < MaxDeaths["kwatcher"]
  /\ deaths' = [deaths EXCEPT !["kwatcher"] = @ + 1]
  /\ holder' = [l \in Locks |->
                  IF holder[l] = "kwatcher" THEN NoOne ELSE holder[l]]
  /\ date' = [s \in Slots |-> 0] /\ fname' = [s \in Slots |-> Empty]
  /\ curhistp' = 0 /\ files' = NULL
  /\ kpc' = "lock" /\ ktick' = 0
  /\ disk' = There /\ doomed' = {}
  /\ UNCHANGED <<content, newest, late, said, cvars>>

-----------------------------------------------------------------------------
(* The application.                                                        *)

\* The application calls jitget or jitopen.
jitcall ==
  /\ cpc = "idle"
  /\ \/ \E n \in Counts : call' = [cmd |-> "GET", arg |-> n]
     \/ \E t \in OpenTypes : call' = [cmd |-> "OPEN", arg |-> t]
  /\ cpc' = "lock"
  /\ UNCHANGED <<khvars, kvars, ctick, fpath, ci, cdate, part, others,
                 taken, deaths>>

jit_lock ==
  /\ cpc = "lock" /\ holder[ctick] = NoOne
  /\ holder' = [holder EXCEPT ![ctick] = "app"]
  /\ ctick' = 1 - ctick
  /\ cpc' = "read"
  /\ UNCHANGED <<khvars, content, kpc, ktick, newest, late, said, doomed, call,
                 fpath, ci, cdate, part, others, taken, deaths>>

\* What locked_read leaves in the buffer: a file just created leaves it alone.
Buffer == IF content[CLock] = EMPTY THEN fpath ELSE content[CLock] # NONE

\* Mutant: the lock file is not closed.
jit_fail_kept ==
  /\ cpc = "read"
  /\ ~Buffer \/ (call.cmd = "OPEN" /\ content[CLock] = EMPTY)
  /\ fpath' = Buffer
  /\ cpc' = "idle" /\ call' = NoCall
  /\ UNCHANGED <<khvars, kvars, ctick, ci, cdate, part, others, taken, deaths>>

\* Both calls give up when the lock file holds no name; the buffer's first
\* byte tells jitget, jitopen sees an empty read as well.
\* (jitclient.c broadcasts then as well, what rank 0 had before.)
jit_fail ==
  /\ cpc = "read"
  /\ ~Buffer \/ (call.cmd = "OPEN" /\ content[CLock] = EMPTY)
  /\ fpath' = Buffer
  /\ holder' = [holder EXCEPT ![CLock] = NoOne]
  /\ cpc' = "idle" /\ call' = NoCall
  /\ UNCHANGED <<khvars, content, kpc, ktick, newest, late, said, doomed, ctick,
                 ci, cdate, part, others, taken, deaths>>

\* jitget goes on with the buffer cut at the length read, none if EMPTY.
jitget_read ==
  /\ cpc = "read" /\ call.cmd = "GET" /\ Buffer
  /\ fpath' = (content[CLock] # EMPTY)
  /\ cdate' = IF content[CLock] = EMPTY THEN NONE ELSE content[CLock]
  /\ cpc' = IF content[CLock] = EMPTY THEN "close" ELSE "files"
  /\ ci' = 0 /\ part' = NoPart /\ others' = NoPart
  /\ UNCHANGED <<khvars, kvars, ctick, call, taken, deaths>>

\* jitget opens and reads one file, if it is still there.
jitget_file ==
  /\ cpc = "files"
  /\ part' = IF <<cdate, ci>> \in There THEN [part EXCEPT ![ci] = cdate]
                                      ELSE part
  /\ ci' = ci + 1
  /\ cpc' = IF ci + 1 < call.arg THEN "files" ELSE "close"
  /\ UNCHANGED <<khvars, kvars, ctick, call, fpath, cdate, others, taken,
                 deaths>>

\* jitopen keeps the lock with the file it opens.
jitopen_read ==
  /\ cpc = "read" /\ call.cmd = "OPEN" /\ content[CLock] \notin {EMPTY, NONE}
  /\ fpath' = TRUE /\ cdate' = content[CLock]
  /\ <<cdate', call.arg>> \in There
  /\ part' = NoPart /\ others' = NoPart
  /\ cpc' = "opened"
  /\ UNCHANGED <<khvars, kvars, ctick, call, ci, taken, deaths>>

\* It also keeps the lock when the file cannot be opened, and returns.
jitopen_fail ==
  /\ cpc = "read" /\ call.cmd = "OPEN" /\ content[CLock] \notin {EMPTY, NONE}
  /\ fpath' = TRUE /\ cdate' = content[CLock]
  /\ <<cdate', call.arg>> \notin There
  /\ cpc' = "idle" /\ call' = NoCall
  /\ UNCHANGED <<khvars, kvars, ctick, ci, part, others, taken, deaths>>

\* jitread: what rank 0 reads is broadcast.
jitread ==
  /\ cpc = "opened" /\ part = NoPart
  /\ part' = [NoPart EXCEPT ![call.arg] = cdate] /\ others' = part'
  /\ UNCHANGED <<khvars, kvars, cpc, ctick, call, fpath, ci, cdate, taken,
                 deaths>>

\* jitclose.
jitclose ==
  /\ cpc = "opened"
  /\ cpc' = "close"
  /\ UNCHANGED <<khvars, kvars, ctick, call, fpath, ci, cdate, part, others,
                 taken, deaths>>

\* jitget broadcasts when the library has returned.
Returns == IF call.cmd = "GET" THEN "bcast" ELSE "idle"

\* Mutant: the lock file is not nullified.
locked_unlock_full ==
  /\ cpc = "close"
  /\ holder' = [holder EXCEPT ![CLock] = NoOne]
  /\ taken' = taken \cup {cdate}
  /\ cpc' = Returns /\ call' = NoCall
  /\ UNCHANGED <<khvars, content, kpc, ktick, newest, late, said, doomed, ctick,
                 fpath, ci, cdate, part, others, deaths>>

\* locked_unlock_nullify, the end of jitget and of jitclose.
locked_unlock_nullify ==
  /\ cpc = "close"
  /\ content' = [content EXCEPT ![CLock] = NONE]
  /\ holder' = [holder EXCEPT ![CLock] = NoOne]
  /\ taken' = taken \cup {cdate}
  /\ cpc' = Returns /\ call' = NoCall
  /\ UNCHANGED <<khvars, kpc, ktick, newest, late, said, doomed, ctick,
                 fpath, ci, cdate, part, others, deaths>>

\* Mutant: the pointer is not moved on.
Area_first(t) == 0

\* jitclient.c moves its pointer on by one area for each file that was read:
\* where the broadcast of type t takes its data from, and puts it.
Area(t) == Cardinality({u \in Types : u < t /\ part[u] # NULL})

MPI_Bcast ==
  /\ cpc = "bcast"
  /\ LET areas == {Area(t) : t \in {u \in Types : part[u] # NULL}}
     IN  others' = [t \in Types |-> IF t \in areas THEN part[t] ELSE others[t]]
  /\ cpc' = "idle"
  /\ UNCHANGED <<khvars, kvars, ctick, call, fpath, ci, cdate, part, taken,
                 deaths>>

\* The application dies anywhere and is started again.
app_restart ==
  /\ deaths["app"] < MaxDeaths["app"]
  /\ deaths' = [deaths EXCEPT !["app"] = @ + 1]
  /\ holder' = [l \in Locks |-> IF holder[l] = "app" THEN NoOne ELSE holder[l]]
  /\ cpc' = "idle" /\ ctick' = 0 /\ call' = NoCall /\ fpath' = FALSE
  /\ part' = NoPart /\ others' = NoPart
  /\ UNCHANGED <<khvars, content, kpc, ktick, newest, late, said, doomed,
                 ci, cdate, taken>>

kwatcher ==
  \/ \E d \in Dates, t \in Types : transfer(d, t)
  \/ unlink \/ locked_write \/ locked_lock \/ kwatcher_restart

\* The application inside a call.
jitclient ==
  \/ jit_lock \/ jit_fail \/ jitget_read \/ jitget_file
  \/ jitopen_read \/ jitopen_fail \/ jitread \/ jitclose
  \/ locked_unlock_nullify \/ MPI_Bcast

KWNext == kwatcher \/ jitcall \/ jitclient \/ app_restart

KWSpec == KWInit /\ [][KWNext]_kwvars

\* Both processes run; the kernel does not pass over a waiting flock for ever,
\* which asks for strong fairness as the lock is taken and released meanwhile.
\* Nothing obliges files to arrive or the application to call.
KWFairness ==
  /\ WF_kwvars(locked_write) /\ SF_kwvars(locked_lock)
  /\ WF_kwvars(jitclient) /\ SF_kwvars(jit_lock)

KWFairSpec == KWSpec /\ KWFairness

-----------------------------------------------------------------------------
(* Properties.                                                             *)

KWTypeOK ==
  /\ KHistTypeOK
  /\ content \in [Locks -> Dates \cup {EMPTY, NONE}]
  /\ holder \in [Locks -> {NoOne, "kwatcher", "app"}]
  /\ kpc \in {"notify", "unlink", "write", "lock"} /\ ktick \in Locks
  /\ kpc \in {"notify", "unlink", "write"} => holder[KLock] = "kwatcher"
  /\ newest \in Dates \cup {0}
  /\ doomed \subseteq (Dates \X Types) \ disk
  /\ said \in (Dates \cup {NONE}) \X (Dates \cup {NONE})
  /\ cpc \in {"idle", "lock", "read", "files", "opened", "close", "bcast"}
  /\ ctick \in Locks
  /\ cpc \in {"read", "files", "opened", "close"} => holder[CLock] = "app"
  /\ call \in [cmd : {"none", "GET", "OPEN"}, arg : Types \cup Counts \cup {0}]
  /\ fpath \in BOOLEAN /\ ci \in 0..Cardinality(Types)
  /\ cdate \in Dates \cup {NONE} /\ part \in [Types -> Dates \cup {NULL}]
  /\ others \in [Types -> Dates \cup {NULL}] /\ late \in 0..MaxLate
  /\ taken \subseteq Dates \cup {NONE}

\* The application finds every file it was told of, although kwatcher goes on
\* removing files while the lock file waits and while the files are read.
\* (A kwatcher started again forgets which files the lock files still name.)
GotWhole ==
  /\ cpc = "close" /\ call.cmd = "GET" /\ cdate # NONE
  /\ deaths["kwatcher"] = 0
  => \A t \in 0..(call.arg - 1) : part[t] = cdate

\* When a call returns, every rank holds the same data in the same areas, while
\* kwatcher is on with the next observations.  (A file that is missing shifts
\* the areas of the broadcast against those rank 0 has read into.)
RanksAgree == cpc = "idle" /\ deaths["kwatcher"] = 0 => others = part

\* What the application reads is one of the last two observations kwatcher
\* has made known, however slow either side is.
GotRecent ==
  cpc \in {"files", "opened"} => cdate \in {said[1], said[2]}

\* An observation is taken once, even if the application dies in between.
\* (After a late file mkhist may complete an observation twice: it opens a
\* second entry for a date.)
TakenOnce ==
  cpc \in {"files", "opened"} /\ late = 0 => cdate \notin taken

\* The ring in the daemon.  A late file leaves its pointer on the older entry,
\* and these hold only until one has come.
OneEntryPerDate == late = 0 => DatesOnce
DiskInRing == late = 0 => KDiskIsRegistered

\* Only the oldest observation is given up: mkhist removes no file of a date
\* while the ring keeps an older one.
KeepsHistory ==
  [][late' = 0 =>
       \A f \in disk \ disk', s \in Slots :
         date'[s] # 0 => date'[s] > f[1]]_kwvars

\* kwatcher, once it waits for a lock file, gets it and can work again.
KWatcherGoesOn == kpc = "lock" ~> kpc = "notify"
=============================================================================
