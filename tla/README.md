# JIT-DT: models, checks and proofs

JIT-DT carries observation files from the machine of a radar to a data
assimilation application on a remote machine, as soon as they are written.
This directory models the parts of it that keep state, most of it shared by
several threads, processes or machines, checks them with TLC and proves
theorems about each of them with TLAPS. Source paths are relative to the
repository; line numbers are in `PROJECT.json`, under `map`, for every
definition.

Contents: [the system](#the-system) · [the plan](#the-plan) ·
[models and code](#models-and-code) · [runs](#runs) ·
[findings](#findings) · [fairness](#fairness) · [proofs](#proofs) ·
[not modelled](#not-modelled)

## The system

An observation is a group of files of one *date*, one file per *type*; the
configuration's `sync` group lists the types that must be there before the
application is told.

```
 sending machine                              client machine
 watch_and_transfer --sftp_put--> sftp ==net==> data + bell files
   (inotifylib, regexplib)                         |
                             +---------------------+-------------------+
                             v                                         v
                      kwatcher (mkhist)                     lwatcher: watcher thread
                             |                                         | histput
               JITDT-READY-1, JITDT-READY-2                    ring of entries
                             |  (flock)                                | histget/histremove
                             v                              lwatcher: transfer thread
                 application + jitkclient                              | TCP
                                                            application + jitcclient

 other ways of sending:  watch_and_transfer lock:<dir>  --locked_move--> <dir> + READY files
                         http_put --POST--> http_daemon (libmicrohttpd)
```

| Component | State it keeps | Operations | What is hard | What makes it correct |
|---|---|---|---|---|
| History of lwatcher, `misclib.c` | ring `history`, `prodhistp`, `conshistp`, `numhist`, the files on disk | `histput` (5 outcomes), `histget`, `histwait`, `histremove` | two threads; late files; the ring turning round; slots reused without being cleared | a bounded FIFO of dates; entries of one date; nothing unlinked that may be in use; no file leaked |
| lwatcher, `lwatcher.c` | control of two threads, `hp`, `nsize`, the reply, connections | every command of the protocol | the entry is read with no lock; condition waits; clients that die; forced removals meanwhile | whole replies, none twice, none skipped, every request answered |
| TCP client, `jitcclient.c` | one connection per call | `jitget`, `jitopen`, `jitread`, `jitclose` | peers that die at any moment | as above, seen by the application |
| History of kwatcher, `kwatcher.c` | ring `history`, `curhistp`, the files on disk | `mkhist` (4 outcomes) | late files, the ring turning back | one entry per date; a complete entry is returned; only the oldest is given up |
| kwatcher and lock files | the two READY files, their locks | `transfer`, `locked_*` | no lock held between two files; overtaking; restarts | recent observations, none twice; neither side blocks the other |
| File client, `jitkclient.c` | a lock, `ticktack`, a static buffer | `jitget`, `jitopen`, `jitclose` | files removed under it; crashes with the lock held | as above |
| Sender, `watch_and_transfer.c`, `translib.c` | the kept child, its pipes, the number of the notification file | `sftp_put`, `put_cmd` | late answers; a child that ends; numbers modulo 10 | no notification before its file; none lost; order; it goes on |
| Directory watching, `inotifylib2.c` | watches, delayed removals, `prevpath` | `mynotify` | directories filled before they are watched; resets | every closed file announced |
| Mover, `translib.c` | `ticktack`, the READY files | `locked_move` | ends at the first error, between copy, removal and naming | no file lost, only whole files named, no one waits for ever |
| Upload server, `http_daemon.c`, `http_put.c` | a context with an open file per request | callbacks of libmicrohttpd | chunks of several uploads; clients that go away; full disk, met by a write or by the last flush | the file as sent, or at least nothing mixed and nothing missing but what a failed flush lost |
| MPI wrapper, `jitclient.c` | none | broadcasts | areas and sizes differ when a file is missing | every rank gets the same |
| Configuration, `regexplib.c` | tables `conf`, `synctype` | `readconf`, `regex_match`, `sync_entry` | texts that are nearly right; names that are not one token; tables at their limits | what the file means is what is applied |

The components meet as follows. `mynotify` calls the `transfer` function of
`watch_and_transfer` or `kwatcher`, or the `watcher` loop of lwatcher's thread,
once per closed file. The sender and kwatcher share the numbered notification
files. The two threads of lwatcher share the ring and two condition variables.
kwatcher and the application share the READY files under `flock`, and the data
directory, where kwatcher removes what the application reads; `locked_move`
takes kwatcher's place when sender and application are on one machine. Every
daemon reads the configuration once, at its start; `regex_match` gives it date
and type of a file, `sync_entry` the place in its entry, `sync_nsize` how many
files make an entry.

## The plan

Modelled, in this order: the abstract queue, the ring that implements it, the
daemon that uses the ring, the ring of kwatcher, the READY protocol on top of
it, the sender, the directory watching, the other ways of sending and their
composition with it, the MPI ranks above `jitget`, the configuration.

| Module | Models | Uses |
|---|---|---|
| `DateQueue` | the abstract promise of lwatcher's history | |
| `History` | `misclib.c` ring | refines `DateQueue` |
| `LWatcher` | lwatcher's two threads and its clients | extends `History` |
| `KHistory` | `mkhist` | |
| `KWatch` | kwatcher, READY files, jitkclient, MPI ranks | extends `KHistory` |
| `Sender` | sftp_put, its child, notification files | |
| `Notify` | `mynotify` | |
| `LockedMove` | `locked_move` and an application with jitkclient | |
| `Upload` | http_put and http_daemon | |
| `Transfer` | the method chosen by the URL | extends `Sender`, `LockedMove`, `Upload` |
| `Config` | `readconf`, `regex_match`, `sync_entry` | |
| `MC*` | instances for TLC | the module they are named for |
| `HistoryProofs` | theorems about the ring | extends `History` |
| `LWatcherProofs` | theorems about the daemon | extends `LWatcher`, `HistoryProofs` |
| `KWatchProofs` | theorems about `KHistory` and `KWatch` | extends `KWatch` |
| `SenderProofs`, `LockedMoveProofs` | theorems about either | extend either |
| `TransferProofs` | theorems about `Upload` and the composition | extends `Transfer` and the two above |
| `NotifyProofs`, `ConfigProofs` | theorems about either | extend either |

Next: `Notify` with directories that disappear (`add_watch` ends the program),
and with `lwatcher` and `kwatcher` above it.

## Models and code

In all models a file is the pair of its date and its type, dates are numbers
whose order is the order of time, and a file name is the date it carries. Log
output, option parsing, the regular expressions and `malloc` failures (which
exit) are left out. Definitions named as mutants in their comment (`..._over`,
`Succ_short`, ...) are plausible mistakes; nothing uses them but the mutation
entries of `PROJECT.json`.

**History.** `date`, `fname`, `prodhistp`, `conshistp`, `numhist` are the C
variables; `disk` is the set of files of the data directory. One action per
outcome of `histput`: `PutSame`, `PutNew`, `PutForced` (the oldest pending entry
is given up), `PutLate` (found in an older slot), `PutNotFound` (unlinked); and
`histremove`, both under the mutex, so each is one step. `fname[s][t] # date[s]`
says that slot `s` would hand out a file of another date under its own.
`Timely` is an assumption on the environment: no file is older than `Late`
recorded entries. `HistoryAssumption` says what the code does not check: that
the `-h` option stays within `MAX_HISTORY`, and the types within `FNAME_MAX`
(`histput` tests `tent > FNAME_MAX`, one too weak).

**LWatcher.** The watcher thread is `watcher`, `watcher_forced`,
`watcher_notfound`: one `histput` with the signals at its end. The transfer
thread is one action per access to shared data: each test of `hp->fname[i]`,
each `open`, the reply, the removal. `wait1` and `wait2` are the two condition
waits; `waithist` and `waithist2`, which say that the thread is there, are not
separate variables. Spurious wake-ups are not modelled (both waits
re-test in a loop, so they would add the step `histget` does). `retval` starts
as `JUNK`: it is on the stack and not initialised. An application that dies
leaves a socket that either reads as closed for ever or is reset. In the model
a client that sends CLOSE waits for the server to take it. `overrun` counts
forced removals while the thread uses an entry; the bound `MaxOverrun` is an
assumption on how slow a request may be against the arrivals. It stands at 2:
the slots that `KEEP_FILE_COUNT` = 3 keeps behind the reader.

**KHistory.** The state is that of `kwatcher.c`; `files` is the result of
`mkhist`. `MkSame`, `MkLate` (with the one or two entries searched, and the
pointer left there), `MkAgain` and `MkNew` are its paths. The unlinks of an entry
are one step here; in `KWatch`, where the application may read meanwhile, each is
a step (`unlink`), and `doomed` are the files that are still there. Names that do
not parse, other types and failed renames change nothing and are left out.

**KWatch.** `content` and `holder` are the two READY files, an `flock` being a
property of the open file that the kernel gives up when its holder dies.
`kpc` and `cpc` are the control points of kwatcher and the application.
`locked_write` writes and closes: one step, as no one else may write.
Between it and `locked_lock` kwatcher holds no lock. `jitopen` is taken to run in
the data directory (it opens the bare name); when that fails it returns without
closing the lock file (`jitopen_fail`). `MaxLate` files may come after one of a
newer date; each may be in the ring or not. `MaxSkipped` bounds how many dates in
a row stay incomplete, `MaxDeaths` how often each side is started again. `part` is
what rank 0 of the application has read, `others` what the other ranks have: they
call the library together, `jitclient.c` lets rank 0 do it and broadcasts. In
`MPI_Bcast` the source of a type is the area after as many areas as files were
read before it, while `_jitget` reads into one area per type.

**Sender.** The child sftp is external. As `sftp_put` expects of it, it carries
out one command after the other and answers each once; with `-b` it exits at the
first failure. `put_cmd` is a write step and a read step; the latter takes an end
of file for an answer, as the code does (`cc < 0`), and a write to a pipe nobody
reads ends the process by SIGPIPE, which it does not handle. `keepproc` is the
`-k` option, chosen at the start. `events` is kwatcher's inotify queue,
`kwatcher_reads` its reading of a notification file, which may have been
overwritten since.

**Notify.** A directory is the sequence of numbers on its path; directories are made
in the order of their paths, as those named after times are, and stay. Per watch of
inotify there is a number, a directory and the name the program keeps for it in
`wdirs`. The control points of `mynotify` are `start` (one `add_watch` after the
other), `select`, `event` and `adding`: directories and files may come between any
two watches. `resetting` is the new instance taken when the numbers run out: the
events not read are gone, `qrmdir` is not. With `sdirflag` (option `-S`)
`dirs_check` returns the directories below a new one in the order of some walk. It
goes wrong in three ways (`Astray`; at control point `astray` the model stops): a
regular file makes it walk into a wrong name; where `readdir` gives no types
(`Untyped`) it enters `.` again and again; and more than `MAX_SUBDIRS` directories
overrun `dirent`. `owed` are the files closed while their directory was watched and
not yet announced; events of `IN_CREATE` for files and of `IN_IGNORED` do nothing
and are left out.

**LockedMove.** `locked_move` is one action per system call that others can see:
the lock with the truncation of the destination, each block of the copy, the
`unlink`, the write of the name with the release of the lock. Every error of
`open`, `read` or `write` ends the program, which is `move_dies`; files closed
while it is not running are not announced afterwards. The application is that of
`KWatch`. `septype` finds a name only with a separator behind it and
`locked_move` writes none, so `jitget` succeeds with no file (`jitget_none`) and
`jitopen` fails and keeps the lock (`jitopen_none`).

**Upload.** libmicrohttpd is external: one thread takes whatever has come on any
connection, and its post processor cuts a file into chunks of at most `MaxChunk`
cells. `FirstFile`, `NoFirstFile`, `NextFile`, `NoNextFile` and `SameFile` are the paths of
`post_progress`; `Fwrite` is its loop, which takes the number of items `fwrite`
returns for a number of bytes. What the daemon has written last is still in the
buffer of stdio (up to `BUFSIZ` cells), and `fclose` may fail to write it:
`FlushFails` cuts off some of it. At the end of a form that is only reported and OK
is answered (`uploadfile_end`); before a next file it ends the form (`NoNextFile`).
`closed` tells a file all written from one cut short. The names of the files of a
form are kept by libmicrohttpd and freed with the next part, so what the comparison
at `http_daemon.c:143` gives for a second file is open, and both outcomes are in the
model. `disk_full` is the same loop when nothing can be written; that room is made
on the disk later is left out. An upload that is given up leaves context and file as
they are (`reqcomplete_aborted`).

**Transfer.** The method is a function of the URL, `trans_type`, chosen once. Its
alternatives do not share state, so each behaviour of the composition is one of
`Sender`, `LockedMove` or `Upload`, under the choice the code makes. An `http:`
URL has a colon and is refused before the test for `http:`, although
`00README.txt:21-23` and `doc/jit-dt.tex:642-643` name it: files go by http with
the program `http_put` only.

**Config.** The reader is a machine over tokens; a control state is a place in a
block. A file begins as the text the documented grammar (`doc/jit-dt.tex:569-583`)
gives a list of blocks, `meant`, so that what is read can be compared with what was
written, or as one of `Texts`, any other sequences of tokens. A region's name may be
written with quotation marks or, as in the example of the documentation, without
(`Name`); `Lexed` is what `gettoken` makes of it: of a name without them, leading
digits become a number and a keyword stays a keyword. `AllPlain` says that each name
of a file is one string token. The two tokens after a keyword are tested together
(`Fits`, the `&&` of `regexplib.c:36`), the value taken is whatever string came last
(`Buf`), and an error token ends a block as an end of file would (`cut_block`). Of
an item written twice the last counts (`Value`), as with the `strcpy` of
`regexplib.c:37`; strings are printable and shorter than `STR_LEN`.

## Runs

| Run | Question | Bounds, and why they are enough |
|---|---|---|
| `history` | Is the ring consistent, does it leak, mix or lose files, and is it a bounded queue? | `nh = 3`, lengthened to the shortest ring of 5; 8 dates let the writer pass every slot and reuse it; 2 types, so entries are incomplete and complete; `Late = 1` |
| `lwatcher_safety` | Are replies whole, never repeated, and the right entries removed, with both threads interleaved, an application dying, and both `jitget` and `jitopen`? | the shortest ring, where the reader is closest to the removals; 5 dates force removals; 2 forced removals per request; one death |
| `lwatcher_live` | Is every `jitget` answered? | two applications, so one may wait for the other; one type, because with two the wake-up can be lost (below); no deaths (below) |
| `kwatch_safety` | Is what the application reads recent, of one date and never taken twice; does the ring keep one entry per date and only give up the oldest? | ring of 3 (`-h 3`) and 4 dates, so that it turns round; one late file, at most one entry back; two incomplete dates in a row; one death of the application; `jitget` and `jitopen` |
| `kwatch_live` | Does kwatcher always get its lock again, across deaths of either side; are the files still there when read; do all ranks hold the same? | ring of 3, 4 dates in order, one incomplete date (`nhist - 2`: with more the files may be gone), one death each |
| `transfer` | By sftp, are notifications truthful, complete and in order; by lock, are files never lost and named only when whole, and does the mover go on; by http, is what was answered OK stored and are files refused only for want of descriptors? | sftp: 3 notification files in place of 10 and 6 files, so that each is reused, one failure, one late answer, kwatcher at most 3 behind; lock: 4 files, so that each READY file is used twice, 2 blocks, one death each, `jitget` and `jitopen`; http: 3 uploads, one of them of two files, 2 files open at most, 3 cells in chunks of up to 2, so that a chunk has a middle and a chunk an end, and a buffer of 2, so that a failed flush may lose part of a chunk or more than one |
| `notify` | Are events taken for the right directory, and every file closed in a watched directory announced, while directories come faster than they are handled? | `wdirs` of 9 and 11 directories, so that the watch numbers run out and a new instance begins; `qrmdir` of 2 turns round; 2 events not handled, 3 directories in one not watched yet, so that walks find 1 to 3 directories or, with 4, overrun `dirent`; one directory without types; one file at a time, since the properties are about each file for itself |
| `config` | Is a file of the grammar applied as it was meant, and do the tables hold against any other? | all files of up to 4 blocks out of 7 (four regions, one of them with the name `""`, and three `sync`), tables of 2, so that both overflow; all files of up to 3 blocks out of these and regions named `1kobe`, `2017` and `date` without quotation marks; as `Texts`, every damage of one token to the files of up to 2 of the 7 blocks |
| `lwatcher_lost_wakeup`, `lwatcher_dead_peer`, `sender_hangs`, `upload_garbled` | expected violations | see the findings |

`CHECK_DEADLOCK FALSE` everywhere: dates and files are finite in number, and when
the last one has arrived the programs rightly wait for another; a configuration
that is refused ends the program.

Properties hold for what the comments before them say. The conditions in them are
sharp, TLC finds a counterexample without each:

- `History`, `Late = 2`: a file two entries late is put in a slot that
  `_histremove` has emptied; the slot is later opened again without being
  cleared and names files of two dates (`OneDatePerEntry`). Found by hand-made
  variants of `MCHistory.cfg`.
- `Config`, `ReadsAsMeant` without `Named`: an area with the name `""` ends the
  walk of `regex_match` (`regexplib.c:273`), and the regions after it are never
  reached.
- `Config`, `ReadsAsMeant` without `AllPlain`: the documentation allows any string
  for the name of a region (`doc/jit-dt.tex:562`), or any of letters and digits
  (585), and its example has no quotation marks; but a file with
  `region 1kobe {` is refused (a number and a string, `regexplib.c:105`, fail
  the test at 166), and `region 2017 {` or `region date {` is accepted with the
  string read before for its area. In quotation marks each is taken.
- `LWatcher`, `RemovesServed` without `overrun = 0`: after a forced removal
  `histremove` drops the entry after the one handed out, which nobody was given.
- `LWatcher`, `MaxOverrun = 3`: replies are no longer whole; `MaxOverrun = 4`: a
  date is handed out again (`NeverAgain`), since the slot in use is taken.
- `LWatcher`, `RepliesWhole` with requests for one file and for two: `nsize` is
  shortened by the first (`lwatcher.c:231`), belongs to the thread and is never
  set back; the later request for two is answered with one.
- `KWatch`, `KeepsHistory`, `OneEntryPerDate`, `DiskInRing` and `TakenOnce` after a
  late file (`late = 0` dropped): `curhistp` stays on the older entry, and a newer
  entry is given up or opened again; an observation then completes twice.
- `KHistory` with one sync type: the file that opens an entry completes it, `mkhist`
  returns nothing, and the observation is never made known.
- `KWatch`, `RanksAgree` after a death of kwatcher, or with more incomplete dates:
  kwatcher unlinks the first file of an entry, `jitget` misses it and reads the
  second; rank 0 has that in its own area, the others take it for the first.
- `Notify`, `EachAnnounced` with `Rewrites = TRUE`: a name written again right
  after its announcement is taken for the same file.
- `Notify`, `GraceKept` with `MAX_DIRS = 8` and `PathWatched` with `MAX_DIRS = 7`,
  both without `sdirflag` and with `MAX_KEEPDIR = MaxDepth = 2`, `MaxTops = 6`,
  `MaxDirs = 13`, `MaxBlind = 1` and no files: a number left in `qrmdir` by the old
  instance comes up in the new one, and a directory in use is given up. The
  condition of the theorems, `MAX_DIRS > 8` here, cannot be weaker. The 2881 and
  10 of the code allow a depth of 144 without `sdirflag`.
- `KWatch`, `GotWhole` and `RanksAgree` with `MaxSkipped = 2` and a ring of 3: the
  files of an observation still in a lock file are removed. A late file does the
  same to `GotWhole`.
- `KWatch`, `GotWhole` after a death of kwatcher: a lock file with an unread
  observation keeps names of files that are removed.
- `KWatch`: `jitget` may return success without data, when the application has
  created the lock file itself (`EMPTY`) and its buffer still holds a name; and an
  application that kwatcher has overtaken waits behind kwatcher's lock although
  the other file has an unread observation, then reads the older one after the
  newer. No property here excludes either.
- `KWatch` with `jitopen` and `KWatcherGoesOn`: after `jitopen_fail` the lock is
  kept until the application dies.
- `Sender`, `EachIsTold` and `GotInOrder` with `MaxBehind` above `F_VERSION_M`: a
  notification is overwritten before it is read.
- `Sender`, `EachIsTold` after a late answer: the number does not move on and the
  next notification takes the place of an unread one.
- `LockedMove`, `MoverGoesOn` without `Kept`: one `jitopen` keeps the lock for good.
- `Upload`, `RepliedIsStored` without `closed[f] = "all written"`: an upload is
  answered OK although the last flush failed and its end is lost.
- `Upload`, `RepliedIsStored` without `~stopped`: a file that could not be created
  is answered OK all the same (`http_daemon.c:214` does not look at the result).
  With forms of two files the second may be written to the end of the first, or be
  refused after an `fclose`, which the end of the form repeats (`httpd = "broken"`).
- `Config`, for damaged files: `regex_match` may reach an entry whose pattern was
  never compiled, because the end of a block is missing (`at = "crashed"`); a file
  with `region { kobe` is accepted. A pattern `regcomp` refuses does the same in a
  good file, since its error codes are positive and the test is for a negative one.

## Findings

| Run | Where | What |
|---|---|---|
| `lwatcher_lost_wakeup` | `lwatcher.c:219` | the entry is tested without the mutex and the wait begins later; the last file of an entry may come in between |
| `lwatcher_dead_peer` | `jitcclient.c:132` | `netread` loops on end of file, so a client that dies after `connect` stops the transfer thread for all |
| `sender_hangs` | `translib.c:344` | `waitpid` before the pipe is closed: after a late answer sender and sftp wait for each other |
| `upload_garbled` | `http_daemon.c:163` | `fwrite` returns 1 for one item; the loop subtracts it from the bytes and writes the chunk again, one byte shorter each time |

## Fairness

- `LWFairness`: the transfer thread is scheduled, and an application inside a
  library call goes on with it. No file has to arrive and no application has to
  call.
- `KWFairness`: both processes are scheduled. Locks are taken with strong
  fairness: each is released and taken again infinitely often, and the kernel
  serves the waiters of an `flock` in turn, so it does not pass over one for ever.
- `LMFairness`: as `KWFairness`, for the mover and its application. In `Transfer` it
  is the only fairness assumed; the other properties there are about safety.
- `SFairness`: sender, sftp and kwatcher are scheduled; late answers and failures
  never have to happen.

## Proofs

Every theorem holds for all values of the constants that the module's
assumption allows: any length of the rings within the option's limits, any
number of types, dates, files, connections, forms, directories and deaths. The
bounds of the models (`MaxDeaths`, `MaxFails`, ...) are any natural numbers. What
a theorem assumes beyond that is in its last column; each such condition is
sharp, or named as a limit of the code in [runs](#runs).

| Module | Theorem | Property of a run | Assumes |
|---|---|---|---|
| `HistoryProofs` | `TypeCorrect`, `Pointers`, `Descending` | `HistTypeOK`, `PointersAgree`, `DatesDescend` | |
| | `OneDate`, `DiskAccounted`, `Keeps` | `OneDatePerEntry`, `DiskIsRegistered`, `KeepsRecent` | `Late <= 1` |
| | `AheadEmpty` | none; `OneDate` rests on it | `Late <= 1` |
| | `Implements` | `ImplementsQueue` | `Late <= 1` |
| `LWatcherProofs` | `DaemonTypeCorrect`, `DaemonIsHistory`, `NeverMissed`, `RemovedWasServed` | `LWTypeOK`, `HistSpec`, `NoMissedEntry`, `RemovesServed` | |
| | `DaemonIsQueue` | (`ImplementsQueue`, of the daemon) | `Late <= 1` |
| | `HandedOutOnce` | `NeverAgain` | `MaxOverrun <= KEEP_FILE_COUNT` |
| | `RepliesAreWhole` | `RepliesWhole` | `Late <= 1`, `MaxOverrun < KEEP_FILE_COUNT`, all ask for the same number of files |
| `KWatchProofs` | `KWTypeCorrect`, `EntriesOfOneDate` | `KWTypeOK`, `KOneDate` | |
| | `NoSecondEntry`, `OldestGivenUp` | `OneEntryPerDate`, `KeepsHistory` | (no file late) |
| | `DirectoryInRing` | `DiskInRing` | no death of kwatcher (no file late) |
| | `ReadsRecent`, `TakesOnce` | `GotRecent`, `TakenOnce` | no death of kwatcher |
| | `ReadsWhole`, `AllRanksAgree` | `GotWhole`, `RanksAgree` | `MaxSkipped + 2 <= nhist`, no file late (no death of kwatcher) |
| `SenderProofs` | `SenderTypeCorrect`, `NotifiedIsThere` | `NamedIsThere` | |
| | `TakenInOrder`, `EachTold` | `GotInOrder`, `EachIsTold` | `MaxBehind <= F_VERSION_M` |
| `LockedMoveProofs` | `LockedMoveTypeCorrect`, `MovedNotLost`, `NamesWhole` | `NothingLost`, `NamedIsWhole` | |
| `TransferProofs` | `UploadTypeCorrect`, `OkIsStored`, `OnlyFullRefuses` | `RepliedIsStored`, `RefusedWhenFull` | |
| | `TransferTypeCorrect`, `TransferKeepsPromises` | `TTypeOK` and the five above, of the composition | |
| | `TransferInOrder` | `GotInOrder`, `EachIsTold`, of the composition | `MaxBehind <= F_VERSION_M` |
| `NotifyProofs` | `NotifyTypeCorrect`, `WatchesNamed` | `NTypeOK`, `NamesWatched` | |
| | `AllAnnounced` | `EachAnnounced` | `~Rewrites` |
| | `PathStaysWatchedAlone` | `PathWatched`, `GraceKept` | `MAX_DIRS > 2 * MAX_KEEPDIR * MaxDepth`, no `sdirflag` |
| | `PathStaysWatched` | `PathWatched`, `GraceKept` | `MAX_DIRS > 2 * MAX_KEEPDIR * MaxDepth * B`, no walk finds more than `B` directories |
| `ConfigProofs` | `TablesHold` | `CTypeOK` | |
| | `ReadAsMeant` | `ReadsAsMeant` | (patterns compile, names are one string token, none is `""`) |

A condition in brackets is part of the property itself. "No death of kwatcher"
and "no file late" hold of a state: a behaviour is covered up to the first.

**The ring of lwatcher.** The argument has two layers. `RingShape` is inductive
on its own, whatever arrives: the types, `PointersAgree`, `DatesDescend`, and
`Fresh`, which says that nothing has happened while the newest date is 0 (needed
because the first date stays in the slot `prodhistp` already points at). A new
date overwrites the slot farthest back; `DatesDescend` then is the old order
shifted by one (`AdvanceDates`). `RingContents` is inductive together with it if
no file is more than one entry late: `OneDatePerEntry` is not inductive alone,
since `histput` does not clear the slot it opens. It needs `SlotsAheadEmpty`:
from `KEEP_FILE_COUNT` behind the reader up to the writer all slots are empty,
which removals establish (`VictimPlace`) and late files do not disturb, because
they go at most one slot back from the newest (`LatePlace`) - that is where
`Late <= 1` comes in. `DiskIsRegistered` follows slot by slot (`DiskStep`), using
that a date is in one slot only (`DatesDistinct`). `Keeps` is an action property:
the victim of a removal lies `numhist + 2` or more behind the newest entry
(`KeepsStep`).

The refinement maps the ring to the queue of its `numhist` pending dates, oldest
first (`Pending`). Each outcome of `histput` and `histremove` then is one of the
queue's actions or a stutter (`QueueStep`): a new date appends, a forced removal
drops the head and appends, `histremove` drops the head, late files stutter.

**The daemon.** `DaemonInv` adds to `RingShape` who is at which control point,
that an entry is pending while the thread uses one (`Held`), and that the thread
sleeps only on an empty ring (`Asleep`). So `histremove` is only called with an
entry there, every step is one of `HistNext` or leaves the ring alone, and the
theorems about the ring carry over (`DaemonIsHistory`). Which entry is removed
needs `Follows`: the slot `hp` lies `overrun` places behind the oldest pending
entry and keeps its date until `KEEP_FILE_COUNT` were given up. `PendingNewer`
bounds everything pending from below by what was handed out. `Copied` says what
has been tested and copied of an entry that is read with no lock; it survives
the other thread's steps because that thread changes `fname` of slots that are
not `hp`, or adds a file to it.

**kwatcher.** The invariant has parts that rest on each other in this order.
`RingFalls`: without late files dates fall from the pointer backwards, hence no
second entry for a date, and only the oldest given up. `Registered`: the
directory is what the ring names, file by file. `Reading` and `InTurn`: each of
the two lock files holds the last or the last but one date made known, according
to whose turn it is, and what is being read stays in its file. `SaidOnce`: what
is in a lock file has not been taken. `SaidThere`: the observations that can
still be read are on disk; this is where the length of the ring comes in: the two
dates in the lock files, and the incomplete ones after them, take at most
`MaxSkipped + 2` entries. `HasRead` then says what rank 0 has of the observation
after each file, and that the others have the same after the broadcast.

**The sender.** `Conversation` says that at every control point that writes, both
pipes are empty and no answer is outstanding, so that an answer read is that to
the command last written; it also holds across a late answer, since the sender
then gives up the child. `PutBefore` makes a notification follow its file. For
the numbers modulo `F_VERSION_M`, `LagOf` is the distance of an unread
notification behind the number in use. `LagsFall` (in order, with late answers)
and `LagsExact` (without them, the distance is the place in the queue) replace
arithmetic on the numbers; `Told` is `EachIsTold` at every control point.

**The mover.** Neither property is inductive: what a step does to a file depends
on how far that file is. `Progress` fixes, for the one file being moved, what is
in either directory at each control point, and `NamesKnown` that nothing after
it has been named.

**The upload server.** `Intact` says for each request that what has come is in its
file. When the last flush fails, what is left is a prefix of it, and `InOrder` is
closed under prefixes; this is what remains of an upload answered OK then.
`Connected` is what a connection knows of its file, and part of `UTypeOK`. The loop
of `Fwrite` is a fold over the bytes left; `FwriteFacts` says what it appends for
any chunk. `InOrder` quantifies over places in a sequence of any length: `Holds` is
its inductive form, and `HoldsMore` extends it by a chunk. Facts about folds over
sequences need an induction; `LeastMember` gives one as a least counterexample, from
the library's theorem that the strict subset ordering of finite sets is
well-founded. Files of different requests differ (`UploadAssumption`), so a chunk
never touches another's file (`HoldsOwn`).

**The composition.** `TransferIsEach` maps every behaviour of `TSpec` to one of
each method, in which the methods not chosen stutter for ever; all else follows.

**Directory watching.** `Numbers` says that watches and events have numbers that
were given out, `InTime` why none is beyond `wdirs`: an instance begins with the
path of one directory and is given up when the last number is. Two numbers given
out then never share a place, which is `NamesWatched`. For `AllAnnounced`,
`OwedHasEvent` is the invariant: a file still owed has its event in the queue or
in what was read, under a number whose name is still that of its directory.

For `PathWatched` two invariants come before. `PathInv` is about the order of
paths: an instance never watches a directory after one below it (`Ordered`), the
current directory is the one watched last (`Latest`), and whatever the pending
events tell of was made after all that is watched or about to be (`Arriving`,
`Behind`). So when a directory is left for a new one, it is older than the new one
and not above it, and no longer on the path to the newest. `RingInv`
is about the numbers in `qrmdir`, each of which is used once `MAX_KEEPDIR` more
directories are left (`Age`). A number of this instance is `Near`: between two
directories left the path goes down only, so at most `MaxDepth * B` numbers are
given out. A number of the old instance was near the end of `wdirs` when the
instance was given up, and stays `Far` ahead of the numbers given out until it
is overwritten; this is where the condition on `MAX_DIRS` comes in. `B` is how
many directories one walk of `dirs_check` finds; it is 1 without `sdirflag`. The
hypothesis `[]WalksWithin(B)` restricts behaviours, not constants: with `sdirflag`
and events handled late a walk may find everything made meanwhile.

**The configuration.** For the tables nothing is assumed of the text: `Texts` is any
set of sequences of tokens. The invariant `TablesInv` is that inside a `region`
block `cent < MAX_CONF`.

`ReadAsMeant` is for files of any number of blocks, each with any number of items.
`ReadInv` splits the blocks that were meant in those behind the reader and those
to come: the tokens left are the text of what is to come (`TopRest`,
`RegionRest`, `SyncRest`), as long as every name is one string token
(`PlainName`), and the tables hold what the blocks behind mean
(`Filled`). `TopTokens`, `RegionTokens` and `SyncTokens` tell the next tokens
from what is to come; so no test of `readconf` fails but those of the size. Text
and meaning are both flattened sequences: `FlatAppend` and `FlatConcat` say how
`FlattenSeq` grows, the one induction here, by `LeastMember` as above. At the
end nothing is to come, and `WalkIsMeant` compares where the walk of
`regex_match` ends with the first region that matches.

Model-checked and not proved:

- Liveness (`CompleteIsAnswered`, `KWatcherGoesOn`, `MoverGoesOn`), which the proof
  system does not do, as it has no rules for `ENABLED` and fairness.
- The expected violations, by their nature.

## Not modelled

- `inotifylib.c`: an earlier version of `inotifylib2.c` that no target links. Of the
  latter, directories that disappear or cannot be opened (`dirs_check` then returns
  0 and nothing below is watched) and the overflow of the kernel's queue. The other
  models take from `mynotify` that a closed file is announced, in order.
- Of `regexplib.c`, tokens longer than `STR_LEN`, quoting inside strings, items
  written without quotation marks, and the
  substitution of `$1`..`$9` in the formats; `regcomp` and `regexec` are external.
- Of `http_daemon.c`, GET (`browsefile` keeps no state), a first file whose name
  `fopen` refuses, room made on a full disk, and the stop of the daemon.
- `jitclient.c` above `jitcclient`: the same broadcasts as above `jitkclient`.
- Logging, time conversion, `mydaemonize`: no state anyone reads.
- `scp_put`: one call of `system`. The function `http_put` of `translib.c`: no URL
  reaches it.
- `watch2_and_transfer.c`: an earlier sender that no target installs.
- Test programs, generators and scripts: drivers of the components above.
- In modelled components: a read error of a file lwatcher has just opened
  (`lwatcher.c:251`; its -1 goes into the size of the reply) and a failing
  `system` in `sftp_put` (`translib.c:323`; it returns without notification), the
  descriptors that `CMD_CLOSE` and `CMD_EXIT` leave
  open, a `-h` option or a number of types beyond the arrays, the SIGINT handler
  of `watch_and_transfer`, the `-DUSE_LOCKF` build.
