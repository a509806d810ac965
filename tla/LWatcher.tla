----------------------------- MODULE LWatcher ------------------------------
(***************************************************************************)
(* The lwatcher daemon: a watcher thread that puts every arriving file in  *)
(* the history, a transfer thread that serves one TCP connection at a      *)
(* time, and the applications, which call jitget, or jitopen, jitread and  *)
(* jitclose (jitcclient.c).                                                *)
(*                                                                         *)
(* The ring is protected by a mutex, but the transfer thread keeps a       *)
(* pointer hp to the entry histget returned and reads it with no lock.     *)
(* Each of those reads is a step of its own here.  A condition wait is a   *)
(* control point (wait1 for cond, wait2 for cond2) that only a signal      *)
(* leaves; waithist and waithist2 say that the thread is there.            *)
(***************************************************************************)
EXTENDS History, FiniteSets

CONSTANTS Clients,      \* application processes
          NoClient,     \* no connection
          Counts,       \* values of the count argument of jitget
          OpenTypes,    \* types asked for with jitopen
          MaxOverrun,   \* forced removals while the thread uses an entry
          MaxDeaths     \* applications that die in the middle of a call

sync_nsize == Cardinality(Types)

ASSUME LWatcherAssumption ==
  /\ NoClient \notin Clients
  /\ Counts \subseteq 1..sync_nsize /\ OpenTypes \subseteq Types
  /\ MaxOverrun \in Nat /\ MaxDeaths \in Nat

\* What was on the stack: neither a date nor the absence of a file.
JUNK == -1

VARIABLES
  tpc,      \* control point of the transfer thread
  sock,     \* the connection it serves
  hp,       \* the slot histget returned
  i,        \* its loop index
  nsize,    \* number of types it sends; outlives the connections
  retval,   \* retval[t]: date of the file copied for type t, or JUNK
  tfd,      \* the file opened for CMD_OPEN, <<>> if open failed
  served,   \* date of the entry last handed out
  done,     \* served, at the last removal made by this thread
  overrun,  \* forced removals since histget returned hp
  backlog,  \* connections not yet accepted
  cl,       \* cl[c]: what application c does: st, cmd and its argument
  alive,    \* alive[c]: its process still runs
  reply,    \* reply[c]: the last answer c got to a jitget
  deaths

tvars == <<tpc, sock, hp, i, nsize, retval, tfd, served, done>>
cvars == <<backlog, cl, alive, reply, deaths>>
lwvars == <<hvars, tvars, overrun, cvars>>

Idle == [st |-> "idle", cmd |-> "none", arg |-> 0]
NoReply == [date |-> 0, part |-> [t \in Types |-> JUNK]]

\* From histget until the entry is dropped the thread relies on hp.
Using ==
  \/ tpc \in {"check", "copy", "open", "send", "openentry", "remove"}
  \/ /\ tpc = "getcmd"
     /\ cl[sock].st = "opened" \/ cl[sock].cmd \in {"READ", "CLOSE"}

LWInit ==
  /\ HistInit
  /\ tpc = "accept" /\ sock = NoClient /\ hp = 0 /\ i = 0
  /\ nsize = sync_nsize
  /\ retval = [t \in Types |-> JUNK] /\ tfd = <<>>
  /\ served = 0 /\ done = 0 /\ overrun = 0
  /\ backlog = <<>>
  /\ cl = [c \in Clients |-> Idle] /\ alive = [c \in Clients |-> TRUE]
  /\ reply = [c \in Clients |-> NoReply] /\ deaths = 0

-----------------------------------------------------------------------------
(* The watcher thread: histput, and the signals at its end.                *)

\* Mutant: only the second condition variable is signalled.
Signal_cond2 ==
  /\ tpc' = IF tpc = "wait2" THEN "histget" ELSE tpc
  /\ UNCHANGED <<sock, hp, i, nsize, retval, tfd, served, done, cvars>>

Signal ==
  /\ tpc' = IF tpc \in {"wait1", "wait2"} THEN "histget" ELSE tpc
  /\ UNCHANGED <<sock, hp, i, nsize, retval, tfd, served, done, cvars>>

\* A file registered in the ring wakes the transfer thread if it waits.
watcher(d, t) ==
  /\ Timely(d)
  /\ PutSame(d, t) \/ PutNew(d, t) \/ PutLate(d, t)
  /\ Signal
  /\ UNCHANGED overrun

\* The same when the oldest entry had to be given up.
watcher_forced(d, t) ==
  /\ Timely(d)
  /\ Using => overrun < MaxOverrun
  /\ PutForced(d, t)
  /\ Signal
  /\ overrun' = IF Using THEN overrun + 1 ELSE overrun

\* A file that finds no entry is unlinked and nobody is woken.
watcher_notfound(d, t) ==
  /\ Timely(d)
  /\ PutNotFound(d, t)
  /\ UNCHANGED <<tvars, overrun, cvars>>

-----------------------------------------------------------------------------
(* The transfer thread.                                                    *)

accept ==
  /\ tpc = "accept" /\ backlog # <<>>
  /\ sock' = Head(backlog) /\ backlog' = Tail(backlog)
  /\ tpc' = "getcmd" /\ tfd' = <<>>
  /\ retval' = [t \in Types |-> JUNK]
  /\ UNCHANGED <<hvars, hp, i, nsize, served, done, overrun,
                 cl, alive, reply, deaths>>

\* The call is over for application sock as well.  One that died is started
\* again as a new process.
Ended ==
  /\ cl' = [cl EXCEPT ![sock] = Idle]
  /\ alive' = [alive EXCEPT ![sock] = TRUE]

\* A command that works on the oldest entry.
getcmd_entry ==
  /\ tpc = "getcmd" /\ cl[sock].st = "asked"
  /\ cl[sock].cmd \in {"GET", "OPEN"}
  /\ tpc' = "histget"
  /\ UNCHANGED <<hvars, sock, hp, i, nsize, retval, tfd, served, done,
                 overrun, cvars>>

\* Mutant: the entry is removed once its file has been read.
getcmd_read_removes ==
  /\ tpc = "getcmd" /\ cl[sock].st = "asked" /\ cl[sock].cmd = "READ"
  /\ cl' = [cl EXCEPT ![sock].st = IF alive[sock] THEN "opened" ELSE "reset"]
  /\ histremove
  /\ UNCHANGED <<tvars, overrun, backlog, alive, reply, deaths>>

\* CMD_READ: the open file is read and the connection kept.
getcmd_read ==
  /\ tpc = "getcmd" /\ cl[sock].st = "asked" /\ cl[sock].cmd = "READ"
  /\ cl' = [cl EXCEPT ![sock].st = IF alive[sock] THEN "opened" ELSE "reset"]
  /\ UNCHANGED <<hvars, tvars, overrun, backlog, alive, reply, deaths>>

\* CMD_CLOSE: on to histremove.
getcmd_close ==
  /\ tpc = "getcmd" /\ cl[sock].st = "asked" /\ cl[sock].cmd = "CLOSE"
  /\ tpc' = "remove"
  /\ UNCHANGED <<hvars, sock, hp, i, nsize, retval, tfd, served, done,
                 overrun, cvars>>

\* Mutant: the socket of the finished connection is kept.
getcmd_exit_kept ==
  /\ tpc = "getcmd" /\ cl[sock].st = "reset"
  /\ tpc' = "accept"
  /\ Ended
  /\ UNCHANGED <<hvars, sock, hp, i, nsize, retval, tfd, served, done, overrun,
                 backlog, reply, deaths>>

\* The peer reset the connection: read fails, CMD_EXIT.  When the peer only
\* closed it, read returns 0 for ever, netread never returns and no action
\* of the thread is possible.
getcmd_exit ==
  /\ tpc = "getcmd" /\ cl[sock].st = "reset"
  /\ tpc' = "accept" /\ sock' = NoClient
  /\ Ended
  /\ UNCHANGED <<hvars, hp, i, nsize, retval, tfd, served, done, overrun,
                 backlog, reply, deaths>>

\* Mutant: the newest entry is handed out.
histget_newest ==
  /\ tpc = "histget"
  /\ IF numhist > 0
     THEN /\ tpc' = IF cl[sock].cmd = "GET" THEN "check" ELSE "openentry"
          /\ hp' = prodhistp /\ i' = 0 /\ overrun' = 0
     ELSE /\ tpc' = "wait1"
          /\ UNCHANGED <<hp, i, overrun>>
  /\ UNCHANGED <<hvars, sock, nsize, retval, tfd, served, done, cvars>>

\* histget: the oldest entry, or wait for one.  Also where both waits resume.
histget ==
  /\ tpc = "histget"
  /\ IF numhist > 0
     THEN /\ tpc' = IF cl[sock].cmd = "GET" THEN "check" ELSE "openentry"
          /\ hp' = conshistp /\ i' = 0 /\ overrun' = 0
     ELSE /\ tpc' = "wait1"
          /\ UNCHANGED <<hp, i, overrun>>
  /\ UNCHANGED <<hvars, sock, nsize, retval, tfd, served, done, cvars>>

\* CMD_GET looks, with no lock, whether all types have arrived.
check_one ==
  /\ tpc = "check" /\ i < nsize
  /\ IF fname[hp][i] = NULL THEN tpc' = "histwait" /\ UNCHANGED i
                            ELSE i' = i + 1 /\ UNCHANGED tpc
  /\ UNCHANGED <<hvars, sock, hp, nsize, retval, tfd, served, done, overrun,
                 cvars>>

\* All are there.  A request for fewer files shortens nsize, for good.
check_done ==
  /\ tpc = "check" /\ i >= nsize
  /\ nsize' = IF cl[sock].arg < nsize THEN cl[sock].arg ELSE nsize
  /\ i' = 0 /\ tpc' = "copy"
  /\ UNCHANGED <<hvars, sock, hp, retval, tfd, served, done, overrun, cvars>>

\* histwait takes the mutex only now and waits for the next signal.
histwait ==
  /\ tpc = "histwait"
  /\ tpc' = "wait2"
  /\ UNCHANGED <<hvars, sock, hp, i, nsize, retval, tfd, served, done,
                 overrun, cvars>>

\* The copy loop tests the pointer again ...
copy_test ==
  /\ tpc = "copy"
  /\ tpc' = IF i < nsize /\ fname[hp][i] # NULL THEN "open" ELSE "send"
  /\ UNCHANGED <<hvars, sock, hp, i, nsize, retval, tfd, served, done,
                 overrun, cvars>>

\* ... and opens and reads the file it then names, if it is still there.
copy_open ==
  /\ tpc = "open"
  /\ retval' = IF <<fname[hp][i], i>> \in disk
               THEN [retval EXCEPT ![i] = fname[hp][i]] ELSE retval
  /\ i' = i + 1 /\ tpc' = "copy"
  /\ UNCHANGED <<hvars, sock, hp, nsize, tfd, served, done, overrun, cvars>>

\* trans_replyget went well.  A dead peer may still look alive to send().
send_ok ==
  /\ tpc = "send"
  /\ served' = date[hp] /\ tpc' = "remove"
  /\ IF alive[sock]
     THEN /\ reply' = [reply EXCEPT ![sock] =
                         [date |-> date[hp], part |-> retval]]
          /\ cl' = [cl EXCEPT ![sock].st = "answered"]
          /\ UNCHANGED alive
     ELSE Ended /\ UNCHANGED reply
  /\ UNCHANGED <<hvars, sock, hp, i, nsize, retval, tfd, done, overrun,
                 backlog, deaths>>

\* trans_replyget failed: the entry is kept.
send_failed ==
  /\ tpc = "send" /\ ~alive[sock]
  /\ served' = date[hp]
  /\ tpc' = "accept" /\ sock' = NoClient
  /\ Ended
  /\ UNCHANGED <<hvars, hp, i, nsize, retval, tfd, done, overrun,
                 backlog, reply, deaths>>

\* CMD_OPEN: wait for the type asked for, open its file, and answer.
open_entry ==
  /\ tpc = "openentry"
  /\ LET t == cl[sock].arg
     IN  IF fname[hp][t] = NULL
         THEN tpc' = "histwait" /\ UNCHANGED <<tfd, served, cl>>
         ELSE /\ tfd' = IF <<fname[hp][t], t>> \in disk
                        THEN <<fname[hp][t], t>> ELSE <<>>
              /\ served' = date[hp]
              /\ cl' = [cl EXCEPT ![sock].st =
                          IF alive[sock] THEN "opened" ELSE "reset"]
              /\ tpc' = "getcmd"
  /\ UNCHANGED <<hvars, sock, hp, i, nsize, retval, done, overrun,
                 backlog, alive, reply, deaths>>

\* histremove, after a jitget answered or a jitclose.
remove ==
  /\ tpc = "remove"
  /\ histremove
  /\ done' = served /\ overrun' = 0
  /\ tpc' = "accept" /\ sock' = NoClient
  /\ IF cl[sock].cmd = "CLOSE" THEN Ended ELSE UNCHANGED <<cl, alive>>
  /\ UNCHANGED <<hp, i, nsize, retval, tfd, served,
                 backlog, reply, deaths>>

transfer ==
  \/ accept \/ getcmd_entry \/ getcmd_read \/ getcmd_close \/ getcmd_exit
  \/ histget \/ check_one \/ check_done \/ histwait
  \/ copy_test \/ copy_open \/ send_ok \/ send_failed
  \/ open_entry \/ remove

-----------------------------------------------------------------------------
(* The applications.                                                       *)

\* netopen
Connect(c) ==
  /\ cl[c].st = "idle" /\ alive[c]
  /\ cl' = [cl EXCEPT ![c].st = "connected"]
  /\ backlog' = Append(backlog, c)
  /\ UNCHANGED <<alive, reply, deaths>>

Ask(c, cmd, arg) == cl' = [cl EXCEPT ![c] = [st |-> "asked", cmd |-> cmd,
                                             arg |-> arg]]

\* jitget of n files, jitopen of type t
AskGet(c) ==
  /\ cl[c].st = "connected" /\ alive[c]
  /\ \E n \in Counts : Ask(c, "GET", n)
  /\ UNCHANGED <<backlog, alive, reply, deaths>>

AskOpen(c) ==
  /\ cl[c].st = "connected" /\ alive[c]
  /\ \E t \in OpenTypes : Ask(c, "OPEN", t)
  /\ UNCHANGED <<backlog, alive, reply, deaths>>

\* jitread and jitclose on the open connection
AskRead(c) ==
  /\ cl[c].st = "opened" /\ alive[c]
  /\ Ask(c, "READ", 0)
  /\ UNCHANGED <<backlog, alive, reply, deaths>>

AskClose(c) ==
  /\ cl[c].st = "opened" /\ alive[c]
  /\ Ask(c, "CLOSE", 0)
  /\ UNCHANGED <<backlog, alive, reply, deaths>>

\* _jitget returns; the application will call it again.
Return(c) ==
  /\ cl[c].st = "answered"
  /\ cl' = [cl EXCEPT ![c] = Idle]
  /\ UNCHANGED <<backlog, alive, reply, deaths>>

\* The process dies; what it has sent can still be read.
Die(c) ==
  /\ alive[c] /\ cl[c].st \in {"connected", "asked", "opened"}
  /\ deaths < MaxDeaths
  /\ alive' = [alive EXCEPT ![c] = FALSE] /\ deaths' = deaths + 1
  /\ UNCHANGED <<backlog, cl, reply>>

client(c) ==
  /\ \/ Connect(c) \/ AskGet(c) \/ AskOpen(c) \/ AskRead(c) \/ AskClose(c)
     \/ Return(c) \/ Die(c)
  /\ UNCHANGED <<hvars, tvars, overrun>>

LWNext ==
  \/ \E d \in Dates, t \in Types :
       watcher(d, t) \/ watcher_forced(d, t) \/ watcher_notfound(d, t)
  \/ transfer
  \/ \E c \in Clients : client(c)

LWSpec == LWInit /\ [][LWNext]_lwvars

\* The threads are scheduled, and an application inside a library call goes
\* on with it.  Nothing obliges files to arrive or applications to call.
LWFairness ==
  /\ WF_lwvars(transfer)
  /\ \A c \in Clients :
       WF_lwvars((AskGet(c) \/ AskOpen(c) \/ Return(c))
                   /\ UNCHANGED <<hvars, tvars, overrun>>)

LWFairSpec == LWSpec /\ LWFairness

-----------------------------------------------------------------------------
(* Properties.                                                             *)

LWTypeOK ==
  /\ tpc \in {"accept", "getcmd", "histget", "wait1", "check", "histwait",
              "wait2", "copy", "open", "send", "openentry", "remove"}
  /\ sock \in Clients \cup {NoClient}
  /\ (sock = NoClient) = (tpc = "accept")
  /\ hp \in Slots /\ i \in 0..sync_nsize /\ nsize \in 1..sync_nsize
  /\ retval \in [Types -> Dates \cup {JUNK}]
  /\ tfd \in (Dates \X Types) \cup {<<>>}
  /\ served \in Dates \cup {0} /\ done \in Dates \cup {0}
  /\ overrun \in 0..MaxOverrun /\ deaths \in 0..MaxDeaths
  /\ backlog \in Seq(Clients)
  /\ cl \in [Clients ->
       [st : {"idle", "connected", "asked", "opened", "answered", "reset"},
        cmd : {"none", "GET", "OPEN", "READ", "CLOSE"},
        arg : 0..sync_nsize]]
  /\ alive \in [Clients -> BOOLEAN]
  /\ reply \in [Clients -> [date : Dates \cup {0},
                           part : [Types -> Dates \cup {JUNK}]]]

\* What a jitget returns is one observation: every file asked for is there
\* and is of the date announced, although the entry is read with no lock
\* while the watcher thread may remove entries.  And jitopen opens the file
\* of the entry that jitclose will remove.
RepliesWhole ==
  \A c \in Clients :
    /\ cl[c].st = "answered" =>
         \A t \in 0..(cl[c].arg - 1) : reply[c].part[t] = reply[c].date
    /\ cl[c].st = "opened" /\ cl[c].cmd = "OPEN" => tfd = <<served, cl[c].arg>>

\* The thread never sleeps in histget while an entry is pending: its test of
\* numhist and its wait are one critical section.
NoMissedEntry == tpc = "wait1" => numhist = 0

\* An observation handed out successfully is never handed out again, nor an
\* older one after it.
NeverAgain == tpc = "remove" => served > done

\* Unless the watcher thread has given up an entry meanwhile, the one removed
\* is the one just handed out, so that no observation is dropped unread.
\* (After a forced removal histremove drops the next one, which nobody got.)
RemovesServed ==
  [][tpc = "remove" /\ tpc' # tpc /\ overrun = 0 =>
       date[conshistp] = served]_lwvars

\* An application waiting in jitget is answered once an entry is complete.
Complete == numhist > 0 /\ \A t \in Types : fname[conshistp][t] # NULL
CompleteIsAnswered ==
  \A c \in Clients :
    (cl[c].st = "asked" /\ cl[c].cmd = "GET" /\ Complete)
      ~> (cl[c].st # "asked" \/ ~Complete)
=============================================================================
