------------------------------- MODULE Sender -------------------------------
(***************************************************************************)
(* The sending side: watch_and_transfer hands every announced file to      *)
(* sftp_put (translib.c), which drives a child process sftp through two    *)
(* pipes.  For each file sftp is told to put the file, then to put a local *)
(* notification file naming it as one of F_VERSION_M numbered files in the *)
(* directory that kwatcher watches on the client machine, and then pwd (-k,*)
(* the child is kept) or quit.                                             *)
(*                                                                         *)
(* put_cmd writes one command and waits up to ten seconds for some output. *)
(* The child is external: as sftp_put expects of it, it carries out the    *)
(* commands in order and answers each once; it is started with -b, so it   *)
(* exits at the first command that fails.  Files are numbered in the order *)
(* of their announcement.                                                  *)
(***************************************************************************)
EXTENDS Integers, Sequences, Functions

CONSTANTS F_VERSION_M,  \* number of notification files
          NFiles,       \* number of files announced
          MaxFails,     \* commands of sftp that fail
          MaxTimeouts,  \* answers that do not come in time
          MaxBehind     \* notifications kwatcher has yet to read

ASSUME SenderAssumption ==
  /\ F_VERSION_M \in Nat \ {0} /\ NFiles \in Nat
  /\ MaxFails \in Nat /\ MaxTimeouts \in Nat /\ MaxBehind \in Nat

Files == 1..NFiles
NoFile == 0

VARIABLES
  keepproc,     \* the -k option
  announced,    \* number of files announced so far
  fname,        \* the file sftp_put was last called for
  pc,           \* control point of sftp_put
  isprocalive,  \* a child is kept
  vrsn,         \* number of the next notification file
  lntfy,        \* file named in the local notification file
  sftp,         \* the child: "none", "runs" or "gone"
  cmds,         \* commands in the pipe to it
  replies,      \* answers in the pipe from it
  remote,       \* files put and not yet renamed by kwatcher
  bell,         \* bell[v]: file named in notification file v
  events,       \* numbers of the notification files kwatcher will read
  got,          \* files kwatcher has taken over, in that order
  fails, timeouts

pvars == <<keepproc, fname, pc, isprocalive, vrsn, lntfy>>
svars == <<sftp, cmds, replies, remote, bell, fails>>
kvars == <<events, got>>
svvars == <<announced, pvars, svars, kvars, timeouts>>

\* The commands: what is put, and to which notification file.
PutFile(f) == [op |-> "put", arg |-> f]
PutBell(v) == [op |-> "bell", arg |-> v]
Closing == [op |-> IF keepproc THEN "pwd" ELSE "quit", arg |-> 0]

SInit ==
  /\ keepproc \in BOOLEAN
  /\ announced = 0 /\ fname = 0 /\ pc = "idle" /\ isprocalive = FALSE
  /\ vrsn = 0 /\ lntfy = NoFile
  /\ sftp = "none" /\ cmds = <<>> /\ replies = 0 /\ remote = {}
  /\ bell = [v \in 0..(F_VERSION_M - 1) |-> NoFile]
  /\ events = <<>> /\ got = <<>> /\ fails = 0 /\ timeouts = 0

-----------------------------------------------------------------------------
(* watch_and_transfer.                                                     *)

announce ==
  /\ announced + 1 \in Files
  /\ announced' = announced + 1
  /\ UNCHANGED <<pvars, svars, kvars, timeouts>>

\* transfer calls sftp_put, which starts a child unless one is kept.
sftp_put ==
  /\ pc = "idle" /\ fname < announced
  /\ fname' = fname + 1 /\ pc' = "put"
  /\ isprocalive' = (isprocalive \/ keepproc)
  /\ IF isprocalive
     THEN UNCHANGED <<sftp, cmds, replies>>
     ELSE sftp' = "runs" /\ cmds' = <<>> /\ replies' = 0
  /\ UNCHANGED <<keepproc, announced, vrsn, lntfy, remote, bell, fails, kvars,
                 timeouts>>

\* The command each control point writes.
Command == CASE pc = "put" -> PutFile(fname)
             [] pc = "bell" -> PutBell(vrsn)
             [] pc = "last" -> Closing
Waiting == [put |-> "put_wait", bell |-> "bell_wait", last |-> "last_wait"]

\* put_cmd writes.  A pipe that nobody reads any more raises SIGPIPE, which
\* watch_and_transfer does not handle.
put_cmd_write ==
  /\ pc \in {"put", "bell", "last"}
  /\ IF sftp = "runs"
     THEN cmds' = Append(cmds, Command) /\ pc' = Waiting[pc]
     ELSE pc' = "killed" /\ UNCHANGED cmds
  /\ UNCHANGED <<keepproc, announced, fname, isprocalive, vrsn, lntfy, sftp,
                 replies, remote, bell, fails, kvars, timeouts>>

\* What follows an answer, which an end of file also passes for; quit is
\* followed by a waitpid and the end of both pipes.
Next_pc == CASE pc = "put_wait" -> "ntfy"
             [] pc = "bell_wait" -> "last"
             [] pc = "last_wait" -> IF keepproc THEN "idle" ELSE "waitpid"

\* Mutants: the number of the notification file stays, skips the last one, or
\* is not taken modulo; nothing is read.
NextVersion_same(v) == v
NextVersion_short(v) == (v + 1) % (F_VERSION_M - 1)
NextVersion_on(v) == v + 1

NextVersion(v) == (v + 1) % F_VERSION_M

put_cmd_read_nowait ==
  /\ pc \in {"put_wait", "bell_wait", "last_wait"}
  /\ replies' = 0 /\ pc' = Next_pc
  /\ vrsn' = IF pc = "bell_wait" THEN NextVersion(vrsn) ELSE vrsn
  /\ UNCHANGED <<keepproc, announced, fname, isprocalive, lntfy, sftp, cmds,
                 remote, bell, fails, kvars, timeouts>>

put_cmd_read ==
  /\ pc \in {"put_wait", "bell_wait", "last_wait"}
  /\ replies > 0 \/ sftp = "gone"
  /\ replies' = 0 /\ pc' = Next_pc
  /\ vrsn' = IF pc = "bell_wait" THEN NextVersion(vrsn) ELSE vrsn
  /\ UNCHANGED <<keepproc, announced, fname, isprocalive, lntfy, sftp, cmds,
                 remote, bell, fails, kvars, timeouts>>

\* No answer in ten seconds: put_cmd fails, and so does sftp_put unless the
\* command was quit.
put_cmd_timeout ==
  /\ pc \in {"put_wait", "bell_wait", "last_wait"}
  /\ replies = 0 /\ sftp = "runs"
  /\ timeouts < MaxTimeouts /\ timeouts' = timeouts + 1
  /\ pc' = IF pc = "last_wait" /\ ~keepproc THEN "waitpid" ELSE "die"
  /\ UNCHANGED <<keepproc, announced, fname, isprocalive, vrsn, lntfy, svars,
                 kvars>>

\* The local notification file is written.
notify ==
  /\ pc = "ntfy"
  /\ lntfy' = fname /\ pc' = "bell"
  /\ UNCHANGED <<keepproc, announced, fname, isprocalive, vrsn, svars, kvars,
                 timeouts>>

\* die_return: wait for the child to end, and only then close the pipes.  The
\* file is not sent again.
die_return ==
  /\ pc \in {"die", "waitpid"} /\ sftp = "gone"
  /\ sftp' = "none" /\ cmds' = <<>> /\ replies' = 0
  /\ isprocalive' = FALSE /\ pc' = "idle"
  /\ UNCHANGED <<keepproc, announced, fname, vrsn, lntfy, remote, bell, fails,
                 kvars, timeouts>>

-----------------------------------------------------------------------------
(* The child sftp, and the directory of the client machine.                *)

sftp_does ==
  /\ sftp = "runs" /\ cmds # <<>>
  /\ cmds' = Tail(cmds)
  /\ LET c == Head(cmds)
     IN  /\ remote' = IF c.op = "put" THEN remote \cup {c.arg} ELSE remote
         /\ bell' = IF c.op = "bell" THEN [bell EXCEPT ![c.arg] = lntfy]
                                     ELSE bell
         /\ events' = IF c.op = "bell" THEN Append(events, c.arg) ELSE events
         /\ c.op = "bell" => Len(events) < MaxBehind
         /\ IF c.op = "quit" THEN sftp' = "gone" /\ UNCHANGED replies
                             ELSE replies' = replies + 1 /\ UNCHANGED sftp
  /\ UNCHANGED <<announced, pvars, got, fails, timeouts>>

\* A command fails, or the connection is lost.
sftp_fails ==
  /\ sftp = "runs" /\ fails < MaxFails
  /\ fails' = fails + 1 /\ sftp' = "gone" /\ cmds' = <<>>
  /\ UNCHANGED <<announced, pvars, replies, remote, bell, kvars, timeouts>>

\* kwatcher opens the notification file of the event and renames the file it
\* now names; if it is not there (any more) nothing happens.
kwatcher_reads ==
  /\ events # <<>>
  /\ events' = Tail(events)
  /\ LET f == bell[Head(events)]
     IN  IF f \in remote THEN remote' = remote \ {f} /\ got' = Append(got, f)
                         ELSE UNCHANGED <<remote, got>>
  /\ UNCHANGED <<announced, pvars, sftp, cmds, replies, bell, fails, timeouts>>

sender == \/ sftp_put \/ put_cmd_write \/ put_cmd_read \/ put_cmd_timeout
          \/ notify \/ die_return

SNext == announce \/ sender \/ sftp_does \/ sftp_fails \/ kwatcher_reads

SSpec == SInit /\ [][SNext]_svvars

\* The three processes are scheduled.  Nothing obliges files to be announced,
\* commands to fail or answers to be late.
SFairness ==
  /\ WF_svvars(sender /\ timeouts' = timeouts)
  /\ WF_svvars(sftp_does) /\ WF_svvars(kwatcher_reads)

SFairSpec == SSpec /\ SFairness

-----------------------------------------------------------------------------
(* Properties.                                                             *)

Commands == [op : {"put", "bell", "pwd", "quit"}, arg : Nat]

STypeOK ==
  /\ announced \in Files \cup {0} /\ fname \in 0..announced
  /\ pc \in {"idle", "put", "put_wait", "ntfy", "bell", "bell_wait", "last",
             "last_wait", "waitpid", "die", "killed"}
  /\ keepproc \in BOOLEAN /\ isprocalive \in BOOLEAN
  /\ vrsn \in 0..(F_VERSION_M - 1)
  /\ lntfy \in 0..fname
  /\ sftp \in {"none", "runs", "gone"} /\ replies \in 0..1
  /\ cmds \in Seq(Commands) /\ Len(cmds) <= 1
  /\ remote \subseteq Files
  /\ bell \in [0..(F_VERSION_M - 1) -> Files \cup {NoFile}]
  /\ events \in Seq(0..(F_VERSION_M - 1)) /\ got \in Seq(Files)

\* A file named in a notification is on the client machine, whatever command
\* failed or was answered late: kwatcher never looks for one still under way.
NamedIsThere ==
  \A v \in DOMAIN bell :
    bell[v] # NoFile => bell[v] \in remote \cup Range(got)

\* Although the notification files are used again, every file sftp_put is done
\* with is one kwatcher still has to read of.  (After a late answer the number
\* does not move on, and the next file takes the place of this one.)
EachIsTold ==
  timeouts = 0 =>
    \A f \in remote :
      f < fname \/ pc = "idle" =>
        \E j \in 1..Len(events) : bell[events[j]] = f

\* kwatcher takes the files over in the order of their announcement.
GotInOrder == \A j, k \in 1..Len(got) : j < k => got[j] < got[k]

\* watch_and_transfer is done with a file at last and takes the next one.
SenderGoesOn == pc = "put" ~> pc = "idle"
=============================================================================
