---------------------------- MODULE SenderProofs ----------------------------
(***************************************************************************)
(* Proofs about the sender, its child sftp and the notification files, for *)
(* every number of files, of notification files and of failures.           *)
(***************************************************************************)
EXTENDS Sender, SequenceTheorems, TLAPS

-----------------------------------------------------------------------------
(* The conversation with the child.                                        *)

Waits == {"put_wait", "bell_wait", "last_wait"}
Version == 0..(F_VERSION_M - 1)

\* What the command under way can be: the one that sftp_put waits for, or
\* waited for when it gave up.
UnderWay(c) ==
  \/ c = PutFile(fname) /\ pc \in {"put_wait", "die"}
  \/ c = PutBell(vrsn) /\ pc \in {"bell_wait", "die"}
  \/ c = Closing /\ pc \in {"last_wait", "waitpid", "die"}

\* One command at a time, and one answer to each: at the control points that
\* write, both pipes are empty and there is a child at the other end, dead or
\* alive.
Conversation ==
  /\ isprocalive => keepproc
  /\ pc # "idle" => (isprocalive <=> keepproc)
  /\ pc = "waitpid" => ~keepproc
  /\ replies = 1 => cmds = <<>>
  /\ cmds # <<>> => sftp = "runs" /\ UnderWay(cmds[1])
  /\ replies = 1 => pc \in Waits \cup {"die"}
  /\ pc \in Waits /\ sftp = "runs" => cmds # <<>> \/ replies = 1
  /\ sftp = "none" => pc = "idle"
  /\ pc = "idle" => (isprocalive <=> sftp # "none")
  /\ pc = "killed" => sftp = "gone"
  /\ pc # "idle" => 1 <= fname

\* A sequence of at most one element.
LEMMA ShortSeq ==
  ASSUME NEW S, NEW s \in Seq(S), Len(s) <= 1
  PROVE  /\ s = <<>> <=> Len(s) = 0
         /\ s # <<>> => /\ Len(s) = 1 /\ Head(s) = s[1] /\ s[1] \in S
                        /\ Tail(s) = <<>>
<1>1. PICK n \in Nat : n = Len(s)
  BY LenProperties
<1>2. Len(<<>>) = 0 /\ (s # <<>> => n # 0)
  BY <1>1, EmptySeq
<1>3. ASSUME s # <<>> PROVE Tail(s) = <<>>
  <2>1. Tail(s) \in Seq(S) /\ Len(Tail(s)) = n - 1 /\ n = 1
    BY <1>1, <1>2, <1>3, HeadTailProperties
  <2> QED BY <2>1, EmptySeq
<1>4. ASSUME s # <<>> PROVE s[1] \in S
  BY <1>1, <1>2, <1>4, ElementOfSeq
<1> QED BY <1>1, <1>2, <1>3, <1>4

LEMMA SingleSeq ==
  ASSUME NEW S, NEW e \in S
  PROVE  /\ <<e>> \in Seq(S) /\ Len(<<e>>) = 1 /\ <<e>>[1] = e /\ <<e>> # <<>>
  OBVIOUS

\* There is at most one command in the pipe.
LEMMA PipeFacts ==
  ASSUME STypeOK
  PROVE  /\ cmds \in Seq(Commands) /\ Len(cmds) <= 1
         /\ cmds # <<>> => /\ Head(cmds) = cmds[1] /\ cmds[1] \in Commands
                           /\ Tail(cmds) = <<>>
<1>1. cmds \in Seq(Commands) /\ Len(cmds) <= 1
  BY DEF STypeOK
<1> QED BY <1>1, ShortSeq

\* Before a write the pipe is empty; a command is then the only one in it.
LEMMA WriteFacts ==
  ASSUME STypeOK, Conversation, put_cmd_write
  PROVE  /\ cmds = <<>> /\ replies = 0 /\ sftp \in {"runs", "gone"}
         /\ sftp = "runs" =>
              /\ cmds' \in Seq(Commands) /\ Len(cmds') <= 1 /\ cmds' # <<>>
              /\ cmds'[1] = Command
<1>1. cmds = <<>> /\ replies = 0 /\ sftp \in {"runs", "gone"}
  BY DEF STypeOK, Conversation, UnderWay, put_cmd_write, Waits
<1>2. Command \in Commands
  <2>1. fname \in Nat /\ vrsn \in Nat /\ pc \in {"put", "bell", "last"}
    BY SenderAssumption DEF STypeOK, Files, put_cmd_write
  <2> QED BY <2>1 DEF Command, PutFile, PutBell, Closing, Commands
<1>3. ASSUME sftp = "runs" PROVE cmds' = <<Command>>
  <2>1. cmds' = Append(cmds, Command)
    BY <1>3 DEF put_cmd_write
  <2> QED BY <1>1, <1>2, <2>1
<1> QED BY <1>1, <1>2, <1>3, SingleSeq

\* What the child does with the one command there is.
LEMMA ChildFacts ==
  ASSUME STypeOK, Conversation, sftp_does
  PROVE  /\ cmds # <<>> /\ replies = 0 /\ cmds' = <<>>
         /\ Head(cmds) = cmds[1] /\ UnderWay(cmds[1])
         /\ cmds[1].op = "put" => cmds[1].arg = fname
         /\ cmds[1].op = "bell" => cmds[1].arg = vrsn
         /\ cmds[1].op = "quit" => pc \in {"last_wait", "waitpid", "die"}
<1>1. cmds # <<>> /\ Tail(cmds) = <<>> /\ Head(cmds) = cmds[1]
  BY PipeFacts DEF sftp_does
<1>2. replies = 0 /\ cmds' = <<>> /\ UnderWay(cmds[1])
  BY <1>1 DEF sftp_does, Conversation, STypeOK
<1> QED BY <1>1, <1>2 DEF UnderWay, PutFile, PutBell, Closing

\* A version stays one.
LEMMA NextVersionValue ==
  ASSUME NEW v \in Version
  PROVE  /\ NextVersion(v) = IF v = F_VERSION_M - 1 THEN 0 ELSE v + 1
         /\ NextVersion(v) \in Version
  BY SenderAssumption DEF Version, NextVersion

LEMMA SenderTypeInit == SInit => STypeOK /\ Conversation
  BY SenderAssumption
  DEF SInit, STypeOK, Conversation, Files, NoFile, Waits

LEMMA SenderTypeStep ==
  STypeOK /\ Conversation /\ [SNext]_svvars => STypeOK' /\ Conversation'
<1> SUFFICES ASSUME STypeOK, Conversation, [SNext]_svvars
             PROVE  STypeOK' /\ Conversation'
  OBVIOUS
<1> USE SenderAssumption
<1>1. CASE announce
  <2>1. STypeOK'
    BY <1>1 DEF announce, pvars, svars, kvars, STypeOK, Files
  <2>2. Conversation'
    BY <1>1 DEF announce, pvars, svars, Conversation, UnderWay, Closing
  <2> QED BY <2>1, <2>2
<1>2. CASE sftp_put
  <2>0. cmds' \in Seq(Commands) /\ Len(cmds') <= 1
    <3>1. cmds' = <<>> \/ cmds' = cmds
      BY <1>2 DEF sftp_put
    <3>2. <<>> \in Seq(Commands) /\ Len(<<>>) <= 1
      BY EmptySeq
    <3> QED BY <3>1, <3>2, PipeFacts
  <2>1. STypeOK'
    BY <1>2, <2>0 DEF sftp_put, kvars, STypeOK, Files
  <2>2. Conversation'
    BY <1>2 DEF sftp_put, STypeOK, Files, Conversation, UnderWay, Waits
  <2> QED BY <2>1, <2>2
<1>3. CASE put_cmd_write
  <2>1. CASE sftp = "runs"
    <3>1. /\ cmds' \in Seq(Commands) /\ Len(cmds') <= 1 /\ cmds' # <<>>
          /\ cmds'[1] = Command /\ replies = 0
      BY <1>3, <2>1, WriteFacts
    <3>2. pc' = Waiting[pc] /\ pc' \in Waits
      BY <1>3, <2>1 DEF put_cmd_write, Waiting, Waits
    <3>3. STypeOK'
      BY <1>3, <3>1, <3>2
      DEF put_cmd_write, kvars, STypeOK, Waits
    <3>4. (UnderWay(cmds[1]))'
      BY <1>3, <2>1, <3>1
      DEF put_cmd_write, UnderWay, Closing, Command, Waiting, PutFile, PutBell
    <3>5. Conversation'
      BY <1>3, <2>1, <3>1, <3>2, <3>4 DEF put_cmd_write, Conversation, Waits
    <3> QED BY <3>3, <3>5
  <2>2. CASE sftp # "runs"
    <3>1. cmds = <<>> /\ replies = 0 /\ sftp = "gone" /\ pc' = "killed"
      BY <1>3, <2>2, WriteFacts DEF put_cmd_write
    <3>2. STypeOK'
      BY <1>3, <2>2, <3>1 DEF put_cmd_write, kvars, STypeOK
    <3>3. Conversation'
      BY <1>3, <2>2, <3>1 DEF put_cmd_write, Conversation, Waits
    <3> QED BY <3>2, <3>3
  <2> QED BY <2>1, <2>2
<1>4. CASE put_cmd_read
  <2>1. vrsn' \in Version
    BY <1>4, NextVersionValue DEF put_cmd_read, Version, STypeOK
  <2>2. replies' = 0 /\ cmds' = <<>> /\ cmds = <<>>
    BY <1>4 DEF put_cmd_read, Conversation, STypeOK
  <2>3. /\ pc' \in {"ntfy", "last", "idle", "waitpid"}
        /\ pc' = "waitpid" => ~keepproc
        /\ pc' = "idle" => keepproc /\ pc = "last_wait"
    BY <1>4 DEF put_cmd_read, Next_pc
  <2>4. STypeOK'
    BY <1>4, <2>1, <2>2, <2>3 DEF put_cmd_read, kvars, Version, STypeOK
  <2>5. Conversation'
    BY <1>4, <2>2, <2>3 DEF put_cmd_read, Conversation, Waits
  <2> QED BY <2>4, <2>5
<1>5. CASE put_cmd_timeout
  <2>1. STypeOK'
    BY <1>5 DEF put_cmd_timeout, svars, kvars, STypeOK
  <2>2. Conversation'
    BY <1>5
    DEF put_cmd_timeout, svars, Conversation, UnderWay, Closing, Waits
  <2> QED BY <2>1, <2>2
<1>6. CASE notify
  <2>1. STypeOK'
    BY <1>6 DEF notify, svars, kvars, STypeOK, Files
  <2>2. Conversation'
    BY <1>6 DEF notify, svars, Conversation, UnderWay, Waits
  <2> QED BY <2>1, <2>2
<1>7. CASE die_return
  <2>0. cmds' \in Seq(Commands) /\ Len(cmds') <= 1
    BY <1>7, EmptySeq DEF die_return
  <2>1. STypeOK'
    <3>1. /\ pc' \in {"idle"} /\ isprocalive' = FALSE /\ sftp' = "none"
          /\ replies' = 0
          /\ UNCHANGED <<announced, keepproc, fname, vrsn, lntfy, remote, bell,
                         events, got>>
      BY <1>7 DEF die_return, kvars
    <3>2. announced' \in Files \cup {0} /\ fname' \in 0..announced'
      BY <3>1 DEF STypeOK
    <3>3. /\ keepproc' \in BOOLEAN /\ isprocalive' \in BOOLEAN
          /\ vrsn' \in 0..(F_VERSION_M - 1) /\ lntfy' \in 0..fname'
      BY <3>1 DEF STypeOK
    <3>4. /\ remote' \subseteq Files
          /\ bell' \in [0..(F_VERSION_M - 1) -> Files \cup {NoFile}]
          /\ events' \in Seq(0..(F_VERSION_M - 1)) /\ got' \in Seq(Files)
      BY <3>1 DEF STypeOK
    <3>5. /\ pc' = "idle" /\ sftp' \in {"none", "runs", "gone"}
          /\ replies' \in 0..1
      BY <3>1
    <3> QED BY <2>0, <3>2, <3>3, <3>4, <3>5 DEF STypeOK
  <2>2. Conversation'
    BY <1>7 DEF die_return, Conversation, Waits
  <2> QED BY <2>1, <2>2
<1>8. CASE sftp_does
  <2>1. /\ cmds # <<>> /\ replies = 0 /\ cmds' = <<>> /\ UnderWay(cmds[1])
        /\ Head(cmds) = cmds[1] /\ cmds[1] \in Commands
    BY <1>8, ChildFacts, PipeFacts
  <2>2. fname \in Files /\ lntfy \in Files \cup {NoFile} /\ vrsn \in Version
    BY <2>1 DEF STypeOK, Files, NoFile, Version, Conversation, UnderWay
  <2>3. remote' \subseteq Files
    BY <1>8, <2>1, <2>2, ChildFacts DEF sftp_does, STypeOK
  <2>4. bell' \in [Version -> Files \cup {NoFile}]
    BY <1>8, <2>1, <2>2, ChildFacts DEF sftp_does, STypeOK, Version
  <2>5. events' \in Seq(Version)
    <3>1. events \in Seq(Version)
      BY DEF STypeOK, Version
    <3>2. events' = events \/ events' = Append(events, vrsn)
      BY <1>8, <2>1, ChildFacts DEF sftp_does
    <3> QED BY <2>2, <3>1, <3>2, AppendProperties
  <2>6. cmds' \in Seq(Commands) /\ Len(cmds') <= 1
    BY <2>1, EmptySeq
  <2>7. STypeOK'
    BY <1>8, <2>1, <2>3, <2>4, <2>5, <2>6
    DEF sftp_does, pvars, STypeOK, Version
  <2>8. Conversation'
    BY <1>8, <2>1, ChildFacts
    DEF sftp_does, pvars, Conversation, Waits, UnderWay, Closing, PutFile,
        PutBell
  <2> QED BY <2>7, <2>8
<1>9. CASE sftp_fails
  <2>1. STypeOK'
    BY <1>9, EmptySeq DEF sftp_fails, pvars, kvars, STypeOK
  <2>2. Conversation'
    BY <1>9 DEF sftp_fails, pvars, Conversation, Waits
  <2> QED BY <2>1, <2>2
<1>10. CASE kwatcher_reads
  <2>1. events \in Seq(Version) /\ events # <<>>
    BY <1>10 DEF kwatcher_reads, STypeOK, Version
  <2>2. events' \in Seq(Version)
    BY <1>10, <2>1, HeadTailProperties DEF kwatcher_reads
  <2>3. remote' \subseteq Files /\ got' \in Seq(Files)
    <3> DEFINE f == bell[Head(events)]
    <3>1. CASE f \in remote
      <4>1. f \in Files /\ got \in Seq(Files) /\ remote \subseteq Files
        BY <3>1 DEF STypeOK
      <4>2. got' = Append(got, f) /\ remote' = remote \ {f}
        BY <1>10, <3>1 DEF kwatcher_reads
      <4> HIDE DEF f
      <4> QED BY <4>1, <4>2, AppendProperties
    <3>2. CASE f \notin remote
      BY <1>10, <3>2 DEF kwatcher_reads, STypeOK
    <3> QED BY <3>1, <3>2
  <2>4. STypeOK'
    BY <1>10, <2>2, <2>3 DEF kwatcher_reads, pvars, STypeOK, Version
  <2>5. Conversation'
    BY <1>10 DEF kwatcher_reads, pvars, Conversation, UnderWay, Closing
  <2> QED BY <2>4, <2>5
<1>11. CASE UNCHANGED svvars
  BY <1>11
  DEF svvars, pvars, svars, kvars, STypeOK, Conversation, UnderWay, Closing
<1> QED
  BY <1>1, <1>2, <1>3, <1>4, <1>5, <1>6, <1>7, <1>8, <1>9, <1>10, <1>11
  DEF SNext, sender

\* The control points, the pipes and the versions are as STypeOK says: never
\* more than one command or answer is in a pipe.
THEOREM SenderTypeCorrect == SSpec => []STypeOK
  BY SenderTypeInit, SenderTypeStep, PTL DEF SSpec

-----------------------------------------------------------------------------
(* What is named is there.                                                 *)

There == remote \cup Range(got)

\* A put that was answered put the file; a notification is written after that.
PutBefore ==
  /\ pc = "put_wait" /\ replies = 1 => fname \in There
  /\ pc \in {"ntfy", "bell", "bell_wait"} /\ sftp = "runs" => fname \in There
  /\ pc \in {"bell", "bell_wait"} => lntfy = fname
  /\ cmds # <<>> /\ cmds[1].op = "bell" => lntfy = fname /\ fname \in There

LEMMA AppendRange ==
  ASSUME NEW S, NEW s \in Seq(S), NEW e \in S
  PROVE  Range(Append(s, e)) = Range(s) \cup {e}
<1>1. PICK t \in Seq(S) : t = Append(s, e)
  BY AppendProperties
<1>2. PICK n \in Nat : n = Len(s)
  BY LenProperties
<1>3. Len(t) = n + 1 /\ t[n + 1] = e /\ \A i \in 1..n : t[i] = s[i]
  BY <1>1, <1>2, AppendProperties
<1>4. Range(t) = {t[i] : i \in 1..(n + 1)} /\ Range(s) = {s[i] : i \in 1..n}
  BY <1>2, <1>3, RangeEquality
<1> QED BY <1>1, <1>3, <1>4

\* Nothing that is there goes away: kwatcher moves it from remote to got.
LEMMA ThereGrows ==
  ASSUME STypeOK, Conversation, [SNext]_svvars
  PROVE  /\ There \subseteq There'
         /\ sftp_does /\ cmds[1].op = "put" => cmds[1].arg \in There'
<1>1. CASE kwatcher_reads
  <2>1. got \in Seq(Files) /\ remote \subseteq Files
    BY DEF STypeOK
  <2>2. CASE bell[Head(events)] \in remote
    <3>1. PICK f \in Files : f = bell[Head(events)]
      BY <2>1, <2>2
    <3>2. got' = Append(got, f) /\ remote' = remote \ {f}
      BY <1>1, <2>2, <3>1 DEF kwatcher_reads
    <3>3. Range(got') = Range(got) \cup {f}
      BY <2>1, <3>1, <3>2, AppendRange
    <3> QED BY <1>1, <3>2, <3>3 DEF There, kwatcher_reads, sftp_does
  <2>3. CASE bell[Head(events)] \notin remote
    BY <1>1, <2>3 DEF There, kwatcher_reads, sftp_does
  <2> QED BY <2>2, <2>3
<1>2. CASE sftp_does
  BY <1>2, ChildFacts DEF There, sftp_does
<1>3. ASSUME ~kwatcher_reads, ~sftp_does
      PROVE  There' = There
  BY <1>3
  DEF SNext, sender, svvars, pvars, svars, kvars, There, announce, sftp_put,
      put_cmd_write, put_cmd_read, put_cmd_timeout, notify, die_return,
      sftp_fails
<1> QED BY <1>1, <1>2, <1>3

LEMMA PutBeforeStep ==
  ASSUME STypeOK, Conversation, PutBefore, [SNext]_svvars
  PROVE  PutBefore'
<1>0. There \subseteq There' /\ Conversation'
  BY ThereGrows, SenderTypeStep
<1> USE DEF PutBefore
<1>1. CASE announce
  BY <1>0, <1>1 DEF announce, pvars, svars
<1>2. CASE sftp_put
  <2>1. cmds' = <<>> /\ pc' = "put"
    BY <1>2 DEF sftp_put, Conversation, UnderWay
  <2> QED BY <2>1
<1>3. CASE put_cmd_write
  <2>1. CASE pc = "bell" /\ sftp = "runs"
    BY <1>0, <1>3, <2>1, WriteFacts DEF put_cmd_write, Waiting
  <2>2. CASE pc # "bell" /\ sftp = "runs"
    BY <1>0, <1>3, <2>2, WriteFacts
    DEF put_cmd_write, Waiting, Command, PutFile, Closing
  <2>3. CASE sftp # "runs"
    BY <1>0, <1>3, <2>3, WriteFacts DEF put_cmd_write
  <2> QED BY <2>1, <2>2, <2>3
<1>4. CASE put_cmd_read
  <2>1. cmds = <<>> /\ cmds' = cmds /\ sftp' = sftp /\ fname' = fname
    BY <1>4 DEF put_cmd_read, Conversation, STypeOK
  <2>2. pc = "put_wait" /\ sftp = "runs" => replies = 1
    BY <1>4 DEF put_cmd_read, STypeOK
  <2> QED BY <1>0, <1>4, <2>1, <2>2 DEF put_cmd_read, Next_pc
<1>5. CASE put_cmd_timeout
  BY <1>0, <1>5 DEF put_cmd_timeout, svars
<1>6. CASE notify
  BY <1>0, <1>6 DEF notify, svars, Conversation, UnderWay
<1>7. CASE die_return
  BY <1>0, <1>7 DEF die_return
<1>8. CASE sftp_does
  <2>1. /\ cmds # <<>> /\ cmds' = <<>> /\ UnderWay(cmds[1])
        /\ pc = "put_wait" => cmds[1] = PutFile(fname)
    BY <1>8, ChildFacts DEF UnderWay
  <2>2. pc = "put_wait" => fname \in There'
    BY <1>8, <2>1, ThereGrows DEF PutFile
  <2>3. pc' = pc /\ fname' = fname /\ lntfy' = lntfy /\ sftp = "runs"
    BY <1>8 DEF sftp_does, pvars
  <2> QED BY <1>0, <2>1, <2>2, <2>3
<1>9. CASE sftp_fails
  BY <1>0, <1>9 DEF sftp_fails, pvars
<1>10. CASE kwatcher_reads
  BY <1>0, <1>10 DEF kwatcher_reads, pvars
<1>11. CASE UNCHANGED svvars
  BY <1>0, <1>11 DEF svvars, pvars, svars
<1> QED
  BY <1>1, <1>2, <1>3, <1>4, <1>5, <1>6, <1>7, <1>8, <1>9, <1>10, <1>11
  DEF SNext, sender

\* Only the child writes a notification, and it names the file of the local
\* notification file.
LEMMA BellStep ==
  ASSUME STypeOK, Conversation, [SNext]_svvars
  PROVE  \/ bell' = bell
         \/ /\ sftp_does /\ cmds # <<>> /\ cmds[1].op = "bell"
            /\ bell' = [bell EXCEPT ![vrsn] = lntfy]
<1>1. CASE sftp_does
  BY <1>1, ChildFacts DEF sftp_does
<1>2. CASE ~sftp_does
  BY <1>2
  DEF SNext, sender, svvars, svars, announce, sftp_put, put_cmd_write,
      put_cmd_read, put_cmd_timeout, notify, die_return, sftp_fails,
      kwatcher_reads
<1> QED BY <1>1, <1>2

LEMMA NamedStep ==
  ASSUME STypeOK, Conversation, PutBefore, NamedIsThere, [SNext]_svvars
  PROVE  NamedIsThere'
<1>1. There \subseteq There'
  BY ThereGrows
<1>2. bell \in [Version -> Files \cup {NoFile}] /\ DOMAIN bell' = DOMAIN bell
  BY BellStep DEF STypeOK, Version
<1>3. ASSUME NEW v \in DOMAIN bell', bell'[v] # NoFile
      PROVE  bell'[v] \in There'
  <2>1. CASE bell' = bell
    BY <1>1, <1>3, <2>1 DEF NamedIsThere, There
  <2>2. CASE /\ cmds # <<>> /\ cmds[1].op = "bell"
             /\ bell' = [bell EXCEPT ![vrsn] = lntfy]
    BY <1>1, <1>2, <1>3, <2>2 DEF NamedIsThere, PutBefore, There
  <2> QED BY <2>1, <2>2, BellStep
<1> QED BY <1>3 DEF NamedIsThere, There

\* A notification never names a file that has not arrived: whichever command
\* fails or is answered late, kwatcher does not look for one in vain.
THEOREM NotifiedIsThere == SSpec => []NamedIsThere
<1> DEFINE Inv == STypeOK /\ Conversation /\ PutBefore /\ NamedIsThere
<1>1. SInit => Inv
  BY SenderTypeInit DEF SInit, PutBefore, NamedIsThere, NoFile
<1>2. Inv /\ [SNext]_svvars => Inv'
  BY SenderTypeStep, PutBeforeStep, NamedStep
<1> QED BY <1>1, <1>2, PTL DEF SSpec

-----------------------------------------------------------------------------
(* The order in which kwatcher reads.                                      *)

\* How far version v is behind version w.
LagOf(w, v) == IF v <= w THEN w - v ELSE w + F_VERSION_M - v

\* The notification is written and the version not yet counted on.
Rung == pc = "bell_wait" /\ replies = 1
Uncounted == IF Rung THEN 1 ELSE 0

\* No notification is written any more: the next write kills sftp_put.  (The
\* end of file passed for the answer, and the version was counted on.)
Doomed == pc = "killed" \/ (pc = "last" /\ sftp = "gone")

\* The unread versions lie one behind the other, the last one next to vrsn;
\* after a late answer two of them are the same.  Nothing is said of the one
\* that is a whole round behind.
LagsFall ==
  ~Doomed =>
    \A j \in 1..Len(events) :
      Len(events) - j + 1 < F_VERSION_M =>
        /\ LagOf(vrsn, events[j]) <= Len(events) - j + 1 - Uncounted
        /\ \A k \in j..Len(events) :
             LagOf(vrsn, events[k]) <= LagOf(vrsn, events[j])

\* The file under way has not been named yet.
FreshFile ==
  \/ pc \in {"put", "put_wait", "ntfy", "bell"}
  \/ cmds # <<>> /\ cmds[1].op \in {"put", "bell"}

FileKnown ==
  /\ \A v \in Version : bell[v] <= fname /\ (FreshFile => bell[v] # fname)
  /\ \A i \in 1..Len(got) : /\ got[i] <= fname /\ got[i] \notin remote
                            /\ FreshFile => got[i] # fname
  /\ \A f \in remote : f <= fname

\* What kwatcher will read is in order, and behind what it has read.
BellsInOrder ==
  /\ \A j, k \in 1..Len(events) :
       j <= k => bell[events[j]] <= bell[events[k]]
  /\ \A i \in 1..Len(got), j \in 1..Len(events) :
       bell[events[j]] \in remote => got[i] < bell[events[j]]

LEMMA LagFacts ==
  ASSUME NEW w \in Version, NEW v \in Version
  PROVE  /\ LagOf(w, v) \in 0..(F_VERSION_M - 1)
         /\ LagOf(w, v) = 0 <=> v = w
         /\ LagOf(NextVersion(w), v) = IF LagOf(w, v) = F_VERSION_M - 1 THEN 0
                                      ELSE LagOf(w, v) + 1
<1>1. F_VERSION_M \in Nat /\ F_VERSION_M >= 1
  BY SenderAssumption
<1>2. PICK x \in Version :
        x = NextVersion(w) /\ x = IF w = F_VERSION_M - 1 THEN 0 ELSE w + 1
  BY NextVersionValue
<1>3. /\ LagOf(w, v) \in 0..(F_VERSION_M - 1)
      /\ LagOf(w, v) = 0 <=> v = w
  BY <1>1 DEF LagOf, Version
<1>4. LagOf(x, v) = IF LagOf(w, v) = F_VERSION_M - 1 THEN 0
                    ELSE LagOf(w, v) + 1
  BY <1>1, <1>2 DEF LagOf, Version
<1> QED BY <1>2, <1>3, <1>4

\* The notifications are written at one end and read at the other.
LEMMA EventsStep ==
  ASSUME STypeOK, Conversation, [SNext]_svvars
  PROVE  \/ events' = events /\ bell' = bell
            /\ ~(sftp_does /\ cmds[1].op = "bell")
         \/ /\ sftp_does /\ cmds # <<>> /\ cmds[1].op = "bell"
            /\ bell' = [bell EXCEPT ![vrsn] = lntfy]
            /\ events' = Append(events, vrsn)
            /\ Len(events) < MaxBehind
         \/ /\ kwatcher_reads /\ bell' = bell
            /\ events # <<>> /\ events' = Tail(events)
<1>1. CASE sftp_does
  BY <1>1, ChildFacts DEF sftp_does
<1>2. CASE kwatcher_reads
  BY <1>2 DEF kwatcher_reads
<1>3. CASE ~sftp_does /\ ~kwatcher_reads
  BY <1>3
  DEF SNext, sender, svvars, svars, kvars, announce, sftp_put, put_cmd_write,
      put_cmd_read, put_cmd_timeout, notify, die_return, sftp_fails
<1> QED BY <1>1, <1>2, <1>3

\* The version is counted on with an answer, or by an end of file that leaves
\* no child to ring again.
LEMMA CountStep ==
  ASSUME STypeOK, Conversation, [SNext]_svvars, ~Doomed'
  PROVE  /\ ~Doomed
         /\ \/ vrsn' = vrsn /\ (Rung' <=> Rung)
            \/ vrsn' = vrsn /\ sftp_does /\ cmds[1].op = "bell" /\ ~Rung
            \/ put_cmd_read /\ Rung /\ ~Rung' /\ vrsn' = NextVersion(vrsn)
<1> USE DEF Doomed, Rung
<1>1. CASE announce
  BY <1>1 DEF announce, pvars, svars
<1>2. CASE sftp_put
  BY <1>2 DEF sftp_put
<1>3. CASE put_cmd_write
  BY <1>3, WriteFacts DEF put_cmd_write, Waiting
<1>4. CASE put_cmd_read
  BY <1>4 DEF put_cmd_read, Next_pc, STypeOK
<1>5. CASE put_cmd_timeout
  BY <1>5 DEF put_cmd_timeout, svars
<1>6. CASE notify
  BY <1>6 DEF notify, svars
<1>7. CASE die_return
  BY <1>7 DEF die_return
<1>8. CASE sftp_does
  <2>1. replies = 0 /\ (pc = "bell_wait" => cmds[1].op = "bell")
    BY <1>8, ChildFacts DEF UnderWay, PutBell
  <2>2. sftp = "runs" /\ pc' = pc /\ vrsn' = vrsn
    BY <1>8 DEF sftp_does, pvars
  <2>3. pc # "killed"
    BY <2>2 DEF Conversation
  <2> QED BY <1>8, <2>1, <2>2, <2>3
<1>9. CASE sftp_fails
  BY <1>9 DEF sftp_fails, pvars, Conversation
<1>10. CASE kwatcher_reads
  BY <1>10 DEF kwatcher_reads, pvars
<1>11. CASE UNCHANGED svvars
  BY <1>11 DEF svvars, pvars, svars
<1> QED
  BY <1>1, <1>2, <1>3, <1>4, <1>5, <1>6, <1>7, <1>8, <1>9, <1>10, <1>11
  DEF SNext, sender

LEMMA LagsFallStep ==
  ASSUME MaxBehind <= F_VERSION_M, STypeOK, Conversation, [SNext]_svvars,
         LagsFall, ~Doomed'
  PROVE  \A j \in 1..Len(events') :
           Len(events') - j + 1 < F_VERSION_M =>
             /\ LagOf(vrsn', events'[j]) <= Len(events') - j + 1 - Uncounted'
             /\ \A k \in j..Len(events') :
                  LagOf(vrsn', events'[k]) <= LagOf(vrsn', events'[j])
<1>1. PICK n \in Nat : n = Len(events)
  BY LenProperties DEF STypeOK
<1>2. /\ vrsn \in Version /\ F_VERSION_M \in Nat \ {0} /\ MaxBehind \in Nat
      /\ events \in Seq(Version) /\ \A j \in 1..n : events[j] \in Version
  BY <1>1, SenderAssumption, ElementOfSeq DEF STypeOK, Version
<1>3. PICK u \in {0, 1} : u = Uncounted
  BY DEF Uncounted
<1>4. \A j \in 1..n : LagOf(vrsn, events[j]) \in 0..(F_VERSION_M - 1)
  BY <1>2, LagFacts
<1>5. \A j \in 1..n :
        n - j + 1 < F_VERSION_M =>
          /\ LagOf(vrsn, events[j]) <= n - j + 1 - u
          /\ \A k \in j..n : LagOf(vrsn, events[k]) <= LagOf(vrsn, events[j])
  BY <1>1, <1>3, CountStep DEF LagsFall
<1>6. CASE events' = events /\ vrsn' = vrsn /\ (Rung' <=> Rung)
  BY <1>1, <1>3, <1>5, <1>6 DEF Uncounted
<1>7. CASE events' = events /\ Rung /\ ~Rung' /\ vrsn' = NextVersion(vrsn)
  <2>1. u = 1 /\ Uncounted' = 0
    BY <1>3, <1>7 DEF Uncounted
  <2>2. \A j \in 1..n : LagOf(vrsn', events[j]) =
          IF LagOf(vrsn, events[j]) = F_VERSION_M - 1 THEN 0
          ELSE LagOf(vrsn, events[j]) + 1
    BY <1>2, <1>7, LagFacts
  <2>3. ASSUME NEW j \in 1..n, n - j + 1 < F_VERSION_M
        PROVE  /\ LagOf(vrsn', events[j]) = LagOf(vrsn, events[j]) + 1
               /\ LagOf(vrsn, events[j]) <= n - j
    BY <1>2, <1>4, <1>5, <2>1, <2>2, <2>3
  <2>4. ASSUME NEW j \in 1..n, n - j + 1 < F_VERSION_M, NEW k \in j..n
        PROVE  LagOf(vrsn', events[k]) <= LagOf(vrsn', events[j])
    <3>1. k \in 1..n /\ n - k + 1 < F_VERSION_M
      BY <1>2, <2>4
    <3>2. LagOf(vrsn', events[k]) = LagOf(vrsn, events[k]) + 1
      BY <2>3, <3>1
    <3>3. LagOf(vrsn, events[k]) <= LagOf(vrsn, events[j])
      BY <1>5, <2>4
    <3> QED BY <1>4, <2>3, <2>4, <3>1, <3>2, <3>3
  <2>5. ASSUME NEW j \in 1..n, n - j + 1 < F_VERSION_M
        PROVE  LagOf(vrsn', events[j]) <= n - j + 1 - Uncounted'
    BY <1>4, <2>1, <2>3, <2>5
  <2> QED BY <1>1, <1>7, <2>4, <2>5
<1>8. CASE /\ vrsn' = vrsn /\ ~Rung /\ events' = Append(events, vrsn)
           /\ Len(events) < MaxBehind
  <2>1. /\ Len(events') = n + 1 /\ events'[n + 1] = vrsn
        /\ \A j \in 1..n : events'[j] = events[j]
    BY <1>1, <1>2, <1>8, AppendProperties
  <2>2. u = 0 /\ Uncounted' \in {0, 1} /\ n < F_VERSION_M
    BY <1>1, <1>2, <1>3, <1>8 DEF Uncounted
  <2>3. LagOf(vrsn, vrsn) = 0
    BY <1>2, LagFacts
  <2>4. ASSUME NEW j \in 1..(n + 1)
        PROVE  LagOf(vrsn, events'[j]) <= (n + 1) - j + 1 - Uncounted'
    <3>1. CASE j = n + 1
      BY <2>1, <2>2, <2>3, <3>1
    <3>2. CASE j # n + 1
      <4>1. j \in 1..n /\ n - j + 1 < F_VERSION_M
        BY <1>2, <2>2, <3>2
      <4>2. LagOf(vrsn, events[j]) <= n - j + 1 - u
        BY <1>5, <4>1
      <4>3. LagOf(vrsn, events[j]) \in Int
        BY <1>4, <4>1
      <4> QED BY <2>1, <2>2, <4>1, <4>2, <4>3
    <3> QED BY <3>1, <3>2
  <2>5. ASSUME NEW j \in 1..(n + 1), NEW k \in j..(n + 1)
        PROVE  LagOf(vrsn, events'[k]) <= LagOf(vrsn, events'[j])
    <3>1. CASE k = n + 1
      BY <1>4, <2>1, <2>3, <3>1
    <3>2. CASE k # n + 1
      <4>1. k \in j..n /\ j \in 1..n /\ n - j + 1 < F_VERSION_M
        BY <1>2, <2>2, <3>2
      <4> QED BY <1>5, <2>1, <4>1
    <3> QED BY <3>1, <3>2
  <2> QED BY <1>8, <2>1, <2>4, <2>5
<1>9. CASE /\ vrsn' = vrsn /\ (Rung' <=> Rung)
           /\ events # <<>> /\ events' = Tail(events)
  <2>1. /\ n >= 1 /\ Len(events') = n - 1
        /\ \A j \in 1..(n - 1) : events'[j] = events[j + 1]
    BY <1>1, <1>2, <1>9, HeadTailProperties, EmptySeq
  <2>2. Uncounted' = u
    BY <1>3, <1>9 DEF Uncounted
  <2>3. ASSUME NEW j \in 1..(n - 1), (n - 1) - j + 1 < F_VERSION_M
        PROVE  /\ LagOf(vrsn, events'[j]) <= (n - 1) - j + 1 - u
               /\ \A k \in j..(n - 1) :
                    LagOf(vrsn, events'[k]) <= LagOf(vrsn, events'[j])
    <3>1. j + 1 \in 1..n /\ n - (j + 1) + 1 < F_VERSION_M
      BY <1>2, <2>3
    <3>2. LagOf(vrsn, events[j + 1]) <= n - (j + 1) + 1 - u
      BY <1>5, <3>1
    <3>3. ASSUME NEW k \in j..(n - 1)
          PROVE  LagOf(vrsn, events[k + 1]) <= LagOf(vrsn, events[j + 1])
      <4>1. k + 1 \in (j + 1)..n
        OBVIOUS
      <4> QED BY <1>5, <3>1, <4>1
    <3>4. n - (j + 1) + 1 - u = (n - 1) - j + 1 - u
      OBVIOUS
    <3> QED BY <2>1, <3>2, <3>3, <3>4
  <2> QED BY <1>9, <2>1, <2>2, <2>3
<1>10. CASE sftp_does
  <2>1. replies = 0
    BY <1>10, ChildFacts
  <2>2. ~Rung /\ ~put_cmd_read
    BY <1>10, <2>1 DEF Rung, put_cmd_read, sftp_does
  <2>3. ~kwatcher_reads
    BY <1>10, ChildFacts DEF kwatcher_reads
  <2>4. vrsn' = vrsn
    BY <2>2, CountStep
  <2> QED BY <1>6, <1>8, <2>2, <2>3, <2>4, CountStep, EventsStep
<1>11. CASE kwatcher_reads
  <2>1. vrsn' = vrsn /\ (Rung' <=> Rung)
    BY <1>11 DEF kwatcher_reads, pvars, Rung
  <2> QED BY <1>9, <1>11, <2>1 DEF kwatcher_reads
<1>12. CASE ~sftp_does /\ ~kwatcher_reads
  BY <1>6, <1>7, <1>12, EventsStep, CountStep
<1> QED BY <1>10, <1>11, <1>12

\* A file is fresh from sftp_put until the child carries out its notification.
LEMMA FreshStep ==
  ASSUME STypeOK, Conversation, [SNext]_svvars
  PROVE  /\ fname' = fname \/ fname' = fname + 1
         /\ FreshFile' => FreshFile \/ fname' = fname + 1
         /\ fname' = fname + 1 => sftp_put
         /\ sftp_does /\ cmds[1].op = "bell" => ~FreshFile'
<1>0. fname \in Nat /\ fname # fname + 1
  BY SenderAssumption DEF STypeOK, Files
<1> USE <1>0 DEF FreshFile
<1>1. CASE announce
  BY <1>1 DEF announce, pvars, svars, sftp_does
<1>2. CASE sftp_put
  BY <1>2 DEF sftp_put, sftp_does, kvars, Conversation
<1>3. CASE put_cmd_write
  <2>1. fname' = fname /\ ~sftp_does
    BY <1>3, WriteFacts DEF put_cmd_write, sftp_does
  <2>2. CASE sftp = "runs"
    BY <1>3, <2>1, <2>2, WriteFacts
    DEF put_cmd_write, Command, PutFile, PutBell, Closing, Waiting
  <2>3. CASE sftp # "runs"
    BY <1>3, <2>1, <2>3, WriteFacts DEF put_cmd_write
  <2> QED BY <2>1, <2>2, <2>3
<1>4. CASE put_cmd_read
  <2>1. cmds = <<>> /\ fname' = fname /\ cmds' = cmds
    BY <1>4 DEF put_cmd_read, Conversation, STypeOK
  <2> QED BY <1>4, <2>1 DEF put_cmd_read, Next_pc, sftp_does
<1>5. CASE put_cmd_timeout
  BY <1>5 DEF put_cmd_timeout, svars, kvars, sftp_does
<1>6. CASE notify
  BY <1>6 DEF notify, svars, kvars, sftp_does
<1>7. CASE die_return
  BY <1>7 DEF die_return, sftp_does
<1>8. CASE sftp_does
  <2>1. cmds # <<>> /\ cmds' = <<>> /\ pc' = pc /\ fname' = fname
    BY <1>8, ChildFacts DEF sftp_does, pvars
  <2>2. cmds[1].op = "bell" => pc \in {"bell_wait", "die"}
    BY <1>8, ChildFacts DEF UnderWay, PutFile, PutBell, Closing
  <2> QED BY <2>1, <2>2
<1>9. CASE sftp_fails
  BY <1>9 DEF sftp_fails, pvars, kvars, sftp_does
<1>10. CASE kwatcher_reads
  BY <1>10 DEF kwatcher_reads, pvars, sftp_does
<1>11. CASE UNCHANGED svvars
  BY <1>11 DEF svvars, pvars, svars, kvars, sftp_does
<1> QED
  BY <1>1, <1>2, <1>3, <1>4, <1>5, <1>6, <1>7, <1>8, <1>9, <1>10, <1>11
  DEF SNext, sender

\* A file gets there by a put, and kwatcher takes it over.
LEMMA RemoteStep ==
  ASSUME STypeOK, Conversation, [SNext]_svvars
  PROVE  \/ remote' = remote /\ got' = got
         \/ /\ remote' = remote \cup {fname} /\ got' = got
            /\ FreshFile /\ bell' = bell /\ events' = events
            /\ fname' = fname
         \/ /\ kwatcher_reads /\ fname' = fname /\ (FreshFile' <=> FreshFile)
            /\ bell[Head(events)] \in remote
            /\ remote' = remote \ {bell[Head(events)]}
            /\ got' = Append(got, bell[Head(events)])
<1>1. CASE sftp_does
  BY <1>1, ChildFacts DEF sftp_does, FreshFile, pvars
<1>2. CASE kwatcher_reads
  BY <1>2 DEF kwatcher_reads, FreshFile, pvars
<1>3. CASE ~sftp_does /\ ~kwatcher_reads
  BY <1>3
  DEF SNext, sender, svvars, svars, kvars, announce, sftp_put, put_cmd_write,
      put_cmd_read, put_cmd_timeout, notify, die_return, sftp_fails
<1> QED BY <1>1, <1>2, <1>3

LEMMA FileKnownStep ==
  ASSUME STypeOK, Conversation, PutBefore, FileKnown, [SNext]_svvars
  PROVE  FileKnown'
<1>1. /\ fname \in Nat /\ bell \in [Version -> Nat] /\ remote \subseteq Nat
      /\ got \in Seq(Files) /\ Files \subseteq Nat
      /\ fname' = fname \/ fname' = fname + 1
  <2>1. fname \in Nat /\ Files \subseteq Nat /\ Files \cup {NoFile} \subseteq Nat
    BY SenderAssumption DEF STypeOK, Files, NoFile
  <2>2. bell \in [Version -> Files \cup {NoFile}]
    BY DEF STypeOK, Version
  <2>3. bell \in [Version -> Nat]
    BY <2>1, <2>2
  <2> QED BY <2>1, <2>3, FreshStep DEF STypeOK
<1>2. PICK n \in Nat : n = Len(got)
  BY <1>1, LenProperties
<1>3. \A i \in 1..n : got[i] \in Nat
  BY <1>1, <1>2, ElementOfSeq
<1>4. ASSUME NEW v \in Version
      PROVE  bell'[v] <= fname' /\ (FreshFile' => bell'[v] # fname')
  <2>1. bell[v] \in Nat /\ bell[v] <= fname
        /\ (FreshFile => bell[v] # fname)
    BY <1>1 DEF FileKnown
  <2>2. CASE bell' = bell
    BY <1>1, <2>1, <2>2, FreshStep
  <2>3. CASE /\ sftp_does /\ cmds # <<>> /\ cmds[1].op = "bell"
             /\ bell' = [bell EXCEPT ![vrsn] = lntfy]
    <3>1. lntfy = fname /\ ~FreshFile'
      BY <2>3, FreshStep DEF PutBefore
    <3> QED BY <1>1, <2>1, <2>3, <3>1
  <2> QED BY <2>2, <2>3, EventsStep
<1>5. /\ \A i \in 1..Len(got') : got'[i] <= fname' /\ got'[i] \notin remote'
                                 /\ (FreshFile' => got'[i] # fname')
      /\ \A f \in remote' : f <= fname'
  <2>1. /\ \A i \in 1..n : got[i] <= fname /\ got[i] \notin remote
                           /\ (FreshFile => got[i] # fname)
        /\ \A f \in remote : f <= fname
    BY <1>2 DEF FileKnown
  <2>2. CASE remote' = remote /\ got' = got
    <3>1. CASE fname' = fname
      <4>1. FreshFile' => FreshFile
        BY <1>1, <3>1, FreshStep
      <4> QED BY <1>2, <2>1, <2>2, <3>1, <4>1
    <3>2. CASE fname' = fname + 1
      BY <1>1, <1>2, <1>3, <2>1, <2>2, <3>2
    <3> QED BY <1>1, <3>1, <3>2
  <2>3. CASE /\ remote' = remote \cup {fname} /\ got' = got
             /\ FreshFile /\ fname' = fname
    BY <1>1, <1>2, <1>3, <2>1, <2>3
  <2>4. CASE /\ kwatcher_reads /\ fname' = fname /\ (FreshFile' <=> FreshFile)
             /\ bell[Head(events)] \in remote
             /\ remote' = remote \ {bell[Head(events)]}
             /\ got' = Append(got, bell[Head(events)])
    <3>1. Head(events) \in Version
      BY <2>4, HeadTailProperties DEF kwatcher_reads, STypeOK, Version
    <3>2. PICK f \in Files : f = bell[Head(events)]
      BY <2>4 DEF STypeOK
    <3>3. f <= fname /\ (FreshFile => f # fname)
      BY <3>1, <3>2 DEF FileKnown
    <3>4. /\ Len(got') = n + 1 /\ got'[n + 1] = f
          /\ \A i \in 1..n : got'[i] = got[i]
      BY <1>1, <1>2, <2>4, <3>2, AppendProperties
    <3> QED BY <1>1, <1>2, <1>3, <2>1, <2>4, <3>2, <3>3, <3>4
  <2> QED BY <2>2, <2>3, <2>4, RemoteStep
<1> QED BY <1>4, <1>5 DEF FileKnown

\* A notification is written over only when nothing unread lies behind its
\* earlier use.
LEMMA NoneBehind ==
  ASSUME MaxBehind <= F_VERSION_M, STypeOK, Conversation, LagsFall, sftp_does,
         Len(events) < MaxBehind,
         NEW j \in 1..Len(events), NEW k \in j..Len(events),
         events[j] = vrsn
  PROVE  events[k] = vrsn
<1>1. PICK n \in Nat : n = Len(events)
  BY LenProperties DEF STypeOK
<1>2. /\ F_VERSION_M \in Nat /\ MaxBehind \in Nat /\ vrsn \in Version
      /\ events \in Seq(Version)
  BY SenderAssumption DEF STypeOK, Version
<1>3. j \in 1..n /\ k \in 1..n /\ n - j + 1 < F_VERSION_M
  BY <1>1, <1>2
<1>4. events[j] \in Version /\ events[k] \in Version
  BY <1>1, <1>2, <1>3, ElementOfSeq
<1>5. ~Doomed
  BY DEF Doomed, sftp_does, Conversation
<1>6. LagOf(vrsn, events[k]) <= LagOf(vrsn, events[j])
  BY <1>1, <1>3, <1>5 DEF LagsFall
<1>7. LagOf(vrsn, events[j]) = 0
  BY <1>2, <1>4, LagFacts
<1>8. LagOf(vrsn, events[k]) \in 0..(F_VERSION_M - 1)
  BY <1>2, <1>4, LagFacts
<1>9. LagOf(vrsn, events[k]) = 0
  BY <1>6, <1>7, <1>8
<1> QED BY <1>2, <1>4, <1>9, LagFacts

LEMMA BellsInOrderStep ==
  ASSUME MaxBehind <= F_VERSION_M, STypeOK, Conversation, PutBefore, FileKnown,
         LagsFall, BellsInOrder, [SNext]_svvars
  PROVE  BellsInOrder'
<1>1. PICK n \in Nat : n = Len(events)
  BY LenProperties DEF STypeOK
<1>2. PICK m \in Nat : m = Len(got)
  BY LenProperties DEF STypeOK
<1>3. /\ events \in Seq(Version) /\ vrsn \in Version
      /\ \A j \in 1..n : events[j] \in Version
      /\ \A v \in Version : bell[v] \in Nat
      /\ got \in Seq(Files) /\ Files \subseteq Nat /\ fname \in Nat
      /\ \A i \in 1..m : got[i] \in Nat
  <2>1. events \in Seq(Version) /\ got \in Seq(Files) /\ vrsn \in Version
    BY DEF STypeOK, Version
  <2>2. \A j \in 1..n : events[j] \in Version
    BY <1>1, <2>1, ElementOfSeq
  <2>3. Files \subseteq Nat /\ NoFile \in Nat
    BY SenderAssumption DEF Files, NoFile
  <2>4. \A i \in 1..m : got[i] \in Files
    BY <1>2, <2>1, ElementOfSeq
  <2>5. bell \in [Version -> Files \cup {NoFile}]
    BY DEF STypeOK, Version
  <2>6. \A v \in Version : bell[v] \in Nat
    BY <2>3, <2>5
  <2>7. fname \in Nat
    BY <2>3 DEF STypeOK
  <2> QED
    BY <2>1, <2>2, <2>3, <2>4, <2>6, <2>7
<1>4. \A j, k \in 1..n : j <= k => bell[events[j]] <= bell[events[k]]
  BY <1>1 DEF BellsInOrder
<1>5. \A i \in 1..m, j \in 1..n :
        bell[events[j]] \in remote => got[i] < bell[events[j]]
  BY <1>1, <1>2 DEF BellsInOrder
<1>6. CASE kwatcher_reads
  <2>1. /\ n >= 1 /\ Len(events') = n - 1 /\ bell' = bell
        /\ \A j \in 1..(n - 1) : events'[j] = events[j + 1]
        /\ Head(events) = events[1]
    BY <1>1, <1>3, <1>6, HeadTailProperties, EmptySeq DEF kwatcher_reads
  <2>2. ASSUME NEW j \in 1..(n - 1), NEW k \in 1..(n - 1), j <= k
        PROVE  bell[events'[j]] <= bell[events'[k]]
    <3>1. j + 1 \in 1..n /\ k + 1 \in 1..n /\ j + 1 <= k + 1
      BY <2>2
    <3> QED BY <1>4, <2>1, <3>1
  <2>3. ASSUME NEW i \in 1..Len(got'), NEW j \in 1..(n - 1),
               bell[events'[j]] \in remote'
        PROVE  got'[i] < bell[events'[j]]
    <3>1. j + 1 \in 1..n /\ events'[j] = events[j + 1]
      BY <2>1
    <3>2. CASE remote' = remote /\ got' = got
      BY <1>2, <1>5, <2>3, <3>1, <3>2
    <3>3. CASE /\ bell[Head(events)] \in remote
               /\ remote' = remote \ {bell[Head(events)]}
               /\ got' = Append(got, bell[Head(events)])
      <4>1. PICK f \in Files : f = bell[events[1]]
        BY <2>1, <3>3 DEF STypeOK
      <4>2. /\ Len(got') = m + 1 /\ got'[m + 1] = f
            /\ \A h \in 1..m : got'[h] = got[h]
        BY <1>2, <1>3, <2>1, <3>3, <4>1, AppendProperties
      <4>3. PICK b \in Nat : b = bell[events[j + 1]]
        BY <1>3, <3>1
      <4>4. b \in remote /\ b # f /\ f <= b
        <5>1. 1 \in 1..n /\ 1 <= j + 1
          BY <3>1
        <5> QED BY <1>4, <2>1, <2>3, <3>1, <3>3, <4>1, <4>3, <5>1
      <4>5. CASE i = m + 1
        BY <1>3, <3>1, <4>1, <4>2, <4>3, <4>4, <4>5
      <4>6. CASE i # m + 1
        <5>1. i \in 1..m
          BY <2>3, <4>2, <4>6
        <5> QED BY <1>5, <3>1, <4>2, <4>3, <4>4, <5>1
      <4> QED BY <4>5, <4>6
    <3> QED BY <1>6, <3>2, <3>3 DEF kwatcher_reads
  <2> QED BY <2>1, <2>2, <2>3 DEF BellsInOrder
<1>7. CASE /\ sftp_does /\ cmds # <<>> /\ cmds[1].op = "bell"
           /\ bell' = [bell EXCEPT ![vrsn] = lntfy]
           /\ events' = Append(events, vrsn)
           /\ Len(events) < MaxBehind
  <2>1. /\ Len(events') = n + 1 /\ events'[n + 1] = vrsn
        /\ \A j \in 1..n : events'[j] = events[j]
    BY <1>1, <1>3, <1>7, AppendProperties
  <2>2. lntfy = fname /\ FreshFile
    BY <1>7 DEF PutBefore, FreshFile
  <2>3. got' = got /\ remote' = remote
    BY <1>7, ChildFacts DEF sftp_does
  <2>4. \A v \in Version : bell'[v] = IF v = vrsn THEN fname ELSE bell[v]
    BY <1>7, <2>2 DEF STypeOK, Version
  <2>5. \A v \in Version : bell[v] <= fname
    BY DEF FileKnown
  <2>6. ASSUME NEW j \in 1..(n + 1), NEW k \in 1..(n + 1), j <= k
        PROVE  bell'[events'[j]] <= bell'[events'[k]]
    <3>1. events'[j] \in Version /\ events'[k] \in Version
      BY <1>3, <2>1
    <3>2. CASE events'[k] = vrsn
      BY <1>3, <2>4, <2>5, <3>1, <3>2
    <3>3. CASE events'[k] # vrsn
      <4>1. k \in 1..n /\ j \in 1..n /\ k \in j..n
        BY <2>1, <2>6, <3>3
      <4>2. events[j] # vrsn
        BY <1>1, <1>7, <2>1, <3>3, <4>1, NoneBehind
      <4> QED BY <1>4, <2>1, <2>4, <2>6, <3>1, <3>3, <4>1, <4>2
    <3> QED BY <3>2, <3>3
  <2>7. ASSUME NEW i \in 1..m, NEW j \in 1..(n + 1),
               bell'[events'[j]] \in remote
        PROVE  got[i] < bell'[events'[j]]
    <3>1. events'[j] \in Version
      BY <1>3, <2>1
    <3>2. CASE events'[j] = vrsn
      <4>1. got[i] <= fname /\ got[i] # fname
        BY <1>2, <2>2 DEF FileKnown
      <4> QED BY <1>3, <2>4, <3>1, <3>2, <4>1
    <3>3. CASE events'[j] # vrsn
      <4>1. j \in 1..n
        BY <2>1, <3>3
      <4> QED BY <1>5, <2>1, <2>4, <2>7, <3>1, <3>3, <4>1
    <3> QED BY <3>2, <3>3
  <2> QED BY <1>2, <2>1, <2>3, <2>6, <2>7 DEF BellsInOrder
<1>8. CASE events' = events /\ bell' = bell /\ ~kwatcher_reads
  <2>1. CASE remote' = remote /\ got' = got
    BY <1>8, <2>1 DEF BellsInOrder
  <2>2. CASE remote' = remote \cup {fname} /\ got' = got /\ FreshFile
    <3>1. \A j \in 1..n : bell[events[j]] # fname
      BY <1>3, <2>2 DEF FileKnown
    <3> QED BY <1>1, <1>8, <2>2, <3>1 DEF BellsInOrder
  <2> QED BY <1>8, <2>1, <2>2, RemoteStep
<1> QED BY <1>6, <1>7, <1>8, EventsStep

LEMMA GotInOrderStep ==
  ASSUME STypeOK, Conversation, BellsInOrder, GotInOrder, [SNext]_svvars
  PROVE  GotInOrder'
<1>1. PICK m \in Nat : m = Len(got)
  BY LenProperties DEF STypeOK
<1>2. CASE got' = got
  BY <1>2 DEF GotInOrder
<1>3. CASE /\ kwatcher_reads
           /\ bell[Head(events)] \in remote
           /\ got' = Append(got, bell[Head(events)])
  <2>1. PICK f \in Files : f = bell[Head(events)]
    BY <1>3 DEF STypeOK
  <2>2. /\ Len(got') = m + 1 /\ got'[m + 1] = f
        /\ \A h \in 1..m : got'[h] = got[h]
    BY <1>1, <1>3, <2>1, AppendProperties DEF STypeOK
  <2>3. 1 \in 1..Len(events) /\ Head(events) = events[1]
    BY <1>3, EmptySeq, LenProperties DEF kwatcher_reads, STypeOK
  <2>4. \A h \in 1..m : got[h] < f
    BY <1>1, <1>3, <2>1, <2>3 DEF BellsInOrder
  <2>5. \A j, k \in 1..m : j < k => got[j] < got[k]
    BY <1>1 DEF GotInOrder
  <2>6. ASSUME NEW j \in 1..(m + 1), NEW k \in 1..(m + 1), j < k
        PROVE  got'[j] < got'[k]
    BY <2>2, <2>4, <2>5, <2>6
  <2> QED BY <2>2, <2>6 DEF GotInOrder
<1> QED BY <1>2, <1>3, RemoteStep

\* Why kwatcher reads in order: the versions it has to read, the files they
\* name and the file under way.
OrderInv ==
  /\ STypeOK /\ Conversation /\ PutBefore /\ FileKnown
  /\ LagsFall /\ BellsInOrder /\ GotInOrder

LEMMA OrderInit == SInit => OrderInv
<1> SUFFICES ASSUME SInit PROVE OrderInv
  OBVIOUS
<1>1. STypeOK /\ Conversation
  BY SenderTypeInit
<1>2. Len(events) = 0 /\ Len(got) = 0
  BY EmptySeq DEF SInit
<1>3. PutBefore /\ FileKnown
  BY <1>2, SenderAssumption
  DEF SInit, PutBefore, FileKnown, FreshFile, Version, NoFile
<1>4. LagsFall /\ BellsInOrder /\ GotInOrder
  BY <1>2 DEF LagsFall, BellsInOrder, GotInOrder
<1> QED BY <1>1, <1>3, <1>4 DEF OrderInv

LEMMA OrderStep ==
  MaxBehind <= F_VERSION_M /\ OrderInv /\ [SNext]_svvars => OrderInv'
<1> SUFFICES ASSUME MaxBehind <= F_VERSION_M, OrderInv, [SNext]_svvars
             PROVE  OrderInv'
  OBVIOUS
<1> USE DEF OrderInv
<1>1. STypeOK' /\ Conversation' /\ PutBefore' /\ FileKnown'
  BY SenderTypeStep, PutBeforeStep, FileKnownStep
<1>2. LagsFall'
  BY LagsFallStep DEF LagsFall
<1>3. BellsInOrder' /\ GotInOrder'
  BY BellsInOrderStep, GotInOrderStep
<1> QED BY <1>1, <1>2, <1>3

\* As long as kwatcher is never more than F_VERSION_M notifications behind, it
\* takes the files over in the order of their announcement, although the
\* notification files are used again and a late answer uses one of them twice.
THEOREM TakenInOrder ==
  MaxBehind <= F_VERSION_M => (SSpec => []GotInOrder)
<1> SUFFICES ASSUME MaxBehind <= F_VERSION_M PROVE SSpec => []GotInOrder
  OBVIOUS
<1>1. OrderInv /\ [SNext]_svvars => OrderInv'
  BY OrderStep
<1>2. OrderInv => GotInOrder
  BY DEF OrderInv
<1> QED BY <1>1, <1>2, OrderInit, PTL DEF SSpec

-----------------------------------------------------------------------------
(* Each file is told of, as long as no answer is late.                     *)

\* Without late answers every unread notification has a version of its own,
\* and they are just the last ones that were used.
LagsExact ==
  timeouts = 0 =>
    /\ pc # "die"
    /\ ~Doomed =>
         \A j \in 1..Len(events) :
           LagOf(vrsn, events[j]) =
             IF Len(events) - j + 1 - Uncounted = F_VERSION_M THEN 0
             ELSE Len(events) - j + 1 - Uncounted

\* kwatcher is not farther behind than it may be.
FewUnread == Len(events) <= MaxBehind

\* The notification of the present file is written.
Done ==
  \/ Rung \/ pc \in {"last_wait", "waitpid", "idle"}
  \/ pc = "last" /\ sftp = "runs"

Told ==
  timeouts = 0 =>
    \A f \in remote :
      f < fname \/ Done => \E j \in 1..Len(events) : bell[events[j]] = f

LEMMA TimeoutStep ==
  ASSUME STypeOK, Conversation, timeouts \in Nat, [SNext]_svvars
  PROVE  /\ timeouts' \in Nat
         /\ timeouts' = 0 => /\ timeouts = 0
                             /\ pc # "die" => pc' # "die"
<1>1. CASE put_cmd_timeout
  BY <1>1 DEF put_cmd_timeout
<1>2. CASE put_cmd_write
  BY <1>2 DEF put_cmd_write, Waiting
<1>3. CASE put_cmd_read
  BY <1>3 DEF put_cmd_read, Next_pc
<1>4. CASE ~put_cmd_timeout /\ ~put_cmd_write /\ ~put_cmd_read
  BY <1>4
  DEF SNext, sender, svvars, pvars, svars, kvars, announce, sftp_put, notify,
      die_return, sftp_does, sftp_fails, kwatcher_reads
<1> QED BY <1>1, <1>2, <1>3, <1>4

\* A file is done with the notification, or because the next one is taken up.
LEMMA DoneStep ==
  ASSUME STypeOK, Conversation, [SNext]_svvars, pc # "die"
  PROVE  /\ fname' = fname + 1 => Done /\ ~Done'
         /\ Done' => Done \/ (sftp_does /\ cmds[1].op = "bell")
         /\ kwatcher_reads => (Done' <=> Done)
<1>0. fname \in Nat /\ fname # fname + 1
  BY SenderAssumption DEF STypeOK, Files
<1> USE <1>0 DEF Done, Rung
<1>1. CASE announce
  BY <1>1 DEF announce, pvars, svars
<1>2. CASE sftp_put
  BY <1>2 DEF sftp_put, kvars, kwatcher_reads
<1>3. CASE put_cmd_write
  BY <1>3, WriteFacts DEF put_cmd_write, Waiting, kwatcher_reads
<1>4. CASE put_cmd_read
  BY <1>4 DEF put_cmd_read, Next_pc, STypeOK, kwatcher_reads
<1>5. CASE put_cmd_timeout
  BY <1>5 DEF put_cmd_timeout, svars, kwatcher_reads, pvars
<1>6. CASE notify
  BY <1>6 DEF notify, svars
<1>7. CASE die_return
  BY <1>7 DEF die_return, kwatcher_reads
<1>8. CASE sftp_does
  <2>1. replies = 0 /\ (pc = "bell_wait" => cmds[1].op = "bell")
        /\ (cmds[1].op = "quit" => pc \in {"last_wait", "waitpid"})
    BY <1>8, ChildFacts DEF UnderWay, PutBell
  <2>2. sftp = "runs" /\ pc' = pc /\ fname' = fname /\ ~kwatcher_reads
    BY <1>8, ChildFacts DEF sftp_does, pvars, kwatcher_reads
  <2> QED BY <1>8, <2>1, <2>2
<1>9. CASE sftp_fails
  BY <1>9 DEF sftp_fails, pvars, kvars, kwatcher_reads
<1>10. CASE kwatcher_reads
  BY <1>10 DEF kwatcher_reads, pvars
<1>11. CASE UNCHANGED svvars
  BY <1>11 DEF svvars, pvars, svars
<1> QED
  BY <1>1, <1>2, <1>3, <1>4, <1>5, <1>6, <1>7, <1>8, <1>9, <1>10, <1>11
  DEF SNext, sender

LEMMA LagsExactStep ==
  ASSUME MaxBehind <= F_VERSION_M, STypeOK, Conversation, timeouts \in Nat,
         LagsExact, FewUnread, [SNext]_svvars
  PROVE  LagsExact'
<1> SUFFICES ASSUME timeouts' = 0
             PROVE  /\ pc' # "die"
                    /\ ~Doomed' =>
                         \A j \in 1..Len(events') :
                           LagOf(vrsn', events'[j]) =
                             IF Len(events') - j + 1 - Uncounted' = F_VERSION_M
                             THEN 0 ELSE Len(events') - j + 1 - Uncounted'
  BY DEF LagsExact
<1>1. timeouts = 0 /\ pc # "die" /\ pc' # "die"
  BY TimeoutStep DEF LagsExact
<1> SUFFICES ASSUME ~Doomed', NEW i \in 1..Len(events')
             PROVE  LagOf(vrsn', events'[i]) =
                      IF Len(events') - i + 1 - Uncounted' = F_VERSION_M
                      THEN 0 ELSE Len(events') - i + 1 - Uncounted'
  BY <1>1
<1>2. PICK n \in Nat : n = Len(events)
  BY LenProperties DEF STypeOK
<1>3. /\ vrsn \in Version /\ F_VERSION_M \in Nat \ {0} /\ MaxBehind \in Nat
      /\ events \in Seq(Version) /\ \A j \in 1..n : events[j] \in Version
  BY <1>2, SenderAssumption, ElementOfSeq DEF STypeOK, Version
<1>4. PICK u \in {0, 1} : u = Uncounted
  BY DEF Uncounted
<1>5. ~Doomed
  BY CountStep
<1>6. \A j \in 1..n :
        LagOf(vrsn, events[j]) = IF n - j + 1 - u = F_VERSION_M THEN 0
                                 ELSE n - j + 1 - u
  BY <1>1, <1>2, <1>4, <1>5 DEF LagsExact
<1>7. CASE kwatcher_reads
  <2>1. /\ vrsn' = vrsn /\ Uncounted' = u
        /\ events' = Tail(events) /\ events # <<>>
    BY <1>4, <1>7 DEF kwatcher_reads, pvars, Uncounted, Rung
  <2>2. /\ n >= 1 /\ Len(events') = n - 1 /\ i \in 1..(n - 1)
        /\ events'[i] = events[i + 1]
    BY <1>2, <1>3, <2>1, HeadTailProperties, EmptySeq
  <2>3. i + 1 \in 1..n /\ n - (i + 1) + 1 - u = (n - 1) - i + 1 - u
    BY <2>2
  <2>4. LagOf(vrsn, events[i + 1]) =
          IF n - (i + 1) + 1 - u = F_VERSION_M THEN 0 ELSE n - (i + 1) + 1 - u
    BY <1>6, <2>3
  <2> QED BY <2>1, <2>2, <2>3, <2>4
<1>8. CASE sftp_does /\ cmds[1].op = "bell"
  <2>1. /\ cmds # <<>> /\ replies = 0 /\ UnderWay(cmds[1])
    BY <1>8, ChildFacts
  <2>2. pc = "bell_wait" /\ pc' = pc /\ replies' = 1
    BY <1>1, <1>8, <2>1, ChildFacts
    DEF UnderWay, PutFile, Closing, sftp_does, pvars
  <2>3. u = 0 /\ Uncounted' = 1 /\ vrsn' = vrsn
    BY <1>4, <1>8, <2>1, <2>2 DEF Uncounted, Rung, sftp_does, pvars
  <2>4. events' = Append(events, vrsn) /\ n < F_VERSION_M
    BY <1>2, <1>3, <1>8, <2>1, EventsStep DEF kwatcher_reads, sftp_does
  <2>5. /\ Len(events') = n + 1 /\ events'[n + 1] = vrsn
        /\ \A j \in 1..n : events'[j] = events[j]
    BY <1>2, <1>3, <2>4, AppendProperties
  <2>6. CASE i = n + 1
    <3>1. LagOf(vrsn, vrsn) = 0
      BY <1>3, LagFacts
    <3> QED BY <1>3, <2>3, <2>5, <2>6, <3>1
  <2>7. CASE i # n + 1
    <3>1. i \in 1..n
      BY <2>5, <2>7
    <3>2. (n + 1) - i + 1 - 1 = n - i + 1 - 0
      BY <3>1
    <3> QED BY <1>6, <2>3, <2>5, <3>1, <3>2
  <2> QED BY <2>6, <2>7
<1>9. CASE put_cmd_read /\ Rung /\ ~Rung' /\ vrsn' = NextVersion(vrsn)
  <2>1. u = 1 /\ Uncounted' = 0 /\ events' = events /\ i \in 1..n
    BY <1>2, <1>4, <1>9 DEF Uncounted, put_cmd_read, kvars
  <2>2. LagOf(vrsn', events[i]) =
          IF LagOf(vrsn, events[i]) = F_VERSION_M - 1 THEN 0
          ELSE LagOf(vrsn, events[i]) + 1
    BY <1>3, <1>9, <2>1, LagFacts
  <2>3. LagOf(vrsn, events[i]) = IF n - i + 1 - 1 = F_VERSION_M THEN 0
                                 ELSE n - i + 1 - 1
    BY <1>6, <2>1
  <2>4. LagOf(vrsn, events[i]) \in 0..(F_VERSION_M - 1)
    BY <1>3, <2>1, LagFacts
  <2>5. n - i + 1 - 1 < F_VERSION_M
    BY <1>2, <1>3, <2>1 DEF FewUnread
  <2>6. LagOf(vrsn, events[i]) = n - i
    BY <2>1, <2>3, <2>5
  <2>7. LagOf(vrsn', events[i]) = IF n - i + 1 = F_VERSION_M THEN 0
                                  ELSE n - i + 1
    BY <1>3, <2>1, <2>2, <2>4, <2>5, <2>6
  <2> QED BY <1>2, <2>1, <2>7
<1>10. CASE events' = events /\ vrsn' = vrsn /\ (Rung' <=> Rung)
  BY <1>2, <1>4, <1>6, <1>10 DEF Uncounted
<1>11. CASE ~kwatcher_reads /\ ~(sftp_does /\ cmds[1].op = "bell")
  <2>1. events' = events
    BY <1>11, EventsStep
  <2> QED BY <1>9, <1>10, <1>11, <2>1, CountStep
<1> QED BY <1>7, <1>8, <1>11

LEMMA FewUnreadStep ==
  ASSUME STypeOK, Conversation, FewUnread, [SNext]_svvars
  PROVE  FewUnread'
<1>1. PICK n \in Nat : n = Len(events)
  BY LenProperties DEF STypeOK
<1>2. events \in Seq(Version) /\ vrsn \in Version /\ MaxBehind \in Nat
  BY SenderAssumption DEF STypeOK, Version
<1>3. CASE events' = events
  BY <1>3 DEF FewUnread
<1>4. CASE events' = Append(events, vrsn) /\ Len(events) < MaxBehind
  <2>1. Len(events') = n + 1
    BY <1>1, <1>2, <1>4, AppendProperties
  <2> QED BY <1>1, <1>2, <1>4, <2>1 DEF FewUnread
<1>5. CASE events # <<>> /\ events' = Tail(events)
  <2>1. Len(events') = n - 1
    BY <1>1, <1>2, <1>5, HeadTailProperties
  <2> QED BY <1>1, <1>2, <2>1 DEF FewUnread
<1> QED BY <1>3, <1>4, <1>5, EventsStep

LEMMA ToldStep ==
  ASSUME MaxBehind <= F_VERSION_M, STypeOK, Conversation, timeouts \in Nat,
         PutBefore, FileKnown, LagsExact, FewUnread, Told, [SNext]_svvars
  PROVE  Told'
<1> SUFFICES ASSUME timeouts' = 0, NEW f \in remote', f < fname' \/ Done'
             PROVE  \E j \in 1..Len(events') : bell'[events'[j]] = f
  BY DEF Told
<1>1. timeouts = 0 /\ pc # "die"
  BY TimeoutStep DEF LagsExact
<1>2. PICK n \in Nat : n = Len(events)
  BY LenProperties DEF STypeOK
<1>3. /\ vrsn \in Version /\ F_VERSION_M \in Nat \ {0} /\ MaxBehind \in Nat
      /\ events \in Seq(Version) /\ \A j \in 1..n : events[j] \in Version
      /\ remote \subseteq Nat /\ fname \in Nat
  BY <1>2, SenderAssumption, ElementOfSeq DEF STypeOK, Version, Files
<1>4. ASSUME f \in remote, f < fname \/ Done
      PROVE  \E j \in 1..n : bell[events[j]] = f
  BY <1>1, <1>2, <1>4 DEF Told
<1>5. CASE sftp_does /\ cmds[1].op = "bell"
  <2>1. /\ cmds # <<>> /\ UnderWay(cmds[1]) /\ lntfy = fname
    BY <1>5, ChildFacts DEF PutBefore
  <2>2. /\ bell' = [bell EXCEPT ![vrsn] = fname] /\ remote' = remote
        /\ events' = Append(events, vrsn) /\ n < F_VERSION_M
    BY <1>2, <1>3, <1>5, <2>1, EventsStep, ChildFacts
    DEF kwatcher_reads, sftp_does
  <2>3. /\ Len(events') = n + 1 /\ events'[n + 1] = vrsn
        /\ \A j \in 1..n : events'[j] = events[j]
    BY <1>2, <1>3, <2>2, AppendProperties
  <2>4. \A v \in Version : bell'[v] = IF v = vrsn THEN fname ELSE bell[v]
    BY <2>2 DEF STypeOK, Version
  <2>5. CASE f = fname
    BY <1>3, <2>3, <2>4, <2>5
  <2>6. CASE f # fname
    <3>1. f < fname /\ f \in remote
      BY <1>3, <2>2, <2>6 DEF FileKnown
    <3>2. PICK j \in 1..n : bell[events[j]] = f
      BY <1>4, <3>1
    <3>3. ~Doomed /\ Uncounted = 0
      <4>1. replies = 0
        BY <1>5, ChildFacts
      <4> QED BY <1>5, <4>1 DEF Doomed, Uncounted, Rung, sftp_does, Conversation
    <3>4. LagOf(vrsn, events[j]) = IF n - j + 1 - 0 = F_VERSION_M THEN 0
                                   ELSE n - j + 1 - 0
      BY <1>1, <1>2, <3>3 DEF LagsExact
    <3>5. LagOf(vrsn, events[j]) # 0
      BY <1>3, <2>2, <3>4
    <3>6. events[j] # vrsn
      BY <1>3, <3>5, LagFacts
    <3>7. j \in 1..(n + 1) /\ bell'[events'[j]] = f
      BY <1>3, <2>3, <2>4, <3>2, <3>6
    <3> QED BY <2>3, <3>7
  <2> QED BY <2>5, <2>6
<1>6. CASE kwatcher_reads
  <2>1. /\ events # <<>> /\ events' = Tail(events) /\ bell' = bell
        /\ Head(events) = events[1] /\ fname' = fname
    BY <1>3, <1>6 DEF kwatcher_reads, pvars
  <2>2. /\ n >= 1 /\ Len(events') = n - 1
        /\ \A j \in 1..(n - 1) : events'[j] = events[j + 1]
    BY <1>2, <1>3, <2>1, HeadTailProperties, EmptySeq
  <2>3. f \in remote /\ f # bell[events[1]]
    BY <1>6, <2>1 DEF kwatcher_reads
  <2>4. f < fname \/ Done
    BY <1>1, <1>6, <2>1, DoneStep
  <2>5. PICK j \in 1..n : bell[events[j]] = f
    BY <1>4, <2>3, <2>4
  <2>6. j - 1 \in 1..(n - 1) /\ events'[j - 1] = events[j]
    BY <2>2, <2>3, <2>5
  <2> QED BY <2>1, <2>2, <2>5, <2>6
<1>7. CASE ~kwatcher_reads /\ ~(sftp_does /\ cmds[1].op = "bell")
  <2>1. events' = events /\ bell' = bell
    BY <1>7, EventsStep
  <2>2. CASE remote' = remote
    <3>1. f < fname \/ Done
      <4>1. CASE fname' = fname
        BY <1>1, <1>7, <4>1, DoneStep
      <4>2. CASE fname' = fname + 1
        BY <1>1, <4>2, DoneStep
      <4> QED BY <4>1, <4>2, FreshStep
    <3> QED BY <1>2, <1>4, <2>1, <2>2, <3>1
  <2>3. CASE remote' = remote \cup {fname} /\ FreshFile /\ fname' = fname
    <3>1. ~Done
      BY <1>1, <2>3
      DEF Done, Rung, FreshFile, Conversation, UnderWay, PutFile, PutBell,
          Closing
    <3>2. ~Done'
      BY <1>1, <1>7, <3>1, DoneStep
    <3>3. f < fname /\ f \in remote
      BY <1>3, <2>3, <3>2
    <3> QED BY <1>2, <1>4, <2>1, <3>3
  <2> QED BY <1>7, <2>2, <2>3, RemoteStep
<1> QED BY <1>5, <1>6, <1>7

\* Why each file is told of.
ToldInv ==
  /\ STypeOK /\ Conversation /\ timeouts \in Nat
  /\ PutBefore /\ FileKnown /\ LagsExact /\ FewUnread /\ Told

LEMMA ToldInit == SInit => ToldInv
<1> SUFFICES ASSUME SInit PROVE ToldInv
  OBVIOUS
<1>1. Len(events) = 0
  BY EmptySeq DEF SInit
<1>2. STypeOK /\ Conversation /\ timeouts \in Nat /\ FewUnread
  BY <1>1, SenderTypeInit, SenderAssumption DEF SInit, FewUnread
<1>3. PutBefore /\ FileKnown
  BY OrderInit DEF OrderInv
<1>4. LagsExact /\ Told
  BY <1>1 DEF SInit, LagsExact, Told
<1> QED BY <1>2, <1>3, <1>4 DEF ToldInv

LEMMA ToldInvStep ==
  MaxBehind <= F_VERSION_M /\ ToldInv /\ [SNext]_svvars => ToldInv'
<1> SUFFICES ASSUME MaxBehind <= F_VERSION_M, ToldInv, [SNext]_svvars
             PROVE  ToldInv'
  OBVIOUS
<1> USE DEF ToldInv
<1>1. STypeOK' /\ Conversation' /\ PutBefore' /\ FileKnown'
  BY SenderTypeStep, PutBeforeStep, FileKnownStep
<1>2. (timeouts \in Nat)' /\ FewUnread'
  BY TimeoutStep, FewUnreadStep
<1>3. LagsExact'
  BY LagsExactStep
<1>4. Told'
  BY ToldStep
<1> QED BY <1>1, <1>2, <1>3, <1>4

\* As long as kwatcher is never more than F_VERSION_M notifications behind and
\* no answer is late, it still has to read of every file that sftp_put is done
\* with and that it has not taken over: no notification file is used again too
\* early.
THEOREM EachTold == MaxBehind <= F_VERSION_M => (SSpec => []EachIsTold)
<1> SUFFICES ASSUME MaxBehind <= F_VERSION_M PROVE SSpec => []EachIsTold
  OBVIOUS
<1>1. ToldInv /\ [SNext]_svvars => ToldInv'
  BY ToldInvStep
<1>2. ToldInv => EachIsTold
  BY DEF ToldInv, Told, EachIsTold, Done
<1> QED BY <1>1, <1>2, ToldInit, PTL DEF SSpec
=============================================================================
