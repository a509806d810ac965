--------------------------- MODULE LWatcherProofs ---------------------------
(***************************************************************************)
(* Proofs about the daemon: the two threads and the applications, for any  *)
(* number of applications, every size of the ring, every set of dates and  *)
(* types.  What holds of the ring alone comes from HistoryProofs.          *)
(***************************************************************************)
EXTENDS LWatcher, HistoryProofs, FiniteSetTheorems

-----------------------------------------------------------------------------
(* The parts of the inductive invariant.                                   *)

\* The thread is working on a command of its application.
Working == tpc \in {"histget", "wait1", "check", "histwait", "wait2", "copy",
                    "open", "send", "openentry"}

\* Where each application is in its call, and where the thread is in serving
\* it: only the one it serves has a file open.
Connections ==
  /\ \A c \in Clients :
       /\ cl[c].cmd = "GET" => cl[c].arg \in Counts
       /\ cl[c].cmd = "OPEN" => cl[c].arg \in OpenTypes
       /\ cl[c].st \in {"idle", "connected"} => cl[c].cmd = "none"
       /\ cl[c].st \in {"opened", "reset"} \/ cl[c].cmd = "READ" =>
            c = sock /\ tpc = "getcmd"
       /\ cl[c].cmd = "CLOSE" => c = sock /\ tpc \in {"getcmd", "remove"}
  /\ Working => cl[sock].st = "asked" /\ cl[sock].cmd \in {"GET", "OPEN"}
  /\ tpc \in {"check", "copy", "open", "send"} => cl[sock].cmd = "GET"
  /\ tpc = "openentry" => cl[sock].cmd = "OPEN"
  /\ tpc = "getcmd" => cl[sock].st \in {"connected", "asked", "opened", "reset"}
  /\ tpc = "open" => i < nsize

\* The accept queue: each application once, and not the one being served,
\* unless it has its answer already.
Queued ==
  /\ \A k \in 1..Len(backlog) :
       /\ cl[backlog[k]].st \in {"connected", "asked"}
       /\ cl[backlog[k]].cmd \in {"none", "GET", "OPEN"}
       /\ backlog[k] = sock => tpc = "remove"
  /\ \A j, k \in 1..Len(backlog) : j # k => backlog[j] # backlog[k]

\* The entry the thread works on is pending until it removes it.
Held == Using => numhist > 0

\* The thread sleeps in histget only while nothing is pending.
Asleep == tpc = "wait1" => numhist = 0

\* The slot hp falls behind the pending entries by one for each that is given
\* up, and keeps its date until KEEP_FILE_COUNT have been.
Follows ==
  Using /\ overrun <= KEEP_FILE_COUNT =>
    /\ hp = Back(numhist - 1 + overrun)
    /\ tpc \in {"getcmd", "remove"} => served = date[hp]

\* The pending entries, and the one in use, are newer than any taken.
PendingNewer ==
  /\ done <= date[prodhistp]
  /\ \A k \in 0..(numhist - 1) : done < date[Back(k)]
  /\ Using => done < date[hp]

\* What the thread has found and copied so far.
Copied ==
  /\ \A n \in Counts : n <= nsize
  /\ tpc = "check" => \A t \in Types : t < i => fname[hp][t] # NULL
  /\ tpc \in {"copy", "open", "send"} =>
       \A t \in Types : t < nsize => fname[hp][t] # NULL
  /\ tpc \in {"copy", "open"} => \A t \in Types : t < i => retval[t] = date[hp]
  /\ tpc = "send" => \A t \in Types : t < nsize => retval[t] = date[hp]

-----------------------------------------------------------------------------
(* Types and connections.                                                  *)

LEMMA SyncTypes ==
  /\ sync_nsize \in Nat /\ sync_nsize >= 1 /\ Types = 0..(sync_nsize - 1)
  /\ Counts \subseteq 1..sync_nsize /\ OpenTypes \subseteq Types
<1>1. PICK n \in 1..FNAME_MAX : Types = 0..(n - 1)
  BY HistoryAssumption
<1>2. n \in Nat /\ 0 <= n - 1 /\ n - 1 \in Int /\ n >= 1
  BY DEF FNAME_MAX
<1>3. Cardinality(Types) = (n - 1) - 0 + 1
  BY <1>1, <1>2, FS_Interval
<1>4. sync_nsize = n
  BY <1>2, <1>3 DEF sync_nsize
<1> QED BY <1>1, <1>2, <1>4, LWatcherAssumption

\* What an application is doing.
CallStates ==
  [st : {"idle", "connected", "asked", "opened", "answered", "reset"},
   cmd : {"none", "GET", "OPEN", "READ", "CLOSE"},
   arg : 0..sync_nsize]

LEMMA CallStateFacts ==
  /\ Idle \in CallStates
  /\ \A x \in CallStates,
        s \in {"idle", "connected", "asked", "opened", "answered", "reset"} :
       /\ [x EXCEPT !.st = s] \in CallStates
       /\ [x EXCEPT !.st = s].st = s /\ [x EXCEPT !.st = s].cmd = x.cmd
       /\ [x EXCEPT !.st = s].arg = x.arg
  BY SyncTypes DEF CallStates, Idle

\* The applications' part of the state, apart from the queue.
CallsType == cl \in [Clients -> CallStates] /\ alive \in [Clients -> BOOLEAN]

LEMMA CallUpdate ==
  ASSUME CallsType, NEW c \in Clients,
         NEW s \in {"idle", "connected", "asked", "opened", "answered", "reset"},
         cl' = [cl EXCEPT ![c].st = s]
  PROVE  /\ cl' \in [Clients -> CallStates]
         /\ cl'[c].st = s /\ cl'[c].cmd = cl[c].cmd /\ cl'[c].arg = cl[c].arg
         /\ \A b \in Clients : b # c => cl'[b] = cl[b]
<1>1. PICK x \in CallStates : x = cl[c]
  BY DEF CallsType
<1>2. cl' = [cl EXCEPT ![c] = [x EXCEPT !.st = s]]
  BY <1>1
<1>3. [x EXCEPT !.st = s] \in CallStates
  BY CallStateFacts
<1>4. cl' \in [Clients -> CallStates] /\ cl'[c] = [x EXCEPT !.st = s]
      /\ \A b \in Clients : b # c => cl'[b] = cl[b]
  BY <1>2, <1>3 DEF CallsType
<1> QED BY <1>1, <1>4, CallStateFacts

LEMMA CallAsk ==
  ASSUME CallsType, NEW c \in Clients, NEW cmd, NEW arg, Ask(c, cmd, arg),
         cmd \in {"GET", "OPEN", "READ", "CLOSE"}, arg \in 0..sync_nsize
  PROVE  /\ cl' \in [Clients -> CallStates]
         /\ cl'[c].st = "asked" /\ cl'[c].cmd = cmd /\ cl'[c].arg = arg
         /\ \A b \in Clients : b # c => cl'[b] = cl[b]
<1> DEFINE x == [st |-> "asked", cmd |-> cmd, arg |-> arg]
<1>1. x \in CallStates
  BY DEF CallStates
<1>2. cl' = [cl EXCEPT ![c] = x]
  BY DEF Ask
<1>3. cl' \in [Clients -> CallStates] /\ cl'[c] = x
      /\ \A b \in Clients : b # c => cl'[b] = cl[b]
  BY <1>1, <1>2 DEF CallsType
<1> QED BY <1>3

LEMMA CallEnded ==
  ASSUME CallsType, sock \in Clients, Ended
  PROVE  /\ cl' \in [Clients -> CallStates] /\ alive' \in [Clients -> BOOLEAN]
         /\ cl'[sock].st = "idle" /\ cl'[sock].cmd = "none"
         /\ \A b \in Clients : b # sock => cl'[b] = cl[b]
<1>1. cl' = [cl EXCEPT ![sock] = Idle] /\ alive' = [alive EXCEPT ![sock] = TRUE]
  BY DEF Ended
<1>2. cl' \in [Clients -> CallStates] /\ cl'[sock] = Idle
      /\ \A b \in Clients : b # sock => cl'[b] = cl[b]
  BY <1>1, CallStateFacts DEF CallsType
<1>3. alive' \in [Clients -> BOOLEAN]
  BY <1>1 DEF CallsType
<1> QED BY <1>2, <1>3 DEF Idle

LEMMA CallReturn ==
  ASSUME CallsType, NEW c \in Clients, cl' = [cl EXCEPT ![c] = Idle]
  PROVE  /\ cl' \in [Clients -> CallStates]
         /\ cl'[c].st = "idle" /\ cl'[c].cmd = "none"
         /\ \A b \in Clients : b # c => cl'[b] = cl[b]
<1>1. cl' \in [Clients -> CallStates] /\ cl'[c] = Idle
      /\ \A b \in Clients : b # c => cl'[b] = cl[b]
  BY CallStateFacts DEF CallsType
<1> QED BY <1>1 DEF Idle

\* The step of an application, for its part of the state.
LEMMA ClientStep ==
  ASSUME CallsType, NEW c \in Clients, client(c)
  PROVE  /\ CallsType' /\ UNCHANGED <<hvars, tvars, overrun, reply>>
         /\ \A b \in Clients : b # c => cl'[b] = cl[b]
         /\ \/ /\ cl[c].st = "idle" /\ cl'[c].st = "connected"
               /\ cl'[c].cmd = cl[c].cmd /\ backlog' = Append(backlog, c)
            \/ /\ cl[c].st = "connected" /\ cl'[c].st = "asked"
               /\ \/ cl'[c].cmd = "GET" /\ cl'[c].arg \in Counts
                  \/ cl'[c].cmd = "OPEN" /\ cl'[c].arg \in OpenTypes
               /\ backlog' = backlog
            \/ /\ cl[c].st = "opened" /\ cl'[c].st = "asked"
               /\ cl'[c].cmd \in {"READ", "CLOSE"} /\ backlog' = backlog
            \/ /\ cl[c].st = "answered" /\ cl'[c].st = "idle"
               /\ cl'[c].cmd = "none" /\ backlog' = backlog
            \/ cl' = cl /\ backlog' = backlog
<1> USE DEF CallsType
<1>0. /\ UNCHANGED <<hvars, tvars, overrun>>
      /\ Counts \subseteq 0..sync_nsize /\ OpenTypes \subseteq 0..sync_nsize
      /\ 0 \in 0..sync_nsize
  BY SyncTypes DEF client
<1>1. CASE Connect(c)
  <2>1. cl' = [cl EXCEPT ![c].st = "connected"] /\ UNCHANGED <<alive, reply>>
        /\ cl[c].st = "idle" /\ backlog' = Append(backlog, c)
    BY <1>1 DEF Connect
  <2> QED BY <1>0, <2>1, CallUpdate
<1>2. CASE AskGet(c)
  <2>1. PICK n \in Counts : Ask(c, "GET", n)
    BY <1>2 DEF AskGet
  <2>2. UNCHANGED <<alive, reply, backlog>> /\ cl[c].st = "connected"
    BY <1>2 DEF AskGet
  <2> QED BY <1>0, <2>1, <2>2, CallAsk
<1>3. CASE AskOpen(c)
  <2>1. PICK t \in OpenTypes : Ask(c, "OPEN", t)
    BY <1>3 DEF AskOpen
  <2>2. UNCHANGED <<alive, reply, backlog>> /\ cl[c].st = "connected"
    BY <1>3 DEF AskOpen
  <2> QED BY <1>0, <2>1, <2>2, CallAsk
<1>4. CASE AskRead(c)
  <2>1. UNCHANGED <<alive, reply, backlog>> /\ cl[c].st = "opened"
        /\ Ask(c, "READ", 0)
    BY <1>4 DEF AskRead
  <2> QED BY <1>0, <2>1, CallAsk
<1>5. CASE AskClose(c)
  <2>1. UNCHANGED <<alive, reply, backlog>> /\ cl[c].st = "opened"
        /\ Ask(c, "CLOSE", 0)
    BY <1>5 DEF AskClose
  <2> QED BY <1>0, <2>1, CallAsk
<1>6. CASE Return(c)
  <2>1. UNCHANGED <<alive, reply, backlog>> /\ cl[c].st = "answered"
        /\ cl' = [cl EXCEPT ![c] = Idle]
    BY <1>6 DEF Return
  <2> QED BY <1>0, <2>1, CallReturn
<1>7. CASE Die(c)
  <2>1. UNCHANGED <<cl, reply, backlog>> /\ alive' = [alive EXCEPT ![c] = FALSE]
    BY <1>7 DEF Die
  <2> QED BY <1>0, <2>1
<1> QED BY <1>1, <1>2, <1>3, <1>4, <1>5, <1>6, <1>7 DEF client

\* A step of the watcher thread is one of the ring and may wake the other.
LEMMA WatcherStep ==
  ASSUME NEW d \in Dates, NEW t \in Types,
         watcher(d, t) \/ watcher_forced(d, t) \/ watcher_notfound(d, t)
  PROVE  /\ Timely(d) /\ histput(d, t)
         /\ UNCHANGED <<sock, hp, i, nsize, retval, tfd, served, done, cvars>>
         /\ tpc' = tpc \/ (tpc \in {"wait1", "wait2"} /\ tpc' = "histget")
         /\ tpc' = "wait1" => numhist' = numhist
         /\ Using' <=> Using
         /\ \/ /\ PutSame(d, t) \/ PutNew(d, t) \/ PutLate(d, t)
                                                \/ PutNotFound(d, t)
               /\ overrun' = overrun
            \/ PutForced(d, t) /\ ~Using /\ overrun' = overrun
            \/ /\ PutForced(d, t) /\ Using /\ overrun < MaxOverrun
               /\ overrun' = overrun + 1
<1> SUFFICES /\ Timely(d) /\ histput(d, t)
             /\ UNCHANGED <<sock, hp, i, nsize, retval, tfd, served, done, cvars>>
             /\ tpc' = tpc \/ (tpc \in {"wait1", "wait2"} /\ tpc' = "histget")
             /\ tpc' = "wait1" => numhist' = numhist
             /\ \/ /\ PutSame(d, t) \/ PutNew(d, t) \/ PutLate(d, t)
                                                    \/ PutNotFound(d, t)
                   /\ overrun' = overrun
                \/ PutForced(d, t) /\ ~Using /\ overrun' = overrun
                \/ /\ PutForced(d, t) /\ Using /\ overrun < MaxOverrun
                   /\ overrun' = overrun + 1
  BY DEF Using, cvars
<1>1. CASE watcher(d, t)
  BY <1>1 DEF watcher, histput, Signal, cvars
<1>2. CASE watcher_forced(d, t)
  BY <1>2 DEF watcher_forced, histput, Signal, cvars
<1>3. CASE watcher_notfound(d, t)
  BY <1>3 DEF watcher_notfound, histput, tvars, PutNotFound
<1> QED BY <1>1, <1>2, <1>3

\* The types of the thread's own variables.
ThreadType ==
  /\ tpc \in {"accept", "getcmd", "histget", "wait1", "check", "histwait",
              "wait2", "copy", "open", "send", "openentry", "remove"}
  /\ sock \in Clients \cup {NoClient}
  /\ tpc = "accept" => sock = NoClient
  /\ tpc # "accept" => sock \in Clients
  /\ hp \in Slots /\ i \in 0..sync_nsize /\ nsize \in 1..sync_nsize
  /\ retval \in [Types -> Dates \cup {JUNK}]
  /\ tfd \in (Dates \X Types) \cup {<<>>}
  /\ served \in Dates \cup {0} /\ done \in Dates \cup {0}
  /\ overrun \in 0..MaxOverrun

RepliesType ==
  /\ backlog \in Seq(Clients) /\ deaths \in 0..MaxDeaths
  /\ reply \in [Clients -> [date : Dates \cup {0},
                           part : [Types -> Dates \cup {JUNK}]]]

LEMMA LWTypes == LWTypeOK <=> ThreadType /\ CallsType /\ RepliesType
  BY LWatcherAssumption
  DEF LWTypeOK, ThreadType, CallsType, RepliesType, CallStates

LEMMA NoFiles == [t \in Types |-> JUNK] \in [Types -> Dates \cup {JUNK}]
  OBVIOUS

\* Accepting a connection, and the commands.
LEMMA TypeCommand ==
  ASSUME HistTypeOK, ThreadType, CallsType, RepliesType, Connections,
         accept \/ getcmd_entry \/ getcmd_read \/ getcmd_close \/ getcmd_exit
  PROVE  ThreadType' /\ CallsType' /\ RepliesType'
<1> USE DEF ThreadType, RepliesType, cvars, hvars
<1>1. CASE accept
  <2>1. /\ Head(backlog) \in Clients /\ Tail(backlog) \in Seq(Clients)
        /\ sock' = Head(backlog) /\ backlog' = Tail(backlog) /\ tpc' = "getcmd"
        /\ tfd' = <<>> /\ retval' = [t \in Types |-> JUNK]
        /\ UNCHANGED <<hvars, hp, i, nsize, served, done, overrun,
                       cl, alive, reply, deaths>>
    BY <1>1, HeadTailProperties DEF accept
  <2> QED BY <2>1, NoFiles DEF CallsType
<1>2. CASE getcmd_entry \/ getcmd_close
  BY <1>2 DEF getcmd_entry, getcmd_close, CallsType
<1>3. CASE getcmd_read
  <2>1. /\ UNCHANGED <<hvars, tvars, overrun, backlog, alive, reply, deaths>>
        /\ tpc = "getcmd"
        /\ cl' = [cl EXCEPT ![sock].st =
                    IF alive[sock] THEN "opened" ELSE "reset"]
    BY <1>3 DEF getcmd_read
  <2>2. cl' \in [Clients -> CallStates]
    <3>1. CASE alive[sock]
      BY <2>1, <3>1, CallUpdate
    <3>2. CASE ~alive[sock]
      BY <2>1, <3>2, CallUpdate
    <3> QED BY <3>1, <3>2
  <2> QED BY <2>1, <2>2 DEF tvars, CallsType
<1>4. CASE getcmd_exit
  <2>1. /\ tpc = "getcmd" /\ tpc' = "accept" /\ sock' = NoClient /\ Ended
        /\ UNCHANGED <<hvars, hp, i, nsize, retval, tfd, served, done, overrun,
                       backlog, reply, deaths>>
    BY <1>4 DEF getcmd_exit
  <2>2. CallsType'
    BY <2>1, CallEnded DEF CallsType
  <2> QED BY <2>1, <2>2
<1> QED BY <1>1, <1>2, <1>3, <1>4

\* Looking for an entry, checking it and copying its files.
LEMMA TypeCopy ==
  ASSUME HistTypeOK, ThreadType, CallsType, RepliesType, Connections,
         \/ histget \/ check_one \/ check_done \/ histwait \/ copy_test
         \/ copy_open
  PROVE  ThreadType' /\ CallsType' /\ RepliesType'
<1> USE SyncTypes DEF ThreadType, RepliesType, cvars, hvars, CallsType
<1>1. CASE histget
  <2>1. /\ hp' \in Slots /\ i' \in 0..sync_nsize /\ overrun' \in 0..MaxOverrun
        /\ tpc' \in {"check", "openentry", "wait1"}
    BY <1>1, LWatcherAssumption DEF histget, HistTypeOK
  <2> QED BY <1>1, <2>1 DEF histget
<1>2. CASE check_one
  BY <1>2 DEF check_one
<1>3. CASE check_done
  <2>1. PICK n \in Counts : n = cl[sock].arg
    BY <1>3 DEF check_done, Connections
  <2>2. nsize' \in 1..sync_nsize
    BY <1>3, <2>1 DEF check_done
  <2> QED BY <1>3, <2>2 DEF check_done
<1>4. CASE histwait \/ copy_test
  BY <1>4 DEF histwait, copy_test
<1>5. CASE copy_open
  <2>1. i' \in 0..sync_nsize
    BY <1>5 DEF copy_open, Connections
  <2>2. retval' \in [Types -> Dates \cup {JUNK}]
    <3>1. <<fname[hp][i], i>> \in disk => fname[hp][i] \in Dates /\ i \in Types
      BY DEF HistTypeOK
    <3> QED BY <1>5, <3>1 DEF copy_open
  <2> QED BY <1>5, <2>1, <2>2 DEF copy_open
<1> QED BY <1>1, <1>2, <1>3, <1>4, <1>5

\* Answering and removing the entry.
LEMMA TypeAnswer ==
  ASSUME HistTypeOK, ThreadType, CallsType, RepliesType, Connections,
         send_ok \/ send_failed \/ open_entry \/ remove
  PROVE  ThreadType' /\ CallsType' /\ RepliesType'
<1> USE DEF ThreadType, RepliesType, cvars, hvars
<1>0. date[hp] \in Dates \cup {0}
  BY DEF HistTypeOK
<1>1. CASE send_ok
  <2>1. /\ tpc = "send" /\ served' = date[hp] /\ tpc' = "remove"
        /\ UNCHANGED <<hvars, sock, hp, i, nsize, retval, tfd, done, overrun,
                       backlog, deaths>>
    BY <1>1 DEF send_ok
  <2>2. ThreadType'
    BY <1>0, <2>1
  <2>3. CASE alive[sock]
    <3>1. /\ reply' = [reply EXCEPT ![sock] =
                         [date |-> date[hp], part |-> retval]]
          /\ cl' = [cl EXCEPT ![sock].st = "answered"] /\ alive' = alive
      BY <1>1, <2>3 DEF send_ok
    <3>2. CallsType'
      BY <2>1, <3>1, CallUpdate DEF CallsType
    <3>3. RepliesType'
      BY <1>0, <2>1, <3>1
    <3> QED BY <2>2, <3>2, <3>3
  <2>4. CASE ~alive[sock]
    <3>1. Ended /\ reply' = reply
      BY <1>1, <2>4 DEF send_ok
    <3>2. CallsType'
      BY <2>1, <3>1, CallEnded DEF CallsType
    <3> QED BY <2>1, <2>2, <3>1, <3>2
  <2> QED BY <2>3, <2>4
<1>2. CASE send_failed
  <2>1. /\ tpc = "send" /\ served' = date[hp] /\ tpc' = "accept"
        /\ sock' = NoClient /\ Ended
        /\ UNCHANGED <<hvars, hp, i, nsize, retval, tfd, done, overrun,
                       backlog, reply, deaths>>
    BY <1>2 DEF send_failed
  <2>2. CallsType'
    BY <2>1, CallEnded DEF CallsType
  <2> QED BY <1>0, <2>1, <2>2
<1>3. CASE open_entry
  <2>0. /\ tpc = "openentry"
        /\ UNCHANGED <<hvars, sock, hp, i, nsize, retval, done, overrun,
                       backlog, alive, reply, deaths>>
    BY <1>3 DEF open_entry
  <2>1. CASE fname[hp][cl[sock].arg] = NULL
    BY <1>3, <2>0, <2>1 DEF open_entry, CallsType
  <2>2. CASE fname[hp][cl[sock].arg] # NULL
    <3>1. /\ served' = date[hp] /\ tpc' = "getcmd"
          /\ tfd' = IF <<fname[hp][cl[sock].arg], cl[sock].arg>> \in disk
                    THEN <<fname[hp][cl[sock].arg], cl[sock].arg>> ELSE <<>>
          /\ cl' = [cl EXCEPT ![sock].st =
                      IF alive[sock] THEN "opened" ELSE "reset"]
      BY <1>3, <2>2 DEF open_entry
    <3>2. tfd' \in (Dates \X Types) \cup {<<>>}
      BY <3>1 DEF HistTypeOK
    <3>3. cl' \in [Clients -> CallStates]
      <4>1. CASE alive[sock]
        BY <2>0, <3>1, <4>1, CallUpdate
      <4>2. CASE ~alive[sock]
        BY <2>0, <3>1, <4>2, CallUpdate
      <4> QED BY <4>1, <4>2
    <3> QED BY <1>0, <2>0, <3>1, <3>2, <3>3 DEF CallsType
  <2> QED BY <2>1, <2>2
<1>4. CASE remove
  <2>1. /\ tpc = "remove" /\ done' = served /\ overrun' = 0 /\ tpc' = "accept"
        /\ sock' = NoClient
        /\ Ended \/ UNCHANGED <<cl, alive>>
        /\ UNCHANGED <<hp, i, nsize, retval, tfd, served, backlog, reply,
                       deaths>>
    BY <1>4 DEF remove
  <2>2. CallsType'
    BY <2>1, CallEnded DEF CallsType
  <2>3. 0 \in 0..MaxOverrun
    BY LWatcherAssumption
  <2> QED BY <2>1, <2>2, <2>3
<1> QED BY <1>1, <1>2, <1>3, <1>4

\* The queue of connections keeps its order; a new one goes to its end.
LEMMA QueueFacts ==
  ASSUME backlog \in Seq(Clients)
  PROVE  /\ Len(backlog) \in Nat
         /\ \A k \in 1..Len(backlog) : backlog[k] \in Clients
         /\ \A c \in Clients :
              /\ Append(backlog, c) \in Seq(Clients)
              /\ Len(Append(backlog, c)) = Len(backlog) + 1
              /\ \A k \in 1..Len(backlog) : Append(backlog, c)[k] = backlog[k]
              /\ Append(backlog, c)[Len(backlog) + 1] = c
         /\ backlog # <<>> =>
              /\ Len(backlog) >= 1 /\ Head(backlog) = backlog[1]
              /\ Tail(backlog) \in Seq(Clients)
              /\ Len(Tail(backlog)) = Len(backlog) - 1
              /\ \A k \in 1..Len(Tail(backlog)) :
                   Tail(backlog)[k] = backlog[k + 1]
<1>1. Len(backlog) \in Nat /\ (backlog # <<>> => Len(backlog) # 0)
  BY LenProperties, EmptySeq
<1>2. \A k \in 1..Len(backlog) : backlog[k] \in Clients
  BY ElementOfSeq
<1>3. backlog # <<>> => Head(backlog) = backlog[1]
  OBVIOUS
<1> QED BY <1>1, <1>2, <1>3, AppendProperties, HeadTailProperties

LEMMA ClientConnections ==
  ASSUME ThreadType, CallsType, RepliesType, Connections, Queued,
         NEW c \in Clients, client(c)
  PROVE  Connections' /\ Queued' /\ RepliesType'
<1> USE DEF tvars, ThreadType, CallsType
<1>1. /\ CallsType' /\ UNCHANGED <<hvars, tvars, overrun, reply>>
      /\ \A b \in Clients : b # c => cl'[b] = cl[b]
  BY ClientStep
<1>2. backlog \in Seq(Clients) /\ sock \in Clients \cup {NoClient}
      /\ NoClient \notin Clients
      /\ (sock \in Clients <=> tpc # "accept")
  BY LWatcherAssumption DEF RepliesType
<1>3. deaths' \in 0..MaxDeaths
  BY LWatcherAssumption
  DEF client, Connect, AskGet, AskOpen, AskRead, AskClose, Return, Die,
      RepliesType
<1>4. CASE /\ cl[c].st = "idle" /\ cl'[c].st = "connected"
           /\ cl'[c].cmd = cl[c].cmd /\ backlog' = Append(backlog, c)
  <2>1. cl[c].cmd = "none" /\ (c = sock => tpc = "remove")
    BY <1>2, <1>4 DEF Connections, Working
  <2>2. Connections'
    BY <1>1, <1>2, <1>4, <2>1 DEF Connections, Working
  <2>3. Queued'
    <3>1. PICK n \in Nat : n = Len(backlog)
      BY <1>2, QueueFacts
    <3>2. ASSUME NEW k \in 1..n
          PROVE  /\ backlog[k] \in Clients /\ backlog'[k] = backlog[k]
                 /\ backlog[k] # c
      <4>1. backlog[k] \in Clients /\ backlog'[k] = backlog[k]
        BY <1>2, <1>4, <3>1, QueueFacts
      <4>2. cl[backlog[k]].st \in {"connected", "asked"}
        BY <3>1 DEF Queued
      <4>3. backlog[k] # c
        BY <1>4, <4>2
      <4> QED BY <4>1, <4>3
    <3>3. Len(backlog') = n + 1 /\ backlog'[n + 1] = c
      BY <1>2, <1>4, <3>1, QueueFacts
    <3>4. \A k \in 1..(n + 1) : k \in 1..n \/ k = n + 1
      BY <3>1
    <3>5. ASSUME NEW k \in 1..(n + 1)
          PROVE  /\ cl'[backlog'[k]].st \in {"connected", "asked"}
                 /\ cl'[backlog'[k]].cmd \in {"none", "GET", "OPEN"}
                 /\ backlog'[k] = sock => tpc = "remove"
      BY <1>1, <1>4, <2>1, <3>1, <3>2, <3>3, <3>4 DEF Queued
    <3>6. \A j, k \in 1..(n + 1) : j # k => backlog'[j] # backlog'[k]
      BY <3>1, <3>2, <3>3, <3>4 DEF Queued
    <3> QED BY <1>1, <3>3, <3>5, <3>6 DEF Queued
  <2>4. RepliesType'
    BY <1>1, <1>2, <1>3, <1>4, QueueFacts DEF RepliesType
  <2> QED BY <2>2, <2>3, <2>4
<1>5. CASE /\ cl[c].st = "connected" /\ cl'[c].st = "asked"
           /\ \/ cl'[c].cmd = "GET" /\ cl'[c].arg \in Counts
              \/ cl'[c].cmd = "OPEN" /\ cl'[c].arg \in OpenTypes
           /\ backlog' = backlog
  <2>1. Connections'
    BY <1>1, <1>2, <1>5 DEF Connections, Working
  <2>2. Queued'
    BY <1>1, <1>2, <1>5, QueueFacts DEF Queued
  <2> QED BY <1>1, <1>3, <1>5, <2>1, <2>2 DEF RepliesType
<1>6. CASE /\ cl[c].st = "opened" /\ cl'[c].st = "asked"
           /\ cl'[c].cmd \in {"READ", "CLOSE"} /\ backlog' = backlog
  <2>1. c = sock /\ tpc = "getcmd"
    BY <1>6 DEF Connections
  <2>2. Connections'
    BY <1>1, <1>2, <1>6, <2>1 DEF Connections, Working
  <2>3. Queued'
    BY <1>1, <1>2, <1>6, QueueFacts DEF Queued
  <2> QED BY <1>1, <1>3, <1>6, <2>2, <2>3 DEF RepliesType
<1>7. CASE /\ cl[c].st = "answered" /\ cl'[c].st = "idle"
           /\ cl'[c].cmd = "none" /\ backlog' = backlog
  <2>1. Connections'
    BY <1>1, <1>2, <1>7 DEF Connections, Working
  <2>2. Queued'
    BY <1>1, <1>2, <1>7, QueueFacts DEF Queued
  <2> QED BY <1>1, <1>3, <1>7, <2>1, <2>2 DEF RepliesType
<1>8. CASE cl' = cl /\ backlog' = backlog
  BY <1>1, <1>3, <1>8 DEF Connections, Queued, Working, RepliesType
<1> QED BY <1>4, <1>5, <1>6, <1>7, <1>8, ClientStep

\* The thread leaves the queue alone once it has accepted a connection.
LEMMA QueueKept ==
  ASSUME Queued, backlog \in Seq(Clients), backlog' = backlog,
         sock' \in {sock, NoClient},
         \A b \in Clients : b # sock => cl'[b] = cl[b],
         \/ tpc # "remove"
         \/ cl' = cl /\ sock' = NoClient
         \/ cl[sock].cmd = "CLOSE" /\ sock' = NoClient
  PROVE  Queued'
<1>1. NoClient \notin Clients
  BY LWatcherAssumption
<1>2. ASSUME NEW k \in 1..Len(backlog)
      PROVE  /\ cl'[backlog[k]].st \in {"connected", "asked"}
             /\ cl'[backlog[k]].cmd \in {"none", "GET", "OPEN"}
             /\ backlog[k] # sock'
  <2>1. /\ cl[backlog[k]].st \in {"connected", "asked"}
        /\ cl[backlog[k]].cmd \in {"none", "GET", "OPEN"}
        /\ backlog[k] = sock => tpc = "remove"
    BY DEF Queued
  <2>2. backlog[k] \in Clients
    BY QueueFacts
  <2>3. cl'[backlog[k]] = cl[backlog[k]]
    BY <2>1, <2>2
  <2> QED BY <1>1, <2>1, <2>2, <2>3
<1>3. \A j, k \in 1..Len(backlog) : j # k => backlog[j] # backlog[k]
  BY DEF Queued
<1> QED BY <1>2, <1>3 DEF Queued

LEMMA ConnectionsCommand ==
  ASSUME ThreadType, CallsType, RepliesType, Connections, Queued,
         accept \/ getcmd_entry \/ getcmd_read \/ getcmd_close \/ getcmd_exit
  PROVE  Connections' /\ Queued'
<1> USE DEF ThreadType, cvars, hvars
<1>0. backlog \in Seq(Clients) /\ NoClient \notin Clients
  BY LWatcherAssumption DEF RepliesType
<1>1. CASE accept
  <2>1. /\ tpc = "accept" /\ backlog # <<>>
        /\ sock' = Head(backlog) /\ backlog' = Tail(backlog) /\ tpc' = "getcmd"
        /\ UNCHANGED <<i, nsize, cl>> /\ sock = NoClient
    BY <1>1 DEF accept
  <2>2. PICK n \in Nat : n = Len(backlog)
    BY <1>0, QueueFacts
  <2>3. /\ n >= 1 /\ sock' = backlog[1] /\ sock' \in Clients
        /\ Len(backlog') = n - 1
        /\ \A k \in 1..(n - 1) : backlog'[k] = backlog[k + 1]
    BY <1>0, <2>1, <2>2, QueueFacts
  <2>4. \A k \in 1..(n - 1) : k + 1 \in 1..n /\ k + 1 # 1
    BY <2>2
  <2>5. \A j, k \in 1..(n - 1) : j # k => j + 1 # k + 1
    BY <2>2
  <2>6. 1 \in 1..n
    BY <2>2, <2>3
  <2>7. cl[sock'].st \in {"connected", "asked"}
    BY <2>2, <2>3, <2>6 DEF Queued
  <2>8. Connections'
    BY <1>0, <2>1, <2>7 DEF Connections, Working
  <2>9. ASSUME NEW k \in 1..(n - 1)
        PROVE  /\ cl[backlog'[k]].st \in {"connected", "asked"}
               /\ cl[backlog'[k]].cmd \in {"none", "GET", "OPEN"}
               /\ backlog'[k] # sock'
    <3>1. backlog'[k] = backlog[k + 1]
      BY <2>3
    <3>2. k + 1 \in 1..Len(backlog) /\ 1 \in 1..Len(backlog) /\ k + 1 # 1
      BY <2>2, <2>4, <2>6
    <3>3. /\ cl[backlog[k + 1]].st \in {"connected", "asked"}
          /\ cl[backlog[k + 1]].cmd \in {"none", "GET", "OPEN"}
          /\ backlog[k + 1] # backlog[1]
      BY <3>2 DEF Queued
    <3> QED BY <2>3, <3>1, <3>3
  <2>10. ASSUME NEW j \in 1..(n - 1), NEW k \in 1..(n - 1), j # k
         PROVE  backlog'[j] # backlog'[k]
    <3>1. /\ j + 1 \in 1..Len(backlog) /\ k + 1 \in 1..Len(backlog)
          /\ j + 1 # k + 1
      BY <2>2, <2>4, <2>5, <2>10
    <3>2. backlog[j + 1] # backlog[k + 1]
      BY <3>1 DEF Queued
    <3> QED BY <2>3, <3>2
  <2>11. Queued'
    BY <2>1, <2>3, <2>9, <2>10 DEF Queued
  <2> QED BY <2>8, <2>11
<1>2. CASE getcmd_entry \/ getcmd_close
  <2>1. /\ tpc = "getcmd" /\ tpc' \in {"histget", "remove"}
        /\ cl[sock].st = "asked"
        /\ tpc' = "histget" => cl[sock].cmd \in {"GET", "OPEN"}
        /\ tpc' = "remove" => cl[sock].cmd = "CLOSE"
        /\ UNCHANGED <<sock, i, nsize, cl, backlog>>
    BY <1>2 DEF getcmd_entry, getcmd_close
  <2>2. Connections'
    <3>1. CASE tpc' = "remove"
      BY <2>1, <3>1 DEF Connections, Working
    <3>2. CASE tpc' = "histget"
      <4>1. cl[sock].st # "opened" /\ cl[sock].cmd \notin {"READ", "CLOSE"}
            /\ cl[sock].st # "reset"
        BY <2>1, <3>2
      <4> QED BY <2>1, <3>2, <4>1 DEF Connections, Working
    <3> QED BY <2>1, <3>1, <3>2
  <2> QED BY <1>0, <2>1, <2>2, QueueKept
<1>3. CASE getcmd_read
  <2>1. /\ UNCHANGED <<sock, tpc, i, nsize, backlog>>
        /\ tpc = "getcmd" /\ cl[sock].cmd = "READ"
        /\ cl' = [cl EXCEPT ![sock].st =
                    IF alive[sock] THEN "opened" ELSE "reset"]
    BY <1>3 DEF getcmd_read, tvars
  <2>2. /\ cl'[sock].st \in {"opened", "reset"} /\ cl'[sock].cmd = "READ"
        /\ \A b \in Clients : b # sock => cl'[b] = cl[b]
    <3>1. CASE alive[sock]
      BY <2>1, <3>1, CallUpdate
    <3>2. CASE ~alive[sock]
      BY <2>1, <3>2, CallUpdate
    <3> QED BY <3>1, <3>2
  <2>3. Connections'
    BY <2>1, <2>2 DEF Connections, Working
  <2> QED BY <1>0, <2>1, <2>2, <2>3, QueueKept
<1>4. CASE getcmd_exit
  <2>1. /\ tpc = "getcmd" /\ tpc' = "accept" /\ sock' = NoClient /\ Ended
        /\ backlog' = backlog
    BY <1>4 DEF getcmd_exit
  <2>2. /\ cl'[sock].st = "idle" /\ cl'[sock].cmd = "none"
        /\ \A b \in Clients : b # sock => cl'[b] = cl[b]
    BY <2>1, CallEnded
  <2>3. Connections'
    BY <2>1, <2>2 DEF Connections, Working
  <2> QED BY <1>0, <2>1, <2>2, <2>3, QueueKept
<1> QED BY <1>1, <1>2, <1>3, <1>4

LEMMA ConnectionsCopy ==
  ASSUME ThreadType, CallsType, RepliesType, Connections, Queued,
         \/ histget \/ check_one \/ check_done \/ histwait \/ copy_test
         \/ copy_open
  PROVE  Connections' /\ Queued'
<1>1. /\ backlog \in Seq(Clients) /\ UNCHANGED <<sock, cl, backlog>>
      /\ Working /\ Working'
  BY DEF histget, check_one, check_done, histwait, copy_test, copy_open, cvars,
         RepliesType, Working
<1>2. /\ cl[sock].st = "asked" /\ cl[sock].cmd \in {"GET", "OPEN"}
      /\ tpc' \in {"check", "copy", "open", "send"} => cl[sock].cmd = "GET"
      /\ tpc' = "openentry" => cl[sock].cmd = "OPEN"
      /\ tpc' = "open" => i' < nsize'
  BY <1>1 DEF histget, check_one, check_done, histwait, copy_test, copy_open,
         Connections
<1>3. Connections'
  BY <1>1, <1>2 DEF Connections, Working
<1>4. tpc # "remove"
  BY <1>1 DEF Working
<1> QED BY <1>1, <1>3, <1>4, QueueKept

LEMMA ConnectionsAnswer ==
  ASSUME ThreadType, CallsType, RepliesType, Connections, Queued,
         send_ok \/ send_failed \/ open_entry \/ remove
  PROVE  Connections' /\ Queued'
<1> USE DEF ThreadType
<1>0. backlog \in Seq(Clients) /\ NoClient \notin Clients
  BY LWatcherAssumption DEF RepliesType
<1>1. CASE send_ok
  <2>1. /\ tpc = "send" /\ tpc' = "remove" /\ UNCHANGED <<sock, backlog>>
        /\ cl[sock].cmd = "GET"
    BY <1>1 DEF send_ok, Connections
  <2>2. /\ cl'[sock].st \in {"answered", "idle"}
        /\ \/ cl'[sock].cmd = "none"
           \/ /\ cl'[sock].st # "idle" /\ cl'[sock].cmd = "GET"
              /\ cl'[sock].arg = cl[sock].arg
        /\ \A b \in Clients : b # sock => cl'[b] = cl[b]
    <3>1. CASE alive[sock]
      BY <1>1, <2>1, <3>1, CallUpdate DEF send_ok
    <3>2. CASE ~alive[sock]
      BY <1>1, <2>1, <3>2, CallEnded DEF send_ok
    <3> QED BY <3>1, <3>2
  <2>3. Connections'
    BY <2>1, <2>2 DEF Connections, Working
  <2> QED BY <1>0, <2>1, <2>2, <2>3, QueueKept
<1>2. CASE send_failed
  <2>1. /\ tpc = "send" /\ tpc' = "accept" /\ sock' = NoClient /\ Ended
        /\ backlog' = backlog
    BY <1>2 DEF send_failed
  <2>2. /\ cl'[sock].st = "idle" /\ cl'[sock].cmd = "none"
        /\ \A b \in Clients : b # sock => cl'[b] = cl[b]
    BY <2>1, CallEnded
  <2>3. Connections'
    BY <2>1, <2>2 DEF Connections, Working
  <2> QED BY <1>0, <2>1, <2>2, <2>3, QueueKept
<1>3. CASE open_entry
  <2>0. tpc = "openentry" /\ UNCHANGED <<sock, backlog, i, nsize>>
        /\ cl[sock].cmd = "OPEN" /\ cl[sock].st = "asked"
    BY <1>3 DEF open_entry, Connections, Working
  <2>1. CASE fname[hp][cl[sock].arg] = NULL
    <3>1. tpc' = "histwait" /\ cl' = cl
      BY <1>3, <2>1 DEF open_entry
    <3>2. Connections'
      BY <2>0, <3>1 DEF Connections, Working
    <3> QED BY <1>0, <2>0, <3>1, <3>2, QueueKept
  <2>2. CASE fname[hp][cl[sock].arg] # NULL
    <3>1. /\ tpc' = "getcmd"
          /\ cl' = [cl EXCEPT ![sock].st =
                      IF alive[sock] THEN "opened" ELSE "reset"]
      BY <1>3, <2>2 DEF open_entry
    <3>2. /\ cl'[sock].st \in {"opened", "reset"} /\ cl'[sock].cmd = "OPEN"
          /\ cl'[sock].arg = cl[sock].arg
          /\ \A b \in Clients : b # sock => cl'[b] = cl[b]
      <4>1. CASE alive[sock]
        BY <2>0, <3>1, <4>1, CallUpdate
      <4>2. CASE ~alive[sock]
        BY <2>0, <3>1, <4>2, CallUpdate
      <4> QED BY <4>1, <4>2
    <3>3. Connections'
      BY <2>0, <3>1, <3>2 DEF Connections, Working
    <3> QED BY <1>0, <2>0, <3>2, <3>3, QueueKept
  <2> QED BY <2>1, <2>2
<1>4. CASE remove
  <2>1. /\ tpc = "remove" /\ tpc' = "accept" /\ sock' = NoClient
        /\ backlog' = backlog
        /\ \/ cl[sock].cmd = "CLOSE" /\ Ended
           \/ cl[sock].cmd # "CLOSE" /\ cl' = cl
    BY <1>4 DEF remove
  <2>2. CASE cl[sock].cmd = "CLOSE" /\ Ended
    <3>1. /\ cl'[sock].st = "idle" /\ cl'[sock].cmd = "none"
          /\ \A b \in Clients : b # sock => cl'[b] = cl[b]
      BY <2>1, <2>2, CallEnded
    <3>2. Connections'
      BY <2>1, <3>1 DEF Connections, Working
    <3> QED BY <1>0, <2>1, <2>2, <3>1, <3>2, QueueKept
  <2>3. CASE cl[sock].cmd # "CLOSE" /\ cl' = cl
    <3>2. Connections'
      BY <2>1, <2>3 DEF Connections, Working
    <3> QED BY <1>0, <2>1, <2>3, <3>2, QueueKept
  <2> QED BY <2>1, <2>2, <2>3
<1> QED BY <1>1, <1>2, <1>3, <1>4

\* The watcher thread changes nothing of the applications' calls.
LEMMA WatcherKeeps ==
  ASSUME ThreadType, CallsType, RepliesType, Connections, Queued,
         NEW d \in Dates, NEW t \in Types,
         watcher(d, t) \/ watcher_forced(d, t) \/ watcher_notfound(d, t)
  PROVE  /\ ThreadType' /\ CallsType' /\ RepliesType'
         /\ Connections' /\ Queued'
<1>1. /\ UNCHANGED <<sock, hp, i, nsize, retval, tfd, served, done>>
      /\ UNCHANGED <<backlog, cl, alive, reply, deaths>>
      /\ tpc' = tpc \/ (tpc \in {"wait1", "wait2"} /\ tpc' = "histget")
      /\ overrun' = overrun \/ (overrun < MaxOverrun /\ overrun' = overrun + 1)
  BY WatcherStep DEF cvars
<1>2. overrun' \in 0..MaxOverrun
  BY <1>1, LWatcherAssumption DEF ThreadType
<1>3. ThreadType' /\ CallsType' /\ RepliesType'
  BY <1>1, <1>2 DEF ThreadType, CallsType, RepliesType
<1>4. Connections'
  BY <1>1 DEF Connections, Working
<1>5. Queued'
  BY <1>1 DEF Queued
<1> QED BY <1>3, <1>4, <1>5

-----------------------------------------------------------------------------
(* The ring as the two threads use it.                                     *)

\* Every step of the daemon is a step of the ring or leaves it alone.
LEMMA RingStep ==
  ASSUME Held, [LWNext]_lwvars
  PROVE  [HistNext]_hvars
<1>1. ASSUME NEW d \in Dates, NEW t \in Types,
             watcher(d, t) \/ watcher_forced(d, t) \/ watcher_notfound(d, t)
      PROVE  HistNext
  BY <1>1, WatcherStep DEF HistNext
<1>2. CASE remove
  BY <1>2 DEF remove, Held, Using, HistNext
<1>3. CASE transfer /\ ~remove
  BY <1>3
  DEF transfer, accept, getcmd_entry, getcmd_read, getcmd_close, getcmd_exit,
      histget, check_one, check_done, histwait, copy_test, copy_open, send_ok,
      send_failed, open_entry
<1>4. ASSUME NEW c \in Clients, client(c)
      PROVE  UNCHANGED hvars
  BY <1>4 DEF client
<1>5. CASE UNCHANGED lwvars
  BY <1>5 DEF lwvars
<1> QED BY <1>1, <1>2, <1>3, <1>4, <1>5 DEF LWNext

\* A step of an application does not change what the thread relies on.
LEMMA ClientUsing ==
  ASSUME ThreadType, CallsType, Connections, NEW c \in Clients, client(c)
  PROVE  Using' <=> Using
<1>1. /\ UNCHANGED <<tpc, sock>>
      /\ \A b \in Clients : b # c => cl'[b] = cl[b]
  BY ClientStep DEF tvars
<1>2. CASE tpc # "getcmd"
  BY <1>1, <1>2 DEF Using
<1>3. CASE tpc = "getcmd"
  <2>1. sock \in Clients
        /\ cl[sock].st \in {"connected", "asked", "opened", "reset"}
    BY <1>3 DEF ThreadType, Connections
  <2>2. CASE c # sock
    BY <1>1, <2>1, <2>2 DEF Using
  <2>3. CASE c = sock
    <3>1. \/ /\ cl[c].st = "connected" /\ cl'[c].st = "asked"
             /\ cl'[c].cmd \in {"GET", "OPEN"}
          \/ /\ cl[c].st = "opened" /\ cl'[c].cmd \in {"READ", "CLOSE"}
          \/ cl' = cl
      BY <2>1, <2>3, ClientStep
    <3>2. cl[c].st = "connected" => cl[c].cmd \notin {"READ", "CLOSE"}
      BY DEF Connections
    <3> QED BY <1>1, <1>3, <2>3, <3>1, <3>2 DEF Using
  <2> QED BY <2>2, <2>3
<1> QED BY <1>2, <1>3

\* What the transfer thread's steps do to the entry it relies on.
LEMMA ThreadUsing ==
  ASSUME ThreadType, RepliesType, Connections, Connections', Queued, transfer,
         Using'
  PROVE  \/ histget /\ numhist > 0
         \/ /\ Using /\ tpc # "remove"
            /\ UNCHANGED <<hvars, hp, done, overrun>>
            /\ tpc' \in {"getcmd", "remove"} =>
                 served' = IF tpc = "getcmd" THEN served ELSE date[hp]
<1> USE DEF Using
<1>1. ~accept
  <2> SUFFICES ASSUME accept PROVE FALSE
    OBVIOUS
  <2>1. /\ backlog # <<>> /\ backlog \in Seq(Clients) /\ tpc' = "getcmd"
        /\ sock' = Head(backlog) /\ cl' = cl
    BY DEF accept, RepliesType
  <2>2. 1 \in 1..Len(backlog) /\ sock' = backlog[1]
    BY <2>1, QueueFacts
  <2> QED BY <2>1, <2>2 DEF Queued
<1>2. CASE getcmd_entry
  BY <1>2 DEF getcmd_entry
<1>3. CASE getcmd_read
  BY <1>3 DEF getcmd_read, tvars
<1>4. CASE getcmd_close
  BY <1>4 DEF getcmd_close, cvars
<1>5. CASE getcmd_exit
  BY <1>5 DEF getcmd_exit
<1>6. CASE histget
  BY <1>6 DEF histget
<1>7. CASE check_one \/ check_done \/ histwait \/ copy_test \/ copy_open
  BY <1>7 DEF check_one, check_done, histwait, copy_test, copy_open
<1>8. CASE send_ok \/ send_failed
  BY <1>8 DEF send_ok, send_failed
<1>9. CASE open_entry
  <2>1. tpc' = "getcmd" => served' = date[hp]
    BY <1>9 DEF open_entry
  <2>2. /\ tpc = "openentry" /\ tpc' \in {"getcmd", "histwait"}
        /\ UNCHANGED <<hvars, hp, done, overrun>>
    BY <1>9 DEF open_entry
  <2> QED BY <2>1, <2>2
<1>10. CASE remove
  BY <1>10 DEF remove
<1> QED BY <1>1, <1>2, <1>3, <1>4, <1>5, <1>6, <1>7, <1>8, <1>9, <1>10
        DEF transfer

\* Arrivals never make an entry disappear from the reader's view.
LEMMA PutKeepsCount ==
  ASSUME HistTypeOK, NEW d, NEW t, histput(d, t)
  PROVE  numhist' = numhist \/ numhist' = numhist + 1
  BY DEF histput, PutSame, PutNew, PutForced, PutLate, PutNotFound

LEMMA HeldStep ==
  ASSUME HistTypeOK, ThreadType, CallsType, RepliesType, Connections,
         Connections', Queued, Held, LWNext
  PROVE  Held'
<1> SUFFICES ASSUME Using' PROVE numhist' > 0
  BY DEF Held
<1>0. numhist \in Nat
  BY RingSize DEF HistTypeOK, KEEP_FILE_COUNT
<1>1. ASSUME NEW d \in Dates, NEW t \in Types,
             watcher(d, t) \/ watcher_forced(d, t) \/ watcher_notfound(d, t)
      PROVE  numhist' > 0
  <2>1. Using /\ histput(d, t)
    BY <1>1, WatcherStep
  <2> QED BY <1>0, <2>1, PutKeepsCount DEF Held
<1>2. CASE transfer
  <2>1. CASE histget /\ numhist > 0
    BY <2>1 DEF histget, hvars
  <2>2. CASE Using /\ UNCHANGED hvars
    BY <2>2 DEF Held, hvars
  <2> QED BY <1>2, <2>1, <2>2, ThreadUsing
<1>3. ASSUME NEW c \in Clients, client(c)
      PROVE  numhist' > 0
  BY <1>3, ClientUsing DEF client, hvars, Held
<1> QED BY <1>1, <1>2, <1>3 DEF LWNext

LEMMA AsleepStep ==
  ASSUME HistTypeOK, Asleep, LWNext
  PROVE  Asleep'
<1> SUFFICES ASSUME tpc' = "wait1" PROVE numhist' = 0
  BY DEF Asleep
<1>1. ASSUME NEW d \in Dates, NEW t \in Types,
             watcher(d, t) \/ watcher_forced(d, t) \/ watcher_notfound(d, t)
      PROVE  numhist' = 0
  <2>1. tpc = "wait1" /\ numhist' = numhist
    BY <1>1, WatcherStep
  <2> QED BY <2>1 DEF Asleep
<1>2. CASE transfer
  <2>1. histget /\ ~(numhist > 0)
    BY <1>2
    DEF transfer, accept, getcmd_entry, getcmd_read, getcmd_close, getcmd_exit,
        histget, check_one, check_done, histwait, copy_test, copy_open,
        send_ok, send_failed, open_entry, remove, tvars, Asleep
  <2>2. numhist \in Nat
    BY RingSize DEF HistTypeOK, KEEP_FILE_COUNT
  <2> QED BY <2>1, <2>2 DEF histget, hvars
<1>3. ASSUME NEW c \in Clients, client(c)
      PROVE  numhist' = 0
  BY <1>3 DEF client, hvars, tvars, Asleep
<1> QED BY <1>1, <1>2, <1>3 DEF LWNext

-----------------------------------------------------------------------------
(* The invariant of the daemon, whatever arrives and however late.         *)

\* The applications' calls and the thread that serves them.
Calls == ThreadType /\ CallsType /\ RepliesType /\ Connections /\ Queued

DaemonInv == RingShape /\ Calls /\ Held /\ Asleep

LEMMA CallsInit == LWInit => Calls
<1> SUFFICES ASSUME LWInit PROVE Calls
  OBVIOUS
<1> USE DEF LWInit
<1>1. 0 \in Slots /\ 0 \in 0..sync_nsize /\ sync_nsize \in 1..sync_nsize
      /\ 0 \in 0..MaxOverrun /\ 0 \in 0..MaxDeaths
  BY SyncTypes, RingSize, LWatcherAssumption DEF Slots
<1>2. ThreadType
  BY <1>1, NoFiles DEF ThreadType
<1>3. CallsType
  BY CallStateFacts DEF CallsType
<1>4. RepliesType
  BY <1>1, NoFiles DEF RepliesType, NoReply
<1>5. Connections
  BY DEF Connections, Working, Idle
<1>6. Queued
  BY DEF Queued
<1> QED BY <1>2, <1>3, <1>4, <1>5, <1>6 DEF Calls

LEMMA CallsStep ==
  ASSUME HistTypeOK, Calls, [LWNext]_lwvars
  PROVE  Calls'
<1> USE DEF Calls
<1>1. ASSUME NEW d \in Dates, NEW t \in Types,
             watcher(d, t) \/ watcher_forced(d, t) \/ watcher_notfound(d, t)
      PROVE  Calls'
  BY <1>1, WatcherKeeps
<1>2. CASE accept \/ getcmd_entry \/ getcmd_read \/ getcmd_close \/ getcmd_exit
  BY <1>2, TypeCommand, ConnectionsCommand
<1>3. CASE \/ histget \/ check_one \/ check_done \/ histwait \/ copy_test
           \/ copy_open
  BY <1>3, TypeCopy, ConnectionsCopy
<1>4. CASE send_ok \/ send_failed \/ open_entry \/ remove
  BY <1>4, TypeAnswer, ConnectionsAnswer
<1>5. ASSUME NEW c \in Clients, client(c)
      PROVE  Calls'
  <2>1. ThreadType'
    BY <1>5 DEF client, tvars, ThreadType
  <2> QED BY <1>5, <2>1, ClientStep, ClientConnections
<1>6. CASE UNCHANGED lwvars
  BY <1>6 DEF lwvars, tvars, cvars, ThreadType, CallsType, RepliesType,
              Connections, Working, Queued
<1> QED BY <1>1, <1>2, <1>3, <1>4, <1>5, <1>6 DEF LWNext, transfer

LEMMA DaemonInit == LWInit => DaemonInv
<1>1. LWInit => RingShape
  BY ShapeInit DEF LWInit
<1>2. LWInit => Held /\ Asleep
  BY DEF LWInit, Held, Asleep, Using
<1> QED BY <1>1, <1>2, CallsInit DEF DaemonInv

LEMMA DaemonStep ==
  ASSUME DaemonInv, [LWNext]_lwvars
  PROVE  DaemonInv'
<1>1. HistTypeOK /\ ThreadType /\ CallsType /\ RepliesType /\ Connections
      /\ Queued /\ Held /\ Asleep /\ RingShape
  BY DEF DaemonInv, Calls, RingShape
<1>2. RingShape'
  BY <1>1, RingStep, ShapeStep
<1>3. Calls'
  BY <1>1, CallsStep DEF Calls
<1>4. Held' /\ Asleep'
  <2>1. CASE LWNext
    BY <1>1, <1>3, <2>1, HeldStep, AsleepStep DEF Calls
  <2>2. CASE UNCHANGED lwvars
    BY <1>1, <2>2 DEF lwvars, hvars, tvars, cvars, Held, Using, Asleep
  <2> QED BY <2>1, <2>2
<1> QED BY <1>2, <1>3, <1>4 DEF DaemonInv

THEOREM DaemonInvariant == LWSpec => []DaemonInv
BY DaemonInit, DaemonStep, PTL DEF LWSpec

\* The transfer thread removes an entry only while one is pending, and nothing
\* else touches the ring outside histput: so every behaviour of the daemon is,
\* as far as the ring goes, one of HistSpec, and each theorem of HistoryProofs
\* holds of the daemon.
THEOREM DaemonIsHistory == LWSpec => HistSpec
<1>1. LWInit => HistInit
  BY DEF LWInit
<1>2. DaemonInv /\ [LWNext]_lwvars => [HistNext]_hvars
  BY RingStep DEF DaemonInv
<1> QED BY <1>1, <1>2, DaemonInvariant, PTL DEF LWSpec, HistSpec

\* The control points, the connection, the slot and the indices of the two
\* threads keep their types.
THEOREM DaemonTypeCorrect == LWSpec => []LWTypeOK
<1>1. DaemonInv => LWTypeOK
  BY LWTypes DEF DaemonInv, Calls
<1> QED BY <1>1, DaemonInvariant, PTL

\* histget tests numhist and waits in one critical section, and every histput
\* that registers a new date signals: the thread never sleeps there while an
\* entry is pending.
THEOREM NeverMissed == LWSpec => []NoMissedEntry
<1>1. DaemonInv => NoMissedEntry
  BY DEF DaemonInv, Asleep, NoMissedEntry
<1> QED BY <1>1, DaemonInvariant, PTL

\* The daemon hands dates through a bounded queue.
THEOREM DaemonIsQueue == Late <= 1 => (LWSpec => ImplementsQueue)
BY DaemonIsHistory, Implements, PTL

-----------------------------------------------------------------------------
(* Which entry is handed out and which one removed.  The thread may lose   *)
(* its entry to forced removals KEEP_FILE_COUNT times before the slot      *)
(* itself is taken for a new date.                                         *)

\* A new date moves every recorded one a slot farther back.
LEMMA AdvanceBack ==
  ASSUME RingShape, RingShape', NEW d \in Dates, NEW t \in Types,
         PutNew(d, t) \/ PutForced(d, t)
  PROVE  /\ prodhistp' \in Slots /\ date'[prodhistp'] = d /\ d \in Nat /\ d # 0
         /\ date[prodhistp] \in Nat /\ date[prodhistp] < d
         /\ date[prodhistp] # 0 =>
              \A k \in 1..(nhist - 1) :
                /\ Behind(prodhistp', k) = Back(k - 1)
                /\ Back(k - 1) \in Slots /\ Back(k - 1) # prodhistp'
                /\ date'[Back(k - 1)] = date[Back(k - 1)]
<1> USE RingSize
<1>1. /\ d > date[prodhistp] /\ prodhistp' = NewSlot
      /\ date' = [date EXCEPT ![prodhistp'] = d]
  BY DEF PutNew, PutForced
<1>2. /\ prodhistp \in Slots /\ prodhistp' \in Slots
      /\ date \in [Slots -> Dates \cup {0}]
  BY DEF RingShape, HistTypeOK
<1>3. date[prodhistp] \in Nat /\ d \in Nat /\ d # 0
  BY <1>2, DateFacts
<1>4. date'[prodhistp'] = d /\ \A s \in Slots \ {prodhistp'} : date'[s] = date[s]
  BY <1>1, <1>2
<1>5. ASSUME date[prodhistp] # 0, NEW k \in 1..(nhist - 1)
      PROVE  /\ Behind(prodhistp', k) = Back(k - 1)
             /\ Back(k - 1) \in Slots /\ Back(k - 1) # prodhistp'
  <2>1. Behind(prodhistp', k) = Back(k - 1)
    BY <1>1, <1>2, <1>5, BehindSucc DEF NewSlot, Back
  <2>2. k \in 0..(nhist - 1) /\ 0 \in 0..(nhist - 1) /\ k # 0
    OBVIOUS
  <2>3. Behind(prodhistp', k) \in Slots /\ Behind(prodhistp', k) # prodhistp'
    BY <1>2, <2>2, BehindValue, BehindInjective, SuccIsFarthest
  <2> QED BY <2>1, <2>3
<1> QED BY <1>1, <1>2, <1>3, <1>4, <1>5

LEMMA OldDateBack ==
  ASSUME NEW d, NEW t, PutSame(d, t) \/ PutLate(d, t) \/ PutNotFound(d, t)
  PROVE  UNCHANGED <<date, prodhistp, conshistp, numhist>>
  BY DEF PutSame, PutLate, PutNotFound

\* The oldest pending entry is where conshistp points.
LEMMA OldestPending ==
  ASSUME RingShape, numhist > 0
  PROVE  /\ numhist - 1 \in 0..(nhist - 4) /\ conshistp = Back(numhist - 1)
         /\ date[prodhistp] # 0
<1>1. numhist \in 1..(nhist - 3) /\ prodhistp \in Slots
  BY RingSize DEF RingShape, HistTypeOK, KEEP_FILE_COUNT
<1>2. date[prodhistp] # 0
  BY <1>1 DEF RingShape, Fresh
<1>3. conshistp = Succ(Behind(prodhistp, numhist))
  BY <1>2 DEF RingShape, PointersAgree, Back
<1>4. numhist \in 1..(nhist - 1) /\ numhist - 1 \in 0..(nhist - 4)
  BY <1>1, RingSize
<1>5. Succ(Behind(prodhistp, numhist)) = Behind(prodhistp, numhist - 1)
  BY <1>1, <1>4, BehindSucc
<1> QED BY <1>2, <1>3, <1>4, <1>5 DEF Back

\* The entry in use, when a new date arrives.
LEMMA HeldAdvance ==
  ASSUME DaemonInv, DaemonInv', Follows, Using, NEW d \in Dates, NEW t \in Types,
         watcher(d, t) \/ watcher_forced(d, t) \/ watcher_notfound(d, t),
         PutNew(d, t) \/ PutForced(d, t), overrun' <= KEEP_FILE_COUNT
  PROVE  /\ numhist' - 1 + overrun' \in 1..(nhist - 1)
         /\ hp = Behind(prodhistp', numhist' - 1 + overrun')
         /\ hp # prodhistp' /\ date'[hp] = date[hp]
         /\ overrun \in Nat /\ overrun <= KEEP_FILE_COUNT
<1> USE RingSize
<1>0. PICK n \in 0..(nhist - 3) : n = numhist'
  BY DEF DaemonInv, RingShape, HistTypeOK, KEEP_FILE_COUNT
<1>1. /\ RingShape /\ RingShape' /\ MaxOverrun \in Nat /\ numhist \in 0..(nhist - 3)
      /\ overrun \in 0..MaxOverrun /\ overrun' \in 0..MaxOverrun /\ overrun' <= 3
  BY LWatcherAssumption
  DEF DaemonInv, Calls, RingShape, HistTypeOK, ThreadType, KEEP_FILE_COUNT
<1>2. numhist > 0 /\ date[prodhistp] # 0
  BY <1>1, OldestPending DEF DaemonInv, Held
<1>3. /\ n - 1 + overrun' \in 1..(nhist - 1) /\ overrun <= 3
      /\ (n - 1 + overrun') - 1 = numhist - 1 + overrun
  <2>1. CASE PutNew(d, t)
    <3>1. ~PutForced(d, t)
      BY <1>1, <2>1 DEF PutForced, PutNew, KEEP_FILE_COUNT
    <3>2. overrun' = overrun
      BY <3>1, WatcherStep
    <3>3. n = numhist + 1
      BY <1>0, <2>1 DEF PutNew
    <3> QED BY <1>1, <1>2, <3>2, <3>3
  <2>2. CASE PutForced(d, t)
    <3>1. /\ ~PutSame(d, t) /\ ~PutNew(d, t) /\ ~PutLate(d, t)
          /\ ~PutNotFound(d, t)
      <4>1. date[prodhistp] \in Nat /\ d \in Nat /\ d > date[prodhistp]
        BY <1>1, <2>2, AdvanceBack DEF PutForced
      <4> QED BY <1>1, <2>2, <4>1
              DEF PutForced, PutSame, PutNew, PutLate, PutNotFound,
                  KEEP_FILE_COUNT
    <3>2. overrun' = overrun + 1
      BY <3>1, WatcherStep
    <3>3. n = numhist
      BY <1>0, <2>2 DEF PutForced
    <3> QED BY <1>1, <1>2, <3>2, <3>3
  <2> QED BY <2>1, <2>2
<1>4. PICK k \in 1..(nhist - 1) : k = n - 1 + overrun'
  BY <1>3
<1>5. /\ Behind(prodhistp', k) = Back(k - 1) /\ Back(k - 1) # prodhistp'
      /\ date'[Back(k - 1)] = date[Back(k - 1)]
  BY <1>1, <1>2, AdvanceBack
<1>6. overrun \in Nat /\ overrun <= KEEP_FILE_COUNT
  BY <1>1, <1>3 DEF KEEP_FILE_COUNT
<1>7. hp = Back(k - 1)
  BY <1>3, <1>4, <1>6 DEF Follows
<1>8. k = numhist' - 1 + overrun'
  BY <1>0, <1>4
<1> QED BY <1>4, <1>5, <1>6, <1>7, <1>8

LEMMA FollowsPut ==
  ASSUME DaemonInv, DaemonInv', Follows, NEW d \in Dates, NEW t \in Types,
         watcher(d, t) \/ watcher_forced(d, t) \/ watcher_notfound(d, t)
  PROVE  Follows'
<1>1. /\ UNCHANGED <<hp, served, done>> /\ (Using' <=> Using)
      /\ Using => (tpc' \in {"getcmd", "remove"} <=> tpc \in {"getcmd", "remove"})
  BY WatcherStep DEF Using
<1>2. CASE (PutSame(d, t) \/ PutLate(d, t) \/ PutNotFound(d, t))
             /\ overrun' = overrun
  BY <1>1, <1>2, OldDateBack DEF Follows, Back
<1>3. CASE PutNew(d, t) \/ PutForced(d, t)
  <2> SUFFICES ASSUME Using, overrun' <= KEEP_FILE_COUNT
               PROVE  /\ hp = Behind(prodhistp', numhist' - 1 + overrun')
                      /\ tpc \in {"getcmd", "remove"} => served = date'[hp]
    BY <1>1 DEF Follows, Back
  <2> QED BY <1>3, HeldAdvance DEF Follows
<1> QED BY <1>2, <1>3, WatcherStep

LEMMA FollowsStep ==
  ASSUME DaemonInv, DaemonInv', Follows, [LWNext]_lwvars
  PROVE  Follows'
<1>1. ASSUME NEW d \in Dates, NEW t \in Types,
             watcher(d, t) \/ watcher_forced(d, t) \/ watcher_notfound(d, t)
      PROVE  Follows'
  BY <1>1, FollowsPut
<1>2. CASE transfer
  <2> SUFFICES ASSUME Using', overrun' <= KEEP_FILE_COUNT
               PROVE  /\ hp' = Behind(prodhistp', numhist' - 1 + overrun')
                      /\ tpc' \in {"getcmd", "remove"} => served' = date'[hp']
    BY DEF Follows, Back
  <2>1. CASE histget /\ numhist > 0
    <3>1. /\ hp' = conshistp /\ overrun' = 0 /\ tpc' \in {"check", "openentry"}
          /\ UNCHANGED hvars
      BY <2>1 DEF histget
    <3>2. numhist - 1 \in 0..(nhist - 4) /\ conshistp = Back(numhist - 1)
      BY <2>1, OldestPending DEF DaemonInv
    <3>3. numhist - 1 + overrun' = numhist - 1
      BY <3>1, <3>2, RingSize
    <3> QED BY <3>1, <3>2, <3>3 DEF hvars, Back
  <2>2. CASE /\ Using /\ tpc # "remove"
             /\ UNCHANGED <<hvars, hp, done, overrun>>
             /\ tpc' \in {"getcmd", "remove"} =>
                  served' = IF tpc = "getcmd" THEN served ELSE date[hp]
    BY <2>2 DEF Follows, hvars, Back
  <2> QED BY <1>2, <2>1, <2>2, ThreadUsing DEF DaemonInv, Calls
<1>3. ASSUME NEW c \in Clients, client(c)
      PROVE  Follows'
  <2>1. Using' <=> Using
    BY <1>3, ClientUsing DEF DaemonInv, Calls
  <2> QED BY <1>3, <2>1 DEF client, hvars, tvars, Follows, Back
<1>4. CASE UNCHANGED lwvars
  BY <1>4 DEF lwvars, hvars, tvars, cvars, Follows, Back, Using
<1> QED BY <1>1, <1>2, <1>3, <1>4 DEF LWNext

\* Whatever arrives, the thread keeps track of its entry.
THEOREM FollowsInvariant == LWSpec => []Follows
<1>1. LWInit => Follows
  BY DEF LWInit, Follows, Using
<1>2. DaemonInv /\ DaemonInv' /\ Follows /\ [LWNext]_lwvars => Follows'
  BY FollowsStep
<1> QED BY <1>1, <1>2, DaemonInvariant, PTL DEF LWSpec

\* histremove drops the entry just handed out, unless the watcher thread has
\* given up one meanwhile.
THEOREM RemovedWasServed == LWSpec => RemovesServed
<1>1. DaemonInv /\ Follows /\ tpc = "remove" /\ overrun = 0
        => date[conshistp] = served
  <2> SUFFICES ASSUME DaemonInv, Follows, tpc = "remove", overrun = 0
               PROVE  date[conshistp] = served
    OBVIOUS
  <2>1. Using /\ numhist > 0 /\ overrun <= KEEP_FILE_COUNT
    BY DEF DaemonInv, Held, Using, KEEP_FILE_COUNT
  <2>2. hp = Back(numhist - 1 + overrun) /\ served = date[hp]
    BY <2>1 DEF Follows
  <2>3. numhist - 1 + overrun = numhist - 1 /\ conshistp = Back(numhist - 1)
    BY <2>1, OldestPending, RingSize DEF DaemonInv
  <2> QED BY <2>2, <2>3
<1>2. DaemonInv /\ Follows =>
        [tpc = "remove" /\ tpc' # tpc /\ overrun = 0
           => date[conshistp] = served]_lwvars
  BY <1>1
<1> QED BY <1>2, FollowsInvariant, DaemonInvariant, PTL DEF RemovesServed

\* Arrivals are newer than what has been taken.
LEMMA NewerPut ==
  ASSUME MaxOverrun <= KEEP_FILE_COUNT, DaemonInv, DaemonInv', Follows,
         PendingNewer, NEW d \in Dates, NEW t \in Types,
         watcher(d, t) \/ watcher_forced(d, t) \/ watcher_notfound(d, t)
  PROVE  PendingNewer'
<1> USE RingSize
<1>0. PICK n \in 0..(nhist - 3) : n = numhist'
  BY DEF DaemonInv, RingShape, HistTypeOK, KEEP_FILE_COUNT
<1>1. /\ RingShape /\ RingShape' /\ numhist \in 0..(nhist - 3)
      /\ overrun' <= KEEP_FILE_COUNT /\ done \in Dates \cup {0}
  BY LWatcherAssumption
  DEF DaemonInv, Calls, RingShape, HistTypeOK, ThreadType, KEEP_FILE_COUNT
<1>2. done \in Nat
  BY <1>1, DateFacts
<1>3. UNCHANGED <<hp, done>> /\ (Using' <=> Using)
  BY WatcherStep
<1>4. CASE PutSame(d, t) \/ PutLate(d, t) \/ PutNotFound(d, t)
  BY <1>3, <1>4, OldDateBack DEF PendingNewer, Back
<1>5. CASE PutNew(d, t) \/ PutForced(d, t)
  <2>1. /\ prodhistp' \in Slots /\ date'[prodhistp'] = d /\ d \in Nat /\ d # 0
        /\ date[prodhistp] \in Nat /\ date[prodhistp] < d
        /\ date[prodhistp] # 0 =>
             \A k \in 1..(nhist - 1) :
                /\ Behind(prodhistp', k) = Back(k - 1)
                /\ date'[Back(k - 1)] = date[Back(k - 1)]
    BY <1>1, <1>5, AdvanceBack
  <2>2. n = numhist + 1 \/ n = numhist
    BY <1>0, <1>5 DEF PutNew, PutForced
  <2>3. done < d
    BY <1>2, <2>1 DEF PendingNewer
  <2>4. ASSUME NEW k \in 0..(n - 1)
        PROVE  done < date'[Behind(prodhistp', k)]
    <3>1. CASE k = 0
      BY <2>1, <2>3, <3>1, SuccIsFarthest
    <3>2. CASE k # 0
      <4>1. k \in 1..(nhist - 1) /\ k - 1 \in 0..(numhist - 1) /\ numhist > 0
        BY <1>1, <2>2, <3>2
      <4>2. date[prodhistp] # 0
        BY <1>1, <4>1, OldestPending
      <4>3. done < date[Back(k - 1)]
        BY <4>1 DEF PendingNewer
      <4> QED BY <2>1, <4>1, <4>2, <4>3
    <3> QED BY <3>1, <3>2
  <2>5. \A k \in 0..(numhist' - 1) : done' < date'[Behind(prodhistp', k)]
    BY <1>0, <1>3, <2>4
  <2>6. done' <= date'[prodhistp']
    BY <1>2, <1>3, <2>1, <2>3
  <2>7. Using' => done' < date'[hp']
    BY <1>1, <1>3, <1>5, HeldAdvance DEF PendingNewer
  <2> QED BY <2>5, <2>6, <2>7 DEF PendingNewer, Back
<1> QED BY <1>4, <1>5, WatcherStep

\* Once the entry is removed, all those still pending are newer.
LEMMA NewerRemove ==
  ASSUME MaxOverrun <= KEEP_FILE_COUNT, DaemonInv, Follows, PendingNewer, remove
  PROVE  PendingNewer'
<1> USE RingSize
<1>1. /\ RingShape /\ MaxOverrun \in Nat /\ MaxOverrun <= 3
      /\ hp \in Slots /\ overrun <= KEEP_FILE_COUNT /\ done \in Dates \cup {0}
      /\ numhist \in 0..(nhist - 3) /\ overrun \in 0..MaxOverrun
  BY LWatcherAssumption
  DEF DaemonInv, Calls, RingShape, HistTypeOK, ThreadType, KEEP_FILE_COUNT
<1>2. /\ tpc = "remove" /\ done' = served /\ tpc' = "accept" /\ hp' = hp
      /\ numhist' = numhist - 1 /\ UNCHANGED <<date, prodhistp>>
  BY DEF remove, histremove
<1>3. Using /\ numhist > 0
  BY <1>2 DEF DaemonInv, Held, Using
<1>4. /\ hp = Back(numhist - 1 + overrun) /\ served = date[hp] /\ date[hp] # 0
  <2>1. date[hp] \in Nat /\ done \in Nat
    BY <1>1, DateFacts DEF RingShape, HistTypeOK
  <2> QED BY <1>1, <1>2, <1>3, <2>1 DEF Follows, PendingNewer
<1>5. numhist - 1 + overrun \in 0..(nhist - 1)
  BY <1>1, <1>3
<1>6. ASSUME NEW k \in 0..((numhist - 1) - 1)
      PROVE  served < date[Back(k)]
  <2>1. k \in 0..(nhist - 1) /\ k < numhist - 1 + overrun
    BY <1>1, <1>3
  <2>2. date[hp] = 0 \/ date[hp] < date[Back(k)]
    BY <1>1, <1>4, <1>5, <2>1 DEF RingShape, DatesDescend
  <2> QED BY <1>4, <2>2
<1>7. served <= date[prodhistp]
  BY <1>1, <1>4, NewestIsLast DEF RingShape
<1>8. ~Using'
  BY <1>2 DEF Using
<1> QED BY <1>2, <1>6, <1>7, <1>8 DEF PendingNewer, Back

LEMMA NewerStep ==
  ASSUME MaxOverrun <= KEEP_FILE_COUNT, DaemonInv, DaemonInv', Follows,
         PendingNewer, [LWNext]_lwvars
  PROVE  PendingNewer'
<1>1. ASSUME NEW d \in Dates, NEW t \in Types,
             watcher(d, t) \/ watcher_forced(d, t) \/ watcher_notfound(d, t)
      PROVE  PendingNewer'
  BY <1>1, NewerPut
<1>2. CASE remove
  BY <1>2, NewerRemove
<1>3. CASE transfer /\ ~remove
  <2>1. UNCHANGED <<hvars, done>>
    BY <1>3
    DEF transfer, accept, getcmd_entry, getcmd_read, getcmd_close, getcmd_exit,
        histget, check_one, check_done, histwait, copy_test, copy_open,
        send_ok, send_failed, open_entry, tvars
  <2>2. ASSUME Using' PROVE done < date[hp']
    <3>1. CASE histget /\ numhist > 0
      <4>1. hp' = conshistp
        BY <3>1 DEF histget
      <4>2. numhist - 1 \in 0..(nhist - 4) /\ conshistp = Back(numhist - 1)
        BY <3>1, OldestPending DEF DaemonInv
      <4>3. numhist - 1 \in 0..(numhist - 1)
        BY <4>2
      <4> QED BY <4>1, <4>2, <4>3 DEF PendingNewer
    <3>2. CASE Using /\ hp' = hp
      BY <3>2 DEF PendingNewer
    <3> QED BY <1>3, <2>2, <3>1, <3>2, ThreadUsing DEF DaemonInv, Calls
  <2> QED BY <2>1, <2>2 DEF PendingNewer, Back, hvars
<1>4. ASSUME NEW c \in Clients, client(c)
      PROVE  PendingNewer'
  <2>1. Using' <=> Using
    BY <1>4, ClientUsing DEF DaemonInv, Calls
  <2> QED BY <1>4, <2>1 DEF client, hvars, tvars, PendingNewer, Back
<1>5. CASE UNCHANGED lwvars
  BY <1>5 DEF lwvars, hvars, tvars, cvars, PendingNewer, Back, Using
<1> QED BY <1>1, <1>2, <1>3, <1>4, <1>5 DEF LWNext

LEMMA NewerInit == LWInit => PendingNewer
<1> SUFFICES ASSUME LWInit PROVE PendingNewer
  OBVIOUS
<1>1. ~Using
  BY DEF LWInit, Using
<1>2. 0 \in Slots
  BY RingSize DEF Slots
<1>3. done = 0 /\ date[prodhistp] = 0 /\ numhist = 0
  BY <1>2 DEF LWInit, HistInit
<1> QED BY <1>1, <1>3 DEF PendingNewer

\* As long as no more entries are given up than KEEP_FILE_COUNT while the
\* thread works on one, dates are handed out in ascending order, each once.
THEOREM HandedOutOnce ==
  MaxOverrun <= KEEP_FILE_COUNT => (LWSpec => []NeverAgain)
<1> SUFFICES ASSUME MaxOverrun <= KEEP_FILE_COUNT PROVE LWSpec => []NeverAgain
  OBVIOUS
<1>1. DaemonInv /\ DaemonInv' /\ Follows /\ PendingNewer /\ [LWNext]_lwvars
        => PendingNewer'
  BY NewerStep
<1>2. DaemonInv /\ Follows /\ PendingNewer => NeverAgain
  <2> SUFFICES ASSUME DaemonInv, Follows, PendingNewer, tpc = "remove"
               PROVE  served > done
    BY DEF NeverAgain
  <2>1. overrun <= KEEP_FILE_COUNT
    BY LWatcherAssumption DEF DaemonInv, Calls, ThreadType, KEEP_FILE_COUNT
  <2>2. served = date[hp] /\ done < date[hp]
    BY <2>1 DEF Follows, PendingNewer, Using
  <2> QED BY <2>2
<1> QED BY <1>1, <1>2, NewerInit, FollowsInvariant, DaemonInvariant, PTL
        DEF LWSpec

-----------------------------------------------------------------------------
(* What a reply holds.  Here the thread may lose its entry only as often   *)
(* as KEEP_FILE_COUNT protects its files: twice.                           *)

\* The watcher thread neither renames the entry in use nor takes a file of it.
LEMMA HeldEntryKept ==
  ASSUME MaxOverrun <= KEEP_FILE_COUNT - 1, DaemonInv, DaemonInv', Follows,
         Using, NEW d \in Dates, NEW t \in Types,
         watcher(d, t) \/ watcher_forced(d, t) \/ watcher_notfound(d, t)
  PROVE  /\ hp' = hp /\ date'[hp] = date[hp]
         /\ \A u \in Types : fname[hp][u] # NULL => fname'[hp][u] # NULL
<1> USE RingSize
<1>0. PICK n \in 0..(nhist - 3) : n = numhist'
  BY DEF DaemonInv, RingShape, HistTypeOK, KEEP_FILE_COUNT
<1>1. /\ RingShape /\ RingShape' /\ hp \in Slots
      /\ prodhistp' \in Slots /\ conshistp' \in Slots
      /\ overrun' \in Nat /\ overrun' <= 2 /\ overrun' <= KEEP_FILE_COUNT
      /\ fname \in [Slots -> [Types -> Dates \cup {NULL}]]
  BY LWatcherAssumption
  DEF DaemonInv, Calls, RingShape, HistTypeOK, ThreadType, KEEP_FILE_COUNT
<1>2. hp' = hp /\ d # NULL
  BY WatcherStep, DateFacts DEF NULL
<1>3. CASE PutSame(d, t) \/ PutLate(d, t) \/ PutNotFound(d, t)
  <2>1. date' = date
    BY <1>3, OldDateBack
  <2>2. \/ fname' = fname
        \/ \E s : fname' = [fname EXCEPT ![s][t] = d]
    BY <1>3 DEF PutSame, PutLate, PutNotFound
  <2>3. ASSUME NEW s, fname' = [fname EXCEPT ![s][t] = d],
               NEW u \in Types, fname[hp][u] # NULL
        PROVE  fname'[hp][u] # NULL
    BY <1>1, <1>2, <2>3
  <2> QED BY <1>2, <2>1, <2>2, <2>3
<1>4. CASE PutNew(d, t) \/ PutForced(d, t)
  <2>1. /\ n - 1 + overrun' \in 1..(nhist - 1)
        /\ hp = Behind(prodhistp', n - 1 + overrun')
        /\ hp # prodhistp' /\ date'[hp] = date[hp]
    BY <1>0, <1>1, <1>4, HeldAdvance
  <2>2. PICK k \in 0..(nhist - 1) : k = n - 1 + overrun'
    BY <2>1
  <2>3. k # n + 2 /\ n + 2 \in 0..(nhist - 1)
    <3>1. PICK o \in 0..2 : o = overrun'
      BY <1>1
    <3>2. k = n - 1 + o
      BY <2>2, <3>1
    <3>3. n + 2 \in 0..(nhist - 1)
      OBVIOUS
    <3>4. n \in Int /\ o \in Int /\ o <= 2
      OBVIOUS
    <3>5. n - 1 + o < n + 2
      BY <3>4
    <3> QED BY <3>2, <3>3, <3>5
  <2>4. Behind(prodhistp', n + 2) # hp
    BY <1>1, <2>1, <2>2, <2>3, BehindInjective
  <2>5. \A u \in Types : fname'[hp][u] = fname[hp][u]
    <3>1. CASE PutNew(d, t)
      BY <1>1, <2>1, <3>1 DEF PutNew
    <3>2. CASE PutForced(d, t)
      <4>1. date'[prodhistp'] # 0
        BY <1>1, <1>4, AdvanceBack
      <4>2. conshistp' = Succ(Behind(prodhistp', n))
        BY <1>0, <1>1, <4>1 DEF RingShape, PointersAgree, Back
      <4>3. Victim(conshistp') # hp
        BY <1>0, <1>1, <2>4, <4>2, VictimPlace
      <4> QED BY <1>1, <2>1, <3>2, <4>3 DEF PutForced
    <3> QED BY <1>4, <3>1, <3>2
  <2> QED BY <1>2, <2>1, <2>5
<1> QED BY <1>3, <1>4, WatcherStep

\* A file registered in an entry is of its date, and can be opened.
LEMMA EntryFile ==
  ASSUME RingContents, NEW s \in Slots, NEW t \in Types, fname[s][t] # NULL
  PROVE  fname[s][t] = date[s] /\ <<fname[s][t], t>> \in disk
<1>1. fname[s][t] = date[s]
  BY DEF RingContents, OneDatePerEntry
<1>2. <<fname[s][t], t>> \in Files(s)
  BY DEF Files
<1>3. <<fname[s][t], t>> \in UNION {Files(r) : r \in Slots}
  BY <1>2
<1> QED BY <1>1, <1>3 DEF RingContents, DiskIsRegistered

\* The arrivals leave what has been found and copied in place.
LEMMA CopiedPut ==
  ASSUME MaxOverrun <= KEEP_FILE_COUNT - 1, DaemonInv, DaemonInv', Follows,
         Copied, NEW d \in Dates, NEW t \in Types,
         watcher(d, t) \/ watcher_forced(d, t) \/ watcher_notfound(d, t)
  PROVE  Copied'
<1>1. /\ UNCHANGED <<i, nsize, retval>>
      /\ tpc' = tpc \/ tpc' = "histget"
  BY WatcherStep
<1>2. CASE tpc \in {"check", "copy", "open", "send"}
  <2>1. Using
    BY <1>2 DEF Using
  <2>2. /\ hp' = hp /\ date'[hp] = date[hp]
        /\ \A u \in Types : fname[hp][u] # NULL => fname'[hp][u] # NULL
    BY <2>1, HeldEntryKept
  <2>3. /\ \A u \in Types : fname[hp][u] # NULL => fname'[hp'][u] # NULL
        /\ date'[hp'] = date[hp]
    BY <2>2
  <2> QED BY <1>1, <2>3 DEF Copied
<1>3. CASE tpc \notin {"check", "copy", "open", "send"}
  BY <1>1, <1>3 DEF Copied
<1> QED BY <1>2, <1>3

\* Looking for an entry, checking it and copying its files.
LEMMA CopiedCopy ==
  ASSUME \A m, n \in Counts : m = n, DaemonInv, RingContents, Copied,
         \/ histget \/ check_one \/ check_done \/ histwait \/ copy_test
         \/ copy_open
  PROVE  Copied'
<1>1. /\ UNCHANGED hvars /\ Working
      /\ i \in 0..sync_nsize /\ nsize \in 1..sync_nsize /\ hp \in Slots
      /\ retval \in [Types -> Dates \cup {JUNK}]
      /\ \A t \in Types : t \in Nat
      /\ sock \in Clients /\ RingShape
  BY SyncTypes
  DEF histget, check_one, check_done, histwait, copy_test, copy_open, DaemonInv,
      Calls, ThreadType, Working
<1>2. date' = date /\ fname' = fname
  BY <1>1 DEF hvars
<1>3. i \in Int /\ nsize \in Int /\ \A t \in Types : t \in Int
  BY <1>1
<1>4. CASE histget
  <2>1. nsize' = nsize /\ (tpc' = "check" => i' = 0)
        /\ tpc' \in {"check", "openentry", "wait1"}
    BY <1>4 DEF histget
  <2> QED BY <1>1, <2>1 DEF Copied
<1>5. CASE check_one
  <2>1. /\ tpc = "check" /\ i < nsize /\ UNCHANGED <<hp, nsize, retval>>
        /\ \/ tpc' = "histwait"
           \/ tpc' = "check" /\ i' = i + 1 /\ fname[hp][i] # NULL
    BY <1>5 DEF check_one
  <2>2. \A t \in Types : t < i + 1 => t < i \/ t = i
    BY <1>3
  <2> QED BY <1>2, <2>1, <2>2 DEF Copied
<1>6. CASE check_done
  <2>1. /\ tpc = "check" /\ i >= nsize /\ tpc' = "copy" /\ i' = 0
        /\ UNCHANGED <<hp, retval>>
        /\ nsize' = IF cl[sock].arg < nsize THEN cl[sock].arg ELSE nsize
    BY <1>6 DEF check_done
  <2>2. PICK n \in Counts : n = cl[sock].arg
    BY <1>1, <2>1 DEF DaemonInv, Calls, Connections
  <2>3. n \in Int /\ n <= nsize
    BY <2>2, SyncTypes DEF Copied
  <2>4. nsize' <= nsize /\ nsize' \in Int /\ n <= nsize'
    BY <1>3, <2>1, <2>2, <2>3
  <2>5. \A m \in Counts : m <= nsize'
    BY <2>2, <2>4
  <2>6. \A t \in Types : t < nsize' => t < i
    <3>1. PICK m \in Int : m = nsize' /\ m <= i
      BY <1>3, <2>1, <2>4
    <3> QED BY <1>3, <3>1
  <2>7. \A t \in Types : ~(t < 0)
    BY <1>1
  <2> QED BY <1>2, <2>1, <2>5, <2>6, <2>7 DEF Copied
<1>7. CASE histwait
  BY <1>2, <1>7 DEF histwait, Copied
<1>8. CASE copy_test
  <2>1. /\ tpc = "copy" /\ UNCHANGED <<hp, i, nsize, retval>>
        /\ \/ tpc' = "open"
           \/ tpc' = "send" /\ ~(i < nsize /\ fname[hp][i] # NULL)
    BY <1>8 DEF copy_test
  <2>2. CASE tpc' = "open"
    BY <1>2, <2>1, <2>2 DEF Copied
  <2>3. CASE tpc' = "send" /\ ~(i < nsize /\ fname[hp][i] # NULL)
    <3>1. i >= nsize
      <4> SUFFICES ASSUME i < nsize PROVE FALSE
        BY <1>3
      <4>1. i \in Types
        BY <1>1, SyncTypes
      <4> QED BY <2>1, <2>3, <4>1 DEF Copied
    <3>2. \A t \in Types : t < nsize => t < i
      BY <1>3, <3>1
    <3> QED BY <1>2, <2>1, <2>3, <3>2 DEF Copied
  <2> QED BY <2>1, <2>2, <2>3
<1>9. CASE copy_open
  <2>1. /\ tpc = "open" /\ tpc' = "copy" /\ i' = i + 1 /\ UNCHANGED <<hp, nsize>>
        /\ retval' = IF <<fname[hp][i], i>> \in disk
                     THEN [retval EXCEPT ![i] = fname[hp][i]] ELSE retval
    BY <1>9 DEF copy_open
  <2>2. i < nsize /\ i \in Types
    BY <1>1, <2>1, SyncTypes DEF DaemonInv, Calls, Connections
  <2>3. fname[hp][i] # NULL
    BY <2>1, <2>2 DEF Copied
  <2>4. fname[hp][i] = date[hp] /\ <<fname[hp][i], i>> \in disk
    BY <1>1, <2>2, <2>3, EntryFile
  <2>5. retval' = [retval EXCEPT ![i] = date[hp]]
    BY <2>1, <2>4
  <2>6. \A t \in Types : t < i + 1 => t < i \/ t = i
    BY <1>3
  <2>7. \A t \in Types : t < i + 1 => retval'[t] = date[hp]
    BY <1>1, <2>1, <2>5, <2>6 DEF Copied
  <2> QED BY <1>2, <2>1, <2>7 DEF Copied
<1> QED BY <1>4, <1>5, <1>6, <1>7, <1>8, <1>9

LEMMA CopiedStep ==
  ASSUME MaxOverrun <= KEEP_FILE_COUNT - 1, \A m, n \in Counts : m = n,
         DaemonInv, DaemonInv', Follows, RingContents, Copied, [LWNext]_lwvars
  PROVE  Copied'
<1>1. ASSUME NEW d \in Dates, NEW t \in Types,
             watcher(d, t) \/ watcher_forced(d, t) \/ watcher_notfound(d, t)
      PROVE  Copied'
  BY <1>1, CopiedPut
<1>2. CASE \/ histget \/ check_one \/ check_done \/ histwait \/ copy_test
           \/ copy_open
  BY <1>2, CopiedCopy
<1>3. CASE \/ accept \/ getcmd_entry \/ getcmd_read \/ getcmd_close
           \/ getcmd_exit \/ send_ok \/ send_failed \/ open_entry \/ remove
  <2>1. nsize' = nsize /\ tpc' \notin {"check", "copy", "open", "send"}
    BY <1>3
    DEF accept, getcmd_entry, getcmd_read, getcmd_close, getcmd_exit, send_ok,
        send_failed, open_entry, remove, tvars
  <2> QED BY <2>1 DEF Copied
<1>4. CASE UNCHANGED <<hvars, tvars>>
  BY <1>4 DEF hvars, tvars, Copied
<1> QED BY <1>1, <1>2, <1>3, <1>4 DEF LWNext, transfer, client, lwvars

\* A call that no step touches keeps its answer.
LEMMA RepliesKept ==
  ASSUME RepliesWhole,
         \A c \in Clients :
           /\ cl'[c].st = "answered" =>
                /\ cl[c].st = "answered" /\ cl'[c].arg = cl[c].arg
                /\ reply'[c] = reply[c]
           /\ cl'[c].st = "opened" /\ cl'[c].cmd = "OPEN" =>
                /\ cl[c].st = "opened" /\ cl[c].cmd = "OPEN"
                /\ cl'[c].arg = cl[c].arg /\ tfd' = tfd /\ served' = served
  PROVE  RepliesWhole'
  BY DEF RepliesWhole

\* The thread answers a jitget with what it has copied, a jitopen with the
\* file of the entry it will remove.
LEMMA RepliesAnswer ==
  ASSUME DaemonInv, RingContents, Copied, RepliesWhole,
         send_ok \/ send_failed \/ open_entry \/ remove
  PROVE  RepliesWhole'
<1>1. /\ RingShape /\ CallsType /\ ThreadType /\ RepliesType /\ Connections
      /\ hp \in Slots /\ nsize \in Int
      /\ \A n \in Counts : n \in Int /\ n <= nsize
      /\ \A c \in Clients : cl[c].st = "opened" => tpc = "getcmd"
      /\ \A t \in Types : t \in Int
  BY SyncTypes DEF DaemonInv, Calls, ThreadType, Copied, Connections
<1>2. CASE send_ok
  <2>1. tpc = "send" /\ sock \in Clients /\ tfd' = tfd
    BY <1>1, <1>2 DEF send_ok, ThreadType
  <2>2. CASE alive[sock]
    <3>1. /\ reply' = [reply EXCEPT ![sock] =
                         [date |-> date[hp], part |-> retval]]
          /\ cl' = [cl EXCEPT ![sock].st = "answered"]
      BY <1>2, <2>2 DEF send_ok
    <3>2. /\ cl'[sock].st = "answered" /\ cl'[sock].arg = cl[sock].arg
          /\ \A b \in Clients : b # sock => cl'[b] = cl[b]
      BY <1>1, <2>1, <3>1, CallUpdate
    <3>3. /\ reply'[sock] = [date |-> date[hp], part |-> retval]
          /\ \A b \in Clients : b # sock => reply'[b] = reply[b]
      BY <1>1, <2>1, <3>1 DEF RepliesType
    <3>4. reply'[sock].date = date[hp] /\ reply'[sock].part = retval
      BY <3>3
    <3>5. PICK n \in Counts : n = cl[sock].arg
      BY <1>1, <2>1 DEF Connections
    <3>6. n \in Int /\ n <= nsize /\ n <= sync_nsize
      BY <1>1, <3>5, SyncTypes
    <3>7. ASSUME NEW t \in 0..(n - 1)
          PROVE  retval[t] = date[hp]
      <4>1. t \in Types /\ t < nsize
        BY <1>1, <3>6, SyncTypes
      <4> QED BY <2>1, <4>1 DEF Copied
    <3>8. \A t \in 0..(cl'[sock].arg - 1) : reply'[sock].part[t] = reply'[sock].date
      BY <3>2, <3>4, <3>5, <3>7
    <3>9. ASSUME NEW c \in Clients, cl'[c].st = "answered"
          PROVE  \A t \in 0..(cl'[c].arg - 1) : reply'[c].part[t] = reply'[c].date
      BY <3>2, <3>3, <3>8, <3>9 DEF RepliesWhole
    <3>10. \A c \in Clients : cl'[c].st # "opened"
      BY <1>1, <2>1, <3>2
    <3> QED BY <3>9, <3>10 DEF RepliesWhole
  <2>3. CASE ~alive[sock]
    <3>1. Ended /\ reply' = reply
      BY <1>2, <2>3 DEF send_ok
    <3>2. /\ cl'[sock].st = "idle"
          /\ \A b \in Clients : b # sock => cl'[b] = cl[b]
      BY <1>1, <2>1, <3>1, CallEnded
    <3> QED BY <1>1, <2>1, <3>1, <3>2, RepliesKept
  <2> QED BY <2>2, <2>3
<1>3. CASE send_failed
  <2>1. tpc = "send" /\ sock \in Clients /\ Ended /\ reply' = reply
    BY <1>1, <1>3 DEF send_failed, ThreadType
  <2>2. /\ cl'[sock].st = "idle"
        /\ \A b \in Clients : b # sock => cl'[b] = cl[b]
    BY <1>1, <2>1, CallEnded
  <2> QED BY <1>1, <2>1, <2>2, RepliesKept
<1>4. CASE open_entry
  <2>0. tpc = "openentry" /\ sock \in Clients /\ reply' = reply
        /\ cl[sock].cmd = "OPEN" /\ cl[sock].arg \in Types
    BY <1>1, <1>4, SyncTypes DEF open_entry, ThreadType, Connections
  <2>1. CASE fname[hp][cl[sock].arg] = NULL
    BY <1>4, <2>0, <2>1, RepliesKept DEF open_entry
  <2>2. CASE fname[hp][cl[sock].arg] # NULL
    <3>1. /\ served' = date[hp]
          /\ tfd' = IF <<fname[hp][cl[sock].arg], cl[sock].arg>> \in disk
                    THEN <<fname[hp][cl[sock].arg], cl[sock].arg>> ELSE <<>>
          /\ cl' = [cl EXCEPT ![sock].st =
                      IF alive[sock] THEN "opened" ELSE "reset"]
      BY <1>4, <2>2 DEF open_entry
    <3>2. tfd' = <<served', cl[sock].arg>>
      BY <1>1, <2>0, <2>2, <3>1, EntryFile
    <3>3. /\ cl'[sock].st \in {"opened", "reset"} /\ cl'[sock].arg = cl[sock].arg
          /\ \A b \in Clients : b # sock => cl'[b] = cl[b]
      <4>1. CASE alive[sock]
        BY <1>1, <2>0, <3>1, <4>1, CallUpdate
      <4>2. CASE ~alive[sock]
        BY <1>1, <2>0, <3>1, <4>2, CallUpdate
      <4> QED BY <4>1, <4>2
    <3>4. \A c \in Clients : cl'[c].st = "opened" => c = sock
      BY <1>1, <2>0, <3>3
    <3>5. \A c \in Clients : cl'[c].st = "answered" =>
            cl[c].st = "answered" /\ cl'[c] = cl[c] /\ reply'[c] = reply[c]
      BY <2>0, <3>3
    <3> QED BY <3>2, <3>3, <3>4, <3>5 DEF RepliesWhole
  <2> QED BY <2>1, <2>2
<1>5. CASE remove
  <2>1. /\ tpc = "remove" /\ sock \in Clients /\ reply' = reply
        /\ Ended \/ cl' = cl
    BY <1>1, <1>5 DEF remove, ThreadType
  <2>2. \A c \in Clients : cl'[c] = cl[c] \/ cl'[c].st = "idle"
    BY <1>1, <2>1, CallEnded
  <2> QED BY <1>1, <2>1, <2>2, RepliesKept
<1> QED BY <1>2, <1>3, <1>4, <1>5

LEMMA RepliesStep ==
  ASSUME DaemonInv, RingContents, Copied, RepliesWhole, [LWNext]_lwvars
  PROVE  RepliesWhole'
<1>1. CallsType /\ ThreadType /\ Connections
  BY DEF DaemonInv, Calls
<1>2. ASSUME NEW d \in Dates, NEW t \in Types,
             watcher(d, t) \/ watcher_forced(d, t) \/ watcher_notfound(d, t)
      PROVE  RepliesWhole'
  BY <1>2, WatcherStep, RepliesKept DEF cvars
<1>3. CASE send_ok \/ send_failed \/ open_entry \/ remove
  BY <1>3, RepliesAnswer
<1>4. CASE getcmd_entry \/ getcmd_close \/ histget \/ check_one \/ check_done
           \/ histwait \/ copy_test \/ copy_open
  BY <1>4, RepliesKept
  DEF getcmd_entry, getcmd_close, histget, check_one, check_done, histwait,
      copy_test, copy_open, cvars
<1>5. CASE accept
  <2>1. tpc = "accept" /\ cl' = cl /\ reply' = reply
    BY <1>5 DEF accept
  <2>2. \A c \in Clients : cl[c].st # "opened"
    BY <1>1, <2>1 DEF Connections
  <2> QED BY <2>1, <2>2, RepliesKept
<1>6. CASE getcmd_read
  <2>1. /\ UNCHANGED <<tvars, reply>> /\ cl[sock].cmd = "READ"
        /\ sock \in Clients
        /\ cl' = [cl EXCEPT ![sock].st =
                    IF alive[sock] THEN "opened" ELSE "reset"]
    BY <1>1, <1>6 DEF getcmd_read, ThreadType
  <2>2. /\ cl'[sock].st \in {"opened", "reset"} /\ cl'[sock].cmd = "READ"
        /\ \A b \in Clients : b # sock => cl'[b] = cl[b]
    <3>1. CASE alive[sock]
      BY <1>1, <2>1, <3>1, CallUpdate
    <3>2. CASE ~alive[sock]
      BY <1>1, <2>1, <3>2, CallUpdate
    <3> QED BY <3>1, <3>2
  <2> QED BY <2>1, <2>2, RepliesKept DEF tvars
<1>7. CASE getcmd_exit
  <2>1. Ended /\ sock \in Clients /\ UNCHANGED <<tfd, served, reply>>
    BY <1>1, <1>7 DEF getcmd_exit, ThreadType
  <2>2. /\ cl'[sock].st = "idle"
        /\ \A b \in Clients : b # sock => cl'[b] = cl[b]
    BY <1>1, <2>1, CallEnded
  <2> QED BY <2>1, <2>2, RepliesKept
<1>8. ASSUME NEW c \in Clients, client(c)
      PROVE  RepliesWhole'
  <2>1. /\ UNCHANGED <<tfd, served, reply>>
        /\ \A b \in Clients : b # c => cl'[b] = cl[b]
        /\ cl'[c].st \in {"connected", "asked", "idle"} \/ cl' = cl
    BY <1>1, <1>8, ClientStep DEF tvars
  <2> QED BY <2>1, RepliesKept
<1>9. CASE UNCHANGED lwvars
  BY <1>9, RepliesKept DEF lwvars, tvars, cvars
<1> QED BY <1>2, <1>3, <1>4, <1>5, <1>6, <1>7, <1>8, <1>9
        DEF LWNext, transfer

LEMMA CopiedInit == LWInit => Copied /\ RepliesWhole
<1> SUFFICES ASSUME LWInit PROVE Copied /\ RepliesWhole
  OBVIOUS
<1>1. nsize = sync_nsize /\ tpc = "accept"
      /\ \A c \in Clients : cl[c].st = "idle"
  BY DEF LWInit, Idle
<1>2. Copied
  BY <1>1, SyncTypes DEF Copied
<1> QED BY <1>1, <1>2 DEF RepliesWhole

\* A jitget is one observation, whole and of the date announced, and a jitopen
\* opens the file of the entry that jitclose will remove, although the thread
\* reads the entry with no lock: with arrivals at most one entry late, every
\* application asking for the same number of files (a smaller request shortens
\* the replies of all that follow) and fewer than KEEP_FILE_COUNT entries given
\* up while the thread works on one.
THEOREM RepliesAreWhole ==
  ASSUME Late <= 1, MaxOverrun <= KEEP_FILE_COUNT - 1,
         \A m, n \in Counts : m = n
  PROVE  LWSpec => []RepliesWhole
<1>1. DaemonInv /\ DaemonInv' /\ Follows /\ RingContents
        /\ (Copied /\ RepliesWhole) /\ [LWNext]_lwvars
        => (Copied /\ RepliesWhole)'
  BY CopiedStep, RepliesStep
<1>2. HistSpec => [](RingShape /\ RingContents)
  BY ContentsInvariant
<1> QED BY <1>1, <1>2, CopiedInit, DaemonInvariant, FollowsInvariant,
           DaemonIsHistory, PTL DEF LWSpec
=============================================================================
