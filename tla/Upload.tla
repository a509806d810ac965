------------------------------- MODULE Upload -------------------------------
(***************************************************************************)
(* Sending by http: the program http_put posts a form with a file, and the *)
(* callbacks of http_daemon.c store it.  libmicrohttpd, external, runs one *)
(* thread: it takes what has come on any connection, cuts the form into    *)
(* chunks with its post processor and calls post_progress for each.        *)
(*                                                                         *)
(* A file is Cells cells long; cell <<f, i>> is the i-th one of file f.    *)
(* The last cells written wait in the buffer of stdio until fclose.        *)
(* MHD keeps the name of the present file for itself and frees it with the *)
(* next part of the form, so what cntxt->fname points to then is open.     *)
(***************************************************************************)
EXTENDS Integers, FiniteSets, SequencesExt

CONSTANTS Uploads,   \* requests, one connection each
          Form,      \* Form[u]: the files of request u, one with http_put
          Cells,     \* length of a file
          MaxChunk,  \* longest chunk, in cells
          MaxOpen,   \* files the daemon can have open
          BUFSIZ,    \* cells that may wait in the buffer of an open file
          DiskFills  \* whether writes may fail

FilesSent == UNION {Range(Form[u]) : u \in Uploads}
NotOpen == "not open"
Stale == "closed"

\* The requests send different files.
ASSUME UploadAssumption ==
  /\ Form \in [Uploads -> Seq(FilesSent)]
  /\ \A u \in Uploads : IsInjective(Form[u])
  /\ \A u, v \in Uploads : u # v => Range(Form[u]) \cap Range(Form[v]) = {}
  /\ {NotOpen, Stale} \cap FilesSent = {}
  /\ {Cells, MaxChunk, MaxOpen, BUFSIZ} \subseteq Nat \ {0}
  /\ DiskFills \in BOOLEAN

VARIABLES
  httpd,    \* "runs", "loops" in post_progress, or "broken" by a second fclose
  conn,     \* conn[u]: "new", "open", "done" (answered) or "gone"
  sent,     \* sent[u]: number of the file under way, and cells sent of it
  fp,       \* cntxt->fp: a file, NotOpen or, after an fclose, Stale
  stopped,  \* post_progress has returned MHD_NO, the rest is not passed on
  stored,   \* stored[f]: the cells written to file f
  closed    \* closed[f]: "not yet", "all written", or "cut short" by a
            \* flush that failed

uvars == <<httpd, conn, sent, fp, stopped, stored, closed>>

UInit ==
  /\ httpd = "runs"
  /\ conn = [u \in Uploads |-> "new"]
  /\ sent = [u \in Uploads |-> <<1, 0>>]
  /\ fp = [u \in Uploads |-> NotOpen]
  /\ stopped = [u \in Uploads |-> FALSE]
  /\ stored = [f \in FilesSent |-> <<>>]
  /\ closed = [f \in FilesSent |-> "not yet"]

\* Mutant: the context is static.
Context_static(u) == CHOOSE v \in Uploads : TRUE

\* The context of a request, kept at its con_cls.
Context(u) == u

Current(u) == Form[u][sent[u][1]]

Chunk(u, n) == [i \in 1..n |-> <<Current(u), sent[u][2] + i>>]

-----------------------------------------------------------------------------
(* post_progress.                                                          *)

\* fwrite(data, size, 1, fp) returns 1, one item, and the loop goes on with
\* one byte less: the chunk is written again and again, each time shorter.
Fwrite(data) ==
  FlattenSeq([j \in 1..Len(data) |-> SubSeq(data, 1, Len(data) + 1 - j)])

Open == {u \in Uploads : fp[u] \in FilesSent}

\* fclose writes what waits in the buffer.  On a full disk it fails and some
\* of that is lost, at the end of the file; the file is closed all the same.
FlushFails(f) ==
  /\ DiskFills
  /\ \E k \in 0..(Len(stored[f]) - 1) :
       /\ Len(stored[f]) - k <= BUFSIZ
       /\ stored' = [stored EXCEPT ![f] = SubSeq(@, 1, k)]
  /\ closed' = [closed EXCEPT ![f] = "cut short"]

\* The first chunk creates the file.
FirstFile(u, n) ==
  /\ fp[Context(u)] = NotOpen
  /\ Cardinality(Open) < MaxOpen
  /\ fp' = [fp EXCEPT ![Context(u)] = Current(u)]
  /\ stored' = [stored EXCEPT ![Current(u)] = Fwrite(Chunk(u, n))]
  /\ closed' = [closed EXCEPT ![Current(u)] = "not yet"]
  /\ UNCHANGED stopped

\* fopen fails when no more files can be open (here the name of a first file
\* is good and its directory has room); the context is left alone.
NoFirstFile(u, n) ==
  /\ fp[Context(u)] = NotOpen
  /\ Cardinality(Open) >= MaxOpen
  /\ stopped' = [stopped EXCEPT ![u] = TRUE]
  /\ UNCHANGED <<fp, stored, closed>>

\* Another file of the same form, if its name is seen to differ: the one
\* before is closed and the new one opened.
NextFile(u, n) ==
  /\ fp[Context(u)] \in FilesSent /\ sent[u] = <<sent[u][1], 0>>
  /\ sent[u][1] > 1
  /\ fp' = [fp EXCEPT ![Context(u)] = Current(u)]
  /\ stored' = [stored EXCEPT ![Current(u)] = Fwrite(Chunk(u, n))]
  /\ closed' = [closed EXCEPT ![fp[Context(u)]] = "all written",
                              ![Current(u)] = "not yet"]
  /\ UNCHANGED stopped

\* Either call may fail, fopen only of a bad name, a slot having just been
\* given back; the context keeps what was closed.
NoNextFile(u, n) ==
  /\ fp[Context(u)] \in FilesSent /\ sent[u] = <<sent[u][1], 0>>
  /\ sent[u][1] > 1
  /\ fp' = [fp EXCEPT ![Context(u)] = Stale]
  /\ stopped' = [stopped EXCEPT ![u] = TRUE]
  /\ \/ FlushFails(fp[Context(u)])
     \/ /\ closed' = [closed EXCEPT ![fp[Context(u)]] = "all written"]
        /\ UNCHANGED stored

\* More of the file that is open.  A next file whose name is not seen to
\* differ goes there as well.
SameFile(u, n) ==
  /\ fp[Context(u)] \in FilesSent
  /\ stored' = [stored EXCEPT ![fp[Context(u)]] = @ \o Fwrite(Chunk(u, n))]
  /\ UNCHANGED <<fp, stopped, closed>>

post_progress(u, n) ==
  \/ FirstFile(u, n) \/ NoFirstFile(u, n)
  \/ NextFile(u, n) \/ NoNextFile(u, n) \/ SameFile(u, n)

-----------------------------------------------------------------------------
(* The handler.                                                            *)

\* The first call for a request makes its context.
uploadfile_first(u) ==
  /\ httpd = "runs" /\ conn[u] = "new"
  /\ conn' = [conn EXCEPT ![u] = "open"]
  /\ UNCHANGED <<httpd, sent, fp, stopped, stored, closed>>

\* A chunk has come.  What MHD_post_process returns is not looked at.
uploadfile_data(u, n) ==
  /\ httpd = "runs" /\ conn[u] = "open"
  /\ sent[u][1] <= Len(Form[u]) /\ sent[u][2] + n <= Cells
  /\ sent' = [sent EXCEPT ![u] = IF sent[u][2] + n = Cells
                                 THEN <<sent[u][1] + 1, 0>>
                                 ELSE <<sent[u][1], sent[u][2] + n>>]
  /\ IF stopped[u] THEN UNCHANGED <<fp, stopped, stored, closed>>
                   ELSE post_progress(u, n)
  /\ UNCHANGED <<httpd, conn>>

\* fwrite returns 0 as long as the buffer is full and cannot be written, and
\* size_t is never negative: the one thread of the daemon stays in the loop.
\* (That somebody makes room on the disk is left out.)
disk_full(u) ==
  /\ DiskFills
  /\ httpd = "runs" /\ conn[u] = "open" /\ ~stopped[u]
  /\ sent[u][1] <= Len(Form[u])
  /\ fp[Context(u)] \in FilesSent \/ Cardinality(Open) < MaxOpen
  /\ httpd' = "loops"
  /\ UNCHANGED <<conn, sent, fp, stopped, stored, closed>>

\* Mutant: the file is flushed and left open.
uploadfile_end_open(u) ==
  /\ httpd = "runs" /\ conn[u] = "open" /\ sent[u][1] > Len(Form[u])
  /\ conn' = [conn EXCEPT ![u] = "done"]
  /\ closed' = [f \in FilesSent |->
                 IF f = fp[Context(u)] THEN "all written" ELSE closed[f]]
  /\ UNCHANGED <<httpd, sent, fp, stopped, stored>>

\* The end of the form: the file is closed and OK is the reply, whatever
\* happened.  That fclose fails is only written to stderr.
uploadfile_end(u) ==
  /\ httpd = "runs" /\ conn[u] = "open" /\ sent[u][1] > Len(Form[u])
  /\ conn' = [conn EXCEPT ![u] = "done"]
  /\ httpd' = IF fp[Context(u)] = Stale THEN "broken" ELSE "runs"
  /\ fp' = [fp EXCEPT ![Context(u)] = NotOpen]
  /\ \/ fp[Context(u)] \in FilesSent /\ FlushFails(fp[Context(u)])
     \/ /\ closed' = [f \in FilesSent |->
                       IF f = fp[Context(u)] THEN "all written" ELSE closed[f]]
        /\ UNCHANGED stored
  /\ UNCHANGED <<sent, stopped>>

\* The client goes away, or nothing comes for CONTIMEOUT seconds: reqcomplete
\* writes a line and leaves context and file as they are.
reqcomplete_aborted(u) ==
  /\ httpd = "runs" /\ conn[u] = "open"
  /\ conn' = [conn EXCEPT ![u] = "gone"]
  /\ UNCHANGED <<httpd, sent, fp, stopped, stored, closed>>

UNext ==
  \E u \in Uploads :
    \/ uploadfile_first(u) \/ uploadfile_end(u) \/ disk_full(u)
    \/ reqcomplete_aborted(u)
    \/ \E n \in 1..MaxChunk : uploadfile_data(u, n)

USpec == UInit /\ [][UNext]_uvars

-----------------------------------------------------------------------------
(* Properties.                                                             *)

\* A connection has no file before its first cell and none after the end, one
\* of its own form in between; what was closed too early is not written to.
Connected(u) ==
  /\ conn[u] = "new" => sent[u] = <<1, 0>>
  /\ sent[u] = <<1, 0>> => fp[u] = NotOpen
  /\ conn[u] = "done" => sent[u][1] > Len(Form[u]) /\ fp[u] = NotOpen
  /\ fp[u] = Stale => stopped[u]
  /\ fp[u] \in FilesSent => fp[u] \in Range(Form[u])

UTypeOK ==
  /\ httpd \in {"runs", "loops", "broken"}
  /\ conn \in [Uploads -> {"new", "open", "done", "gone"}]
  /\ \A u \in Uploads :
       sent[u] \in (1..(Len(Form[u]) + 1)) \X (0..(Cells - 1))
  /\ fp \in [Uploads -> FilesSent \cup {NotOpen, Stale}]
  /\ stopped \in [Uploads -> BOOLEAN]
  /\ \A f \in FilesSent : Range(stored[f]) \subseteq FilesSent \X (1..Cells)
  /\ closed \in [FilesSent -> {"not yet", "all written", "cut short"}]
  /\ \A u \in Uploads : Connected(u)

\* Only cells of file f are there, none before all those in front of it.
InOrder(f) ==
  \A p \in DOMAIN stored[f] :
    /\ stored[f][p][1] = f
    /\ \A i \in 1..stored[f][p][2] : \E q \in 1..p : stored[f][q] = <<f, i>>

Whole(f) == {<<f, i>> : i \in 1..Cells} \subseteq Range(stored[f])

Stored(u) == conn[u] = "done" /\ ~stopped[u] /\ Len(Form[u]) = 1

\* A file that was answered OK is closed, nothing of the requests served
\* meanwhile is in it, its cells are in their order, and only its end can be
\* missing, if the last flush failed.  This is so if it could be opened: when
\* it could not, OK is the answer all the same; and of a form with several
\* files the second may end up in the first.
RepliedIsStored ==
  \A u \in Uploads :
    Stored(u) =>
      LET f == Form[u][1]
      IN  /\ closed[f] # "not yet" /\ InOrder(f)
          /\ closed[f] = "all written" => Whole(f)

\* A file is refused only when MaxOpen other requests hold a file, under way
\* or given up by their client: those are never closed.  Served ones do not
\* count.  (The bad name of a second file is the other reason.)
RefusedWhenFull ==
  [][\A u \in Uploads :
       stopped'[u] /\ ~stopped[u] /\ sent[u][1] = 1 =>
         Cardinality({v \in Uploads \ {u} : conn[v] \in {"open", "gone"}})
           >= MaxOpen]_uvars

\* The file is stored as it was sent.
StoredAsSent ==
  \A u \in Uploads :
    Stored(u) => stored[Form[u][1]] = [i \in 1..Cells |-> <<Form[u][1], i>>]
=============================================================================
