------------------------------ MODULE History ------------------------------
(***************************************************************************)
(* The file history of the client-machine daemon lwatcher (misclib.c): a   *)
(* ring of nhist entries shared by the watcher thread, which registers     *)
(* every file that arrives, and the transfer thread, which hands the       *)
(* oldest pending entry to an application.                                 *)
(*                                                                         *)
(* A file is identified by its date and its type; fname[s][t] is the date  *)
(* written in the path that slot s holds for type t, 0 for a null pointer. *)
(* So fname[s][t] # date[s] says that slot s would hand out, under its own *)
(* date, a file of another one.                                            *)
(*                                                                         *)
(* Late bounds how old an arrival may be: no file carries a date that the  *)
(* ring recorded more than Late entries before the newest one.             *)
(***************************************************************************)
EXTENDS Integers, Sequences

CONSTANTS nh,      \* the -h option: requested number of entries
          Types,   \* indices of the sync types, 0 .. sync_nsize() - 1
          Dates,   \* observation dates
          Late     \* bound on the lateness of an arrival, in entries

KEEP_FILE_COUNT == 3
MAX_HISTORY == 20    \* length of the array history
FNAME_MAX == 3       \* length of the array fname of an entry
NULL == 0

\* The code checks neither that the option is within the array nor, exactly,
\* that the configuration has no more than FNAME_MAX sync types.
ASSUME HistoryAssumption ==
  /\ nh \in Int /\ nh <= MAX_HISTORY
  /\ \E n \in 1..FNAME_MAX : Types = 0..(n - 1)
  /\ Dates \subseteq Nat \ {NULL}
  /\ Late \in Nat

\* histinit: too short a history is lengthened.
nhist == IF nh <= KEEP_FILE_COUNT + 1 THEN KEEP_FILE_COUNT + 2 ELSE nh

VARIABLES date,       \* history[s].date
          fname,      \* history[s].fname[t]
          prodhistp,  \* slot of the newest date
          conshistp,  \* slot of the oldest pending date
          numhist,    \* number of pending dates
          disk        \* the files <<date, type>> that exist

hvars == <<date, fname, prodhistp, conshistp, numhist, disk>>

Slots == 0..(nhist - 1)

\* UPDATE_POINTER, and REWIND_POINTER applied k times.
Succ(v) == (v + 1) % nhist
Behind(v, k) == (v + nhist - k) % nhist
Back(k) == Behind(prodhistp, k)

\* Mutants: one slot fewer, and one more, is kept behind the reader.
VictimNear(c) == Behind(c, KEEP_FILE_COUNT - 1)
VictimFar(c) == Behind(c, KEEP_FILE_COUNT + 1)

\* The slot that _histremove empties once conshistp has become c.
Victim(c) == Behind(c, KEEP_FILE_COUNT)

Empty == [t \in Types |-> NULL]
Files(s) == {<<fname[s][t], t>> : t \in {u \in Types : fname[s][u] # NULL}}

HistInit ==
  /\ date = [s \in Slots |-> 0]
  /\ fname = [s \in Slots |-> Empty]
  /\ prodhistp = 0 /\ conshistp = 0 /\ numhist = 0
  /\ disk = {}

-----------------------------------------------------------------------------
\* Mutants: the entry's pointers are not set back to null ...
histremove_nonull ==
  /\ conshistp' = Succ(conshistp)
  /\ numhist' = numhist - 1
  /\ disk' = disk \ Files(Victim(conshistp'))
  /\ UNCHANGED <<date, fname, prodhistp>>

\* ... or the consumer pointer stays.
histremove_stay ==
  /\ numhist' = numhist - 1
  /\ fname' = [fname EXCEPT ![Victim(conshistp)] = Empty]
  /\ disk' = disk \ Files(Victim(conshistp))
  /\ UNCHANGED <<date, prodhistp, conshistp>>

\* histremove: the consumer pointer moves on, and the entry that falls
\* KEEP_FILE_COUNT behind it loses its files, not its date.
histremove ==
  /\ conshistp' = Succ(conshistp)
  /\ numhist' = numhist - 1
  /\ fname' = [fname EXCEPT ![Victim(conshistp')] = Empty]
  /\ disk' = disk \ Files(Victim(conshistp'))
  /\ UNCHANGED <<date, prodhistp>>

-----------------------------------------------------------------------------
(* histput(path, d, t), by the relation of d to the newest date.           *)

\* Another file of the newest date.
PutSame(d, t) ==
  /\ d = date[prodhistp]
  /\ fname' = [fname EXCEPT ![prodhistp][t] = d]
  /\ disk' = disk \cup {<<d, t>>}
  /\ UNCHANGED <<date, prodhistp, conshistp, numhist>>

\* The slot a new date takes: the very first one stays where it is.
NewSlot == IF date[prodhistp] # 0 THEN Succ(prodhistp) ELSE prodhistp

\* Mutants: the room is taken for one entry more ...
PutNew_over(d, t) ==
  /\ d > date[prodhistp]
  /\ numhist + 1 <= nhist - KEEP_FILE_COUNT + 1
  /\ prodhistp' = NewSlot
  /\ numhist' = numhist + 1
  /\ date' = [date EXCEPT ![prodhistp'] = d]
  /\ fname' = [fname EXCEPT ![prodhistp'][t] = d]
  /\ disk' = disk \cup {<<d, t>>}
  /\ UNCHANGED conshistp

\* ... or a second file of the newest date opens an entry of its own.
PutNew_again(d, t) ==
  /\ d >= date[prodhistp]
  /\ numhist + 1 <= nhist - KEEP_FILE_COUNT
  /\ prodhistp' = NewSlot
  /\ numhist' = numhist + 1
  /\ date' = [date EXCEPT ![prodhistp'] = d]
  /\ fname' = [fname EXCEPT ![prodhistp'][t] = d]
  /\ disk' = disk \cup {<<d, t>>}
  /\ UNCHANGED conshistp

\* A new date, with room for it.
PutNew(d, t) ==
  /\ d > date[prodhistp]
  /\ numhist + 1 <= nhist - KEEP_FILE_COUNT
  /\ prodhistp' = NewSlot
  /\ numhist' = numhist + 1
  /\ date' = [date EXCEPT ![prodhistp'] = d]
  /\ fname' = [fname EXCEPT ![prodhistp'][t] = d]
  /\ disk' = disk \cup {<<d, t>>}
  /\ UNCHANGED conshistp

\* Mutants: the consumer pointer is left behind ...
PutForced_stay(d, t) ==
  /\ d > date[prodhistp]
  /\ numhist + 1 > nhist - KEEP_FILE_COUNT
  /\ prodhistp' = NewSlot
  /\ date' = [date EXCEPT ![prodhistp'] = d]
  /\ fname' = [[fname EXCEPT ![Victim(conshistp)] = Empty]
                 EXCEPT ![prodhistp'][t] = d]
  /\ disk' = (disk \cup {<<d, t>>}) \ Files(Victim(conshistp))
  /\ UNCHANGED <<conshistp, numhist>>

\* ... or an entry is given up while there still is room for one.
PutForced_early(d, t) ==
  /\ d > date[prodhistp]
  /\ numhist + 1 >= nhist - KEEP_FILE_COUNT
  /\ prodhistp' = NewSlot
  /\ conshistp' = Succ(conshistp)
  /\ date' = [date EXCEPT ![prodhistp'] = d]
  /\ fname' = [[fname EXCEPT ![Victim(conshistp')] = Empty]
                 EXCEPT ![prodhistp'][t] = d]
  /\ disk' = (disk \cup {<<d, t>>}) \ Files(Victim(conshistp'))
  /\ UNCHANGED numhist

\* A new date and no room: the oldest pending entry is given up first.
PutForced(d, t) ==
  /\ d > date[prodhistp]
  /\ numhist + 1 > nhist - KEEP_FILE_COUNT
  /\ prodhistp' = NewSlot
  /\ conshistp' = Succ(conshistp)
  /\ date' = [date EXCEPT ![prodhistp'] = d]
  /\ fname' = [[fname EXCEPT ![Victim(conshistp')] = Empty]
                 EXCEPT ![prodhistp'][t] = d]
  /\ disk' = (disk \cup {<<d, t>>}) \ Files(Victim(conshistp'))
  /\ UNCHANGED numhist

\* How far behind the newest entry the search finds date d, nhist if nowhere.
Distance(d) ==
  IF \E k \in 1..(nhist - 1) : date[Back(k)] = d
  THEN CHOOSE k \in 1..(nhist - 1) :
         /\ date[Back(k)] = d
         /\ \A j \in 1..(k - 1) : date[Back(j)] # d
  ELSE nhist

\* A late file of a date that the ring still records.
PutLate(d, t) ==
  /\ d < date[prodhistp]
  /\ Distance(d) < nhist
  /\ fname' = [fname EXCEPT ![Back(Distance(d))][t] = d]
  /\ disk' = disk \cup {<<d, t>>}
  /\ UNCHANGED <<date, prodhistp, conshistp, numhist>>

\* Mutant: the file that finds no entry is not unlinked.
PutNotFound_keep(d, t) ==
  /\ d < date[prodhistp]
  /\ Distance(d) = nhist
  /\ disk' = disk \cup {<<d, t>>}
  /\ UNCHANGED <<date, fname, prodhistp, conshistp, numhist>>

\* A late file of a date the ring has forgotten, or never had: unlinked.
PutNotFound(d, t) ==
  /\ d < date[prodhistp]
  /\ Distance(d) = nhist
  /\ disk' = disk \ {<<d, t>>}
  /\ UNCHANGED <<date, fname, prodhistp, conshistp, numhist>>

histput(d, t) ==
  \/ PutSame(d, t)
  \/ PutNew(d, t)
  \/ PutForced(d, t)
  \/ PutLate(d, t)
  \/ PutNotFound(d, t)

-----------------------------------------------------------------------------
\* The arrivals considered: none is recorded more than Late entries back.
Timely(d) == \A k \in (Late + 1)..(nhist - 1) : date[Back(k)] # d

\* The ring on its own: arrivals in any order within Late, and a reader
\* that removes an entry only after histget found one.
HistNext ==
  \/ \E d \in Dates, t \in Types : Timely(d) /\ histput(d, t)
  \/ numhist > 0 /\ histremove

HistSpec == HistInit /\ [][HistNext]_hvars

-----------------------------------------------------------------------------
(* Properties.                                                             *)

HistTypeOK ==
  /\ date \in [Slots -> Dates \cup {0}]
  /\ fname \in [Slots -> [Types -> Dates \cup {NULL}]]
  /\ prodhistp \in Slots /\ conshistp \in Slots
  /\ numhist \in 0..(nhist - KEEP_FILE_COUNT)
  /\ disk \subseteq Dates \X Types

\* The reader's pointer stays numhist - 1 entries behind the writer's: the
\* pending entries are exactly the slots conshistp .. prodhistp, although
\* histremove and the forced removal move the two pointers independently.
PointersAgree ==
  date[prodhistp] # 0 => conshistp = Succ(Back(numhist))

\* Going back from prodhistp the ring records ever older dates, so the
\* backward search of histput can find a date in one slot only.
DatesDescend ==
  \A j, k \in 0..(nhist - 1) :
    j < k => date[Back(k)] = 0 \/ date[Back(k)] < date[Back(j)]

\* Nothing has happened yet, as long as the newest date is 0.
Fresh ==
  date[prodhistp] = 0 =>
    /\ conshistp = prodhistp /\ numhist = 0
    /\ \A s \in Slots : date[s] = 0 /\ fname[s] = Empty

\* histput does not clear the slot it opens for a new date (the farthest one
\* back); it relies on removals having emptied that slot, and every slot from
\* there to KEEP_FILE_COUNT behind the reader, and on nobody filling it since.
SlotsAheadEmpty ==
  \A k \in (numhist + KEEP_FILE_COUNT - 1)..(nhist - 1) : fname[Back(k)] = Empty

\* An entry holds only files of its own date: what the application gets for
\* one date is never mixed with another date's data.
OneDatePerEntry ==
  \A s \in Slots, t \in Types : fname[s][t] \in {NULL, date[s]}

\* No file is lost by the bookkeeping: every file on disk is registered, to be
\* unlinked in time, and every registered file is on disk, to be opened.
DiskIsRegistered == disk = UNION {Files(s) : s \in Slots}

\* What KEEP_FILE_COUNT is for: no step unlinks a file of a pending date, nor
\* of the last two dates the reader is done with and may still be reading.
KeepsRecent ==
  [][\A f \in disk \ disk' :
       \A k \in 0..(numhist' + 1) : date'[Back(k)'] # f[1]]_hvars

\* The inductive invariant: the shape of the ring holds whatever arrives, its
\* contents only for arrivals that are at most one entry late.
RingShape == HistTypeOK /\ PointersAgree /\ DatesDescend /\ Fresh
RingContents == SlotsAheadEmpty /\ OneDatePerEntry /\ DiskIsRegistered

-----------------------------------------------------------------------------
\* The ring implements the bounded queue of pending dates.
Pending ==
  [i \in 1..numhist |->
     LET s == (conshistp + i - 1) % nhist
     IN  [date |-> date[s], types |-> {t \in Types : fname[s][t] # NULL}]]

Abstract == INSTANCE DateQueue
  WITH queue <- Pending, newest <- date[prodhistp],
       Capacity <- nhist - KEEP_FILE_COUNT

\* Every behaviour of the ring is one of the queue: no pending date is lost,
\* repeated or reordered, and only a full queue gives up its oldest date.
ImplementsQueue == Abstract!Spec
=============================================================================
