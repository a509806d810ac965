------------------------------ MODULE KHistory ------------------------------
(***************************************************************************)
(* The file history of the daemon kwatcher (kwatcher.c): mkhist renames    *)
(* every file announced to it, registers it in a ring of nhist entries and *)
(* returns the entry once a file of every sync type is there.              *)
(*                                                                         *)
(* A file is identified by its date and its type, as in History.           *)
(* fname[s][t] is the date in the name that slot s holds for type t.  Late *)
(* bounds how many recorded dates may be newer than an arrival's.          *)
(***************************************************************************)
EXTENDS Integers, FiniteSets

CONSTANTS nhist,   \* number of entries, the -h option
          Types,   \* indices of the sync types, 0 .. sync_nsize() - 1
          Dates,   \* observation dates
          Late     \* bound on the lateness of an arrival, in entries

MAX_HISTORY == 5
FNAME_MAX == 3
NULL == 0

\* mkhist exits when there are more sync types than FNAME_MAX; nothing checks
\* the option against the length of the array.
ASSUME KHistoryAssumption ==
  /\ nhist \in 2..MAX_HISTORY
  /\ \E n \in 1..FNAME_MAX : Types = 0..(n - 1)
  /\ Dates \subseteq Nat \ {NULL}
  /\ Late \in Nat

VARIABLES date,      \* history[s].date
          fname,     \* history[s].fname[t]
          curhistp,  \* slot of the entry last worked on
          disk,      \* the files <<date, type>> of the data directory
          files      \* date of the entry mkhist returned last, NULL for none

khvars == <<date, fname, curhistp, disk, files>>

Slots == 0..(nhist - 1)

\* Mutant: the last slot is never used.
Succ_short(v) == (v + 1) % (nhist - 1)

Succ(v) == (v + 1) % nhist
Before(v, k) == (v + 2 * nhist - k) % nhist

Empty == [t \in Types |-> NULL]
FilesOf(s) == {<<fname[s][t], t>> : t \in {u \in Types : fname[s][u] # NULL}}
Full(s) == \A t \in Types : fname[s][t] # NULL

KHistInit ==
  /\ date = [s \in Slots |-> 0]
  /\ fname = [s \in Slots |-> Empty]
  /\ curhistp = 0 /\ disk = {} /\ files = NULL

-----------------------------------------------------------------------------
(* mkhist(path, d, t), once the file has been renamed.                     *)

\* The label retry: another file of the date of slot q.  The pointer stays on
\* slot q, also when the search for a late file has led there.
Register(q, d, t) ==
  /\ curhistp' = q
  /\ disk' = disk \cup {<<d, t>>}
  /\ IF fname[q][t] # NULL
     THEN fname' = fname /\ files' = NULL
     ELSE /\ fname' = [fname EXCEPT ![q][t] = d]
          /\ files' = IF \E u \in Types \ {t} : fname[q][u] = NULL
                      THEN NULL ELSE d
  /\ UNCHANGED date

MkSame(d, t) ==
  /\ d = date[curhistp]
  /\ Register(curhistp, d, t)

\* A late file: the one or two entries before are searched.
Found(d) == {k \in 1..2 : date[Before(curhistp, k)] = d}

MkLate(d, t) ==
  /\ d < date[curhistp]
  /\ \E k \in Found(d) :
       /\ \A j \in Found(d) : k <= j
       /\ Register(Before(curhistp, k), d, t)

\* Mutant: a file of the current date opens an entry as well.
Unknown_same(d) == d >= date[curhistp] \/ Found(d) = {}

\* Neither of the current date nor found.
Unknown(d) == d > date[curhistp] \/ (d < date[curhistp] /\ Found(d) = {})

\* It may be in the next slot: the ring has turned back for a late file.
MkAgain(d, t) ==
  /\ Unknown(d) /\ date[Succ(curhistp)] = d
  /\ Register(Succ(curhistp), d, t)

\* Mutants: the next slot keeps its names, its files stay on disk, or the
\* files are removed before the pointer moves on.
MkNew_uncleared(d, t) ==
  /\ Unknown(d) /\ date[Succ(curhistp)] # d
  /\ curhistp' = Succ(curhistp)
  /\ disk' = (disk \cup {<<d, t>>}) \ FilesOf(curhistp')
  /\ date' = [date EXCEPT ![curhistp'] = d]
  /\ fname' = [fname EXCEPT ![curhistp'][t] = d]
  /\ files' = NULL

MkNew_leaks(d, t) ==
  /\ Unknown(d) /\ date[Succ(curhistp)] # d
  /\ curhistp' = Succ(curhistp)
  /\ disk' = disk \cup {<<d, t>>}
  /\ date' = [date EXCEPT ![curhistp'] = d]
  /\ fname' = [fname EXCEPT ![curhistp'] = [Empty EXCEPT ![t] = d]]
  /\ files' = NULL

MkNew_current(d, t) ==
  /\ Unknown(d) /\ date[Succ(curhistp)] # d
  /\ curhistp' = Succ(curhistp)
  /\ disk' = (disk \cup {<<d, t>>}) \ FilesOf(curhistp)
  /\ date' = [date EXCEPT ![curhistp'] = d]
  /\ fname' = [[fname EXCEPT ![curhistp] = Empty] EXCEPT ![curhistp'][t] = d]
  /\ files' = NULL

\* A new entry takes the next slot, whose files are removed.  It is never
\* returned, even if t is the only sync type.
MkNew(d, t) ==
  /\ Unknown(d) /\ date[Succ(curhistp)] # d
  /\ curhistp' = Succ(curhistp)
  /\ disk' = (disk \cup {<<d, t>>}) \ FilesOf(curhistp')
  /\ date' = [date EXCEPT ![curhistp'] = d]
  /\ fname' = [fname EXCEPT ![curhistp'] = [Empty EXCEPT ![t] = d]]
  /\ files' = NULL

mkhist(d, t) ==
  MkSame(d, t) \/ MkLate(d, t) \/ MkAgain(d, t) \/ MkNew(d, t)

-----------------------------------------------------------------------------
Timely(d) == Cardinality({s \in Slots : date[s] > d}) <= Late

KHistNext == \E d \in Dates, t \in Types : Timely(d) /\ mkhist(d, t)

KHistSpec == KHistInit /\ [][KHistNext]_khvars

-----------------------------------------------------------------------------
(* Properties.                                                             *)

KHistTypeOK ==
  /\ date \in [Slots -> Dates \cup {0}]
  /\ fname \in [Slots -> [Types -> Dates \cup {NULL}]]
  /\ curhistp \in Slots
  /\ disk \subseteq Dates \X Types
  /\ files \in Dates \cup {NULL}

\* mkhist never opens a second entry for a date, which would leave both
\* incomplete for ever.
DatesOnce ==
  \A s, u \in Slots : s # u /\ date[s] # 0 => date[s] # date[u]

\* An entry names files of its own date only, although slots are reused.
KOneDate == \A s \in Slots, t \in Types : fname[s][t] \in {NULL, date[s]}

\* Every file of the data directory is in the ring, to be removed in time,
\* and every file the ring names is there, to be read.
KDiskIsRegistered == disk = UNION {FilesOf(s) : s \in Slots}
=============================================================================
