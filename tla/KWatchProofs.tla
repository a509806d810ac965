---------------------------- MODULE KWatchProofs ----------------------------
(***************************************************************************)
(* Proofs about kwatcher, its history, the two READY lock files and the    *)
(* application, for every size of the ring, every set of dates and types   *)
(* and any number of deaths.                                               *)
(***************************************************************************)
EXTENDS KWatch, FiniteSetTheorems, TLAPS

-----------------------------------------------------------------------------
(* The parts of the inductive invariant.                                   *)

\* The call at each control point of the application.
Calls ==
  /\ cpc \in {"lock", "read", "close"} =>
       \/ call.cmd = "GET" /\ call.arg \in Counts
       \/ call.cmd = "OPEN" /\ call.arg \in OpenTypes
  /\ cpc = "files" => call.cmd = "GET" /\ call.arg \in Counts /\ ci < call.arg
  /\ cpc = "opened" => call.cmd = "OPEN" /\ call.arg \in OpenTypes
  /\ kpc = "write" => files # NULL
  /\ deaths \in [{"kwatcher", "app"} -> Nat]

\* Without late files the dates fall from the pointer backwards.
RingFalls ==
  late = 0 =>
    /\ date[curhistp] <= newest
    /\ \A j, k \in 0..(nhist - 1) :
         j < k => \/ date[Before(curhistp, k)] = 0
                  \/ date[Before(curhistp, k)] < date[Before(curhistp, j)]

Alive == deaths["kwatcher"] = 0

\* The ring names the files of the directory, one by one.
Registered ==
  late = 0 /\ Alive =>
    \A x \in Dates, u \in Types :
      <<x, u>> \in disk <=> \E s \in Slots : fname[s][u] = x

\* A date once read is in the lock file until that is nullified.
Reading ==
  /\ cpc \in {"files", "opened"} =>
       cdate = content[CLock] /\ cdate \notin {EMPTY, NONE}
  /\ cpc = "close" => cdate \in {NONE, content[CLock]}

\* kwatcher writes to the two lock files in turn.
InTurn ==
  Alive =>
    /\ content[KLock] \in
         {EMPTY, NONE, IF kpc = "lock" THEN said[1] ELSE said[2]}
    /\ content[ktick] \in
         {EMPTY, NONE, IF kpc = "lock" THEN said[2] ELSE said[1]}

\* A date is written once, and what is written is not taken yet.
SaidOnce ==
  late = 0 /\ Alive =>
    /\ date[curhistp] = newest /\ said[1] <= newest
    /\ said[1] = newest /\ newest # 0 => Full(curhistp)
    /\ kpc = "write" => /\ files = newest /\ said[1] < newest
                        /\ Full(curhistp)
    /\ said[2] < said[1] \/ said[2] = 0
    /\ \A x \in taken : x <= said[1]
    /\ \A l \in Locks : content[l] \notin {EMPTY, NONE} => content[l] \notin taken

\* The observations that can still be read are in the directory.
SaidThere ==
  late = 0 /\ Alive =>
    \A d \in {said[1]} \cup (IF kpc = "lock" THEN {said[2]} ELSE {}) :
      d # 0 => \A t \in Types : <<d, t>> \in disk

\* What jitget has of the observation, and what the other ranks have.
HasRead ==
  late = 0 /\ Alive =>
    /\ cpc \in {"idle", "lock", "read", "opened"} => others = part
    /\ cpc = "close" /\ call.cmd = "OPEN" => others = part
    /\ cpc \in {"files", "bcast"} \/ (cpc = "close" /\ call.cmd = "GET") =>
         others = NoPart
    /\ cpc = "files" =>
         \A t \in Types : part[t] = IF t < ci THEN cdate ELSE NULL
    /\ cpc = "close" /\ call.cmd = "GET" =>
         \A t \in Types : part[t] = IF t < call.arg THEN cdate ELSE NULL
    /\ cpc = "bcast" =>
         \E n \in 0..Cardinality(Types) :
           \A t \in Types : part[t] = IF t < n THEN cdate ELSE NULL

-----------------------------------------------------------------------------
(* The ring.                                                               *)

LEMMA KRingSize ==
  /\ nhist \in Nat /\ nhist >= 2 /\ 0 \in Slots
  /\ \E n \in 1..FNAME_MAX : Types = 0..(n - 1)
  /\ Types \subseteq Nat /\ \A d \in Dates : d \in Nat /\ d > 0
  BY KHistoryAssumption DEF Slots, MAX_HISTORY, FNAME_MAX, NULL

LEMMA KSuccValue ==
  ASSUME NEW v \in Slots
  PROVE  Succ(v) = (IF v = nhist - 1 THEN 0 ELSE v + 1) /\ Succ(v) \in Slots
  BY KRingSize DEF Succ, Slots

LEMMA BeforeValue ==
  ASSUME NEW v \in Slots, NEW k \in 0..(nhist - 1)
  PROVE  /\ Before(v, k) = IF k <= v THEN v - k ELSE v + nhist - k
         /\ Before(v, k) \in Slots
  BY KRingSize DEF Before, Slots

\* Every slot is some number of steps before the pointer.
LEMMA BeforeOnto ==
  ASSUME NEW v \in Slots, NEW s \in Slots
  PROVE  \E k \in 0..(nhist - 1) : Before(v, k) = s
<1> DEFINE k == IF s <= v THEN v - s ELSE v + nhist - s
<1>1. k \in 0..(nhist - 1)
  BY KRingSize DEF Slots
<1>2. Before(v, k) = IF k <= v THEN v - k ELSE v + nhist - k
  BY <1>1, BeforeValue
<1>3. Before(v, k) = s
  BY <1>2, KRingSize DEF Slots
<1> QED BY <1>1, <1>3

\* Seen from the next slot, that slot comes first and every other one a step
\* later; from here the next slot is the last one.
LEMMA BeforeSucc ==
  ASSUME NEW v \in Slots
  PROVE  /\ Before(v, 0) = v /\ Before(v, nhist - 1) = Succ(v)
         /\ \A k \in 1..(nhist - 1) : Before(Succ(v), k) = Before(v, k - 1)
         /\ \A k \in 0..(nhist - 2) : Before(v, k) # Succ(v)
<1>1. PICK w \in Slots :
        w = Succ(v) /\ w = IF v = nhist - 1 THEN 0 ELSE v + 1
  BY KSuccValue
<1>2. \A k \in 0..(nhist - 1) :
        /\ Before(v, k) = IF k <= v THEN v - k ELSE v + nhist - k
        /\ Before(w, k) = IF k <= w THEN w - k ELSE w + nhist - k
  BY BeforeValue
<1>3. Before(v, 0) = v /\ Before(v, nhist - 1) = w
  BY <1>1, <1>2, KRingSize DEF Slots
<1>4. ASSUME NEW k \in 1..(nhist - 1)
      PROVE  Before(w, k) = Before(v, k - 1)
  <2>1. k \in 0..(nhist - 1) /\ k - 1 \in 0..(nhist - 1)
    BY KRingSize
  <2> QED BY <1>1, <1>2, <2>1, KRingSize DEF Slots
<1>5. ASSUME NEW k \in 0..(nhist - 2)
      PROVE  Before(v, k) # w
  <2>1. k \in 0..(nhist - 1)
    BY KRingSize
  <2> QED BY <1>1, <1>2, <2>1, KRingSize DEF Slots
<1> QED BY <1>1, <1>3, <1>4, <1>5

-----------------------------------------------------------------------------
(* mkhist.                                                                 *)

\* mkhist registers a file with an entry of its date or opens a new one.
LEMMA MkhistCases ==
  ASSUME KHistTypeOK, NEW d \in Dates, NEW t \in Types, mkhist(d, t)
  PROVE  (\E q \in Slots : date[q] = d /\ Register(q, d, t)) \/ MkNew(d, t)
<1>1. curhistp \in Slots
  BY DEF KHistTypeOK
<1>2. CASE MkSame(d, t)
  BY <1>1, <1>2 DEF MkSame
<1>3. CASE MkLate(d, t)
  <2>1. PICK k \in Found(d) : Register(Before(curhistp, k), d, t)
    BY <1>3 DEF MkLate
  <2>2. Before(curhistp, k) \in Slots
    BY <1>1, <2>1, KRingSize DEF Before, Slots, Found
  <2> QED BY <2>1, <2>2 DEF Found
<1>4. CASE MkAgain(d, t)
  BY <1>1, <1>4, KSuccValue DEF MkAgain
<1>5. CASE MkNew(d, t)
  BY <1>5
<1> QED BY <1>2, <1>3, <1>4, <1>5 DEF mkhist

LEMMA MkhistType ==
  ASSUME KHistTypeOK, NEW d \in Dates, NEW t \in Types, mkhist(d, t)
  PROVE  /\ KHistTypeOK'
         /\ disk' \subseteq disk \cup {<<d, t>>}
<1> USE DEF KHistTypeOK
<1>1. ASSUME NEW q \in Slots, Register(q, d, t)
      PROVE  KHistTypeOK' /\ disk' \subseteq disk \cup {<<d, t>>}
  BY <1>1 DEF Register, NULL
<1>2. CASE MkNew(d, t)
  <2>1. PICK q \in Slots : q = Succ(curhistp)
    BY KSuccValue
  <2>2. Empty \in [Types -> Dates \cup {NULL}]
    BY DEF Empty
  <2>3. [Empty EXCEPT ![t] = d] \in [Types -> Dates \cup {NULL}]
    BY <2>2
  <2>4. /\ curhistp' = q /\ date' = [date EXCEPT ![q] = d]
        /\ fname' = [fname EXCEPT ![q] = [Empty EXCEPT ![t] = d]]
        /\ disk' \subseteq disk \cup {<<d, t>>} /\ files' = NULL
    BY <1>2, <2>1 DEF MkNew
  <2> QED BY <2>1, <2>3, <2>4
<1> QED BY <1>1, <1>2, MkhistCases

LEMMA MkhistOneDate ==
  ASSUME KHistTypeOK, KOneDate, NEW d \in Dates, NEW t \in Types, mkhist(d, t)
  PROVE  KOneDate'
<1> USE DEF KHistTypeOK
<1>1. ASSUME NEW q \in Slots, date[q] = d, Register(q, d, t)
      PROVE  KOneDate'
  BY <1>1 DEF Register, KOneDate, NULL
<1>2. CASE MkNew(d, t)
  <2>1. PICK q \in Slots : q = Succ(curhistp)
    BY KSuccValue
  <2>2. \A u \in Types : [Empty EXCEPT ![t] = d][u] \in {NULL, d}
    BY DEF Empty
  <2>3. /\ date' = [date EXCEPT ![q] = d]
        /\ fname' = [fname EXCEPT ![q] = [Empty EXCEPT ![t] = d]]
    BY <1>2, <2>1 DEF MkNew
  <2> QED BY <2>1, <2>2, <2>3 DEF KOneDate
<1> QED BY <1>1, <1>2, MkhistCases

-----------------------------------------------------------------------------
(* Types, and the two locks.                                               *)

\* The sync types are numbered from 0, so a count of them is one type or more.
LEMMA TypesFacts ==
  /\ Cardinality(Types) \in Nat /\ Types = 0..(Cardinality(Types) - 1)
  /\ IsFiniteSet(Types)
<1>1. PICK n \in 1..FNAME_MAX : Types = 0..(n - 1)
  BY KHistoryAssumption
<1>2. n \in Nat /\ 0 <= n - 1 /\ n - 1 \in Int
  BY DEF FNAME_MAX
<1>3. IsFiniteSet(Types) /\ Cardinality(Types) = (n - 1) - 0 + 1
  BY <1>1, <1>2, FS_Interval
<1>4. Cardinality(Types) = n
  BY <1>2, <1>3
<1> QED BY <1>1, <1>2, <1>3, <1>4

LEMMA CountFacts ==
  ASSUME NEW c \in Counts
  PROVE  c \in Nat /\ c >= 1 /\ c <= Cardinality(Types)
<1>1. PICK n \in Nat : n = Cardinality(Types)
  BY TypesFacts
<1>2. c \in 1..n
  BY <1>1, KWatchAssumption
<1> QED BY <1>1, <1>2

LEMMA KWTypeInit == KWInit => KWTypeOK /\ Calls
<1> SUFFICES ASSUME KWInit PROVE KWTypeOK /\ Calls
  OBVIOUS
<1>1. KHistTypeOK
  BY KRingSize DEF KWInit, KHistInit, KHistTypeOK, Empty, NULL
<1>2. NoPart \in [Types -> Dates \cup {NULL}]
  BY DEF NoPart
<1>3. NoCall \in [cmd : {"none", "GET", "OPEN"}, arg : Types \cup Counts \cup {0}]
  BY DEF NoCall
<1>4. KWTypeOK
  <2>1. 0 \in 0..Cardinality(Types) /\ 0 \in 0..MaxLate
    BY TypesFacts, KWatchAssumption
  <2>2. /\ kpc = "lock" /\ cpc = "idle" /\ ktick = 0 /\ ctick = 0 /\ ci = 0
        /\ late = 0 /\ newest = 0 /\ said = <<0, 0>> /\ doomed = {}
        /\ call = NoCall /\ fpath = FALSE /\ cdate = 0 /\ part = NoPart
        /\ others = NoPart /\ taken = {}
        /\ content = [l \in Locks |-> EMPTY] /\ holder = [l \in Locks |-> NoOne]
    BY DEF KWInit, NONE
  <2> QED
    BY <1>1, <1>2, <1>3, <2>1, <2>2 DEF KWTypeOK, Locks, NONE
<1>5. Calls
  BY DEF KWInit, Calls
<1> QED BY <1>4, <1>5

\* What locked_read leaves in the buffer starts with a name or does not.
LEMMA BufferType == KWTypeOK => Buffer \in BOOLEAN
  BY DEF KWTypeOK, Buffer

LEMMA KWTypeStep ==
  KWTypeOK /\ Calls /\ [KWNext]_kwvars => KWTypeOK' /\ Calls'
<1> SUFFICES ASSUME KWTypeOK, Calls, [KWNext]_kwvars
             PROVE  KWTypeOK' /\ Calls'
  OBVIOUS
<1> USE TypesFacts, KWatchAssumption
    DEF KWTypeOK, Calls, Locks, NoOne, NONE, EMPTY, NULL, KLock, CLock,
        kvars, cvars, khvars
<1>0. UNCHANGED khvars => KHistTypeOK'
  BY ONLY KHistTypeOK DEF khvars, KHistTypeOK
<1>1. ASSUME NEW d \in Dates, NEW t \in Types, transfer(d, t)
      PROVE  KWTypeOK' /\ Calls'
  <2>1. KHistTypeOK' /\ disk' \subseteq Dates \X Types
    BY <1>1, MkhistType DEF transfer, KHistTypeOK
  <2>2. late' \in 0..MaxLate /\ newest' \in Dates \cup {0}
    <3>1. late \in 0..MaxLate /\ MaxLate \in Nat /\ newest \in Dates \cup {0}
      OBVIOUS
    <3>2. d < newest => late < MaxLate
      <4>1. d \in Nat /\ newest \in Nat
        BY <3>1, KRingSize
      <4>2. InTime(d)
        BY <1>1, Zenon DEF transfer
      <4>3. ~(d < newest) \/ ~(d >= newest)
        BY ONLY <4>1
      <4> QED BY <4>2, <4>3, Zenon DEF InTime
    <3> QED BY <1>1, <3>1, <3>2 DEF transfer
  <2>3. /\ doomed' = disk \ disk' /\ kpc = "notify"
        /\ kpc' \in {"write", "unlink", "notify"}
        /\ kpc' = "write" => files' # NULL
        /\ UNCHANGED <<content, holder, ktick, said, cvars, deaths>>
    BY <1>1 DEF transfer
  <2>4. doomed' \subseteq (Dates \X Types) \ disk'
    BY <2>3 DEF KHistTypeOK
  <2> QED BY <2>1, <2>2, <2>3, <2>4
<1>2. CASE unlink
  BY <1>0, <1>2 DEF unlink
<1>3. CASE locked_write
  <2>1. files \in Dates \cup {NULL}
    BY DEF KHistTypeOK
  <2> QED BY <1>0, <1>3, <2>1 DEF locked_write
<1>4. CASE locked_lock
  BY <1>0, <1>4 DEF locked_lock
<1>5. CASE kwatcher_restart
  <2>1. KHistTypeOK' /\ disk' \subseteq Dates \X Types /\ doomed' = {}
    <3>1. /\ date' = [s \in Slots |-> 0] /\ fname' = [s \in Slots |-> Empty]
          /\ curhistp' = 0 /\ files' = NULL /\ doomed' = {}
          /\ disk' = disk \cup doomed
      BY <1>5, Zenon DEF kwatcher_restart, There
    <3>2. Empty \in [Types -> Dates \cup {NULL}] /\ 0 \in Slots
      BY KRingSize DEF Empty
    <3>3. disk \cup doomed \subseteq Dates \X Types
      BY DEF KHistTypeOK
    <3> QED BY <3>1, <3>2, <3>3 DEF KHistTypeOK
  <2>2. /\ holder' \in [Locks -> {NoOne, "kwatcher", "app"}]
        /\ \A l \in Locks : holder[l] = "app" => holder'[l] = holder[l]
    BY <1>5 DEF kwatcher_restart
  <2>3. deaths' \in [{"kwatcher", "app"} -> Nat]
    BY <1>5 DEF kwatcher_restart
  <2>4. /\ kpc' = "lock" /\ ktick' = 0 /\ files' = NULL
        /\ UNCHANGED <<content, newest, late, said, cvars>>
    BY <1>5, Zenon DEF kwatcher_restart
  <2> QED BY <2>1, <2>2, <2>3, <2>4
<1>6. CASE jitcall
  BY <1>0, <1>6 DEF jitcall
<1>7. CASE jit_lock
  BY <1>0, <1>7 DEF jit_lock
<1>8. CASE jit_fail
  <2>1. fpath' \in BOOLEAN
    BY <1>8, BufferType DEF jit_fail
  <2> QED BY <1>0, <1>8, <2>1 DEF jit_fail, NoCall
<1>9. CASE jitget_read
  <2>1. fpath' \in BOOLEAN
    BY <1>9 DEF jitget_read
  <2>2. NoPart \in [Types -> Dates \cup {NULL}]
    BY DEF NoPart
  <2>3. cdate' \in Dates \cup {NONE} /\ cpc' \in {"close", "files"}
    BY <1>9 DEF jitget_read
  <2>4. ci' = 0 /\ part' = NoPart /\ others' = NoPart
    BY <1>9 DEF jitget_read
  <2>5. KWTypeOK'
    BY <1>0, <1>9, <2>1, <2>2, <2>3, <2>4 DEF jitget_read
  <2>6. /\ cpc = "read" /\ call' = call /\ call.cmd = "GET" /\ kpc' = kpc
        /\ files' = files /\ deaths' = deaths
    BY <1>9 DEF jitget_read
  <2>7. call.arg \in Counts /\ 0 < call.arg
    <3>1. PICK c \in Counts : c = call.arg
      BY <2>6
    <3>2. c \in Nat /\ c >= 1
      BY ONLY CountFacts
    <3> QED BY <3>1, <3>2
  <2>8. Calls'
    BY <2>3, <2>4, <2>6, <2>7
  <2> QED BY <2>5, <2>8
<1>10. CASE jitget_file
  <2>0. call.arg \in Counts /\ call.cmd = "GET" /\ ci < call.arg
    BY <1>10 DEF jitget_file
  <2>1. ci \in Nat /\ call.arg \in Nat /\ call.arg <= Cardinality(Types)
    <3>1. PICK c \in Counts : c = call.arg
      BY <2>0
    <3>2. c \in Nat /\ c <= Cardinality(Types)
      BY ONLY CountFacts
    <3> QED BY <3>1, <3>2
  <2>2. ci \in Types /\ ci + 1 \in 0..Cardinality(Types)
    BY <2>0, <2>1
  <2>3. part' \in [Types -> Dates \cup {NULL}]
    BY <1>10, <2>2 DEF jitget_file
  <2>4. ci' = ci + 1 /\ cpc' = IF ci + 1 < call.arg THEN "files" ELSE "close"
    BY <1>10 DEF jitget_file
  <2> QED
    BY <1>0, <1>10, <2>0, <2>2, <2>3, <2>4 DEF jitget_file
<1>11. CASE jitopen_read
  BY <1>0, <1>11 DEF jitopen_read, NoPart
<1>12. CASE jitopen_fail
  BY <1>0, <1>12 DEF jitopen_fail, NoCall
<1>13. CASE jitread
  BY <1>0, <1>13 DEF jitread, NoPart
<1>14. CASE jitclose
  BY <1>0, <1>14 DEF jitclose
<1>15. CASE locked_unlock_nullify
  BY <1>0, <1>15 DEF locked_unlock_nullify, Returns, NoCall
<1>16. CASE MPI_Bcast
  BY <1>0, <1>16 DEF MPI_Bcast
<1>17. CASE app_restart
  <2>1. NoPart \in [Types -> Dates \cup {NULL}]
    BY DEF NoPart
  <2>2. fpath' \in BOOLEAN /\ part' = NoPart /\ others' = NoPart
    BY <1>17 DEF app_restart
  <2>3. holder' \in [Locks -> {NoOne, "kwatcher", "app"}]
        /\ \A l \in Locks : holder[l] = "kwatcher" => holder'[l] = holder[l]
    BY <1>17 DEF app_restart
  <2>4. deaths' \in [{"kwatcher", "app"} -> Nat]
    BY <1>17 DEF app_restart
  <2> QED
    BY <1>0, <1>17, <2>1, <2>2, <2>3, <2>4 DEF app_restart, NoCall
<1>18. CASE UNCHANGED kwvars
  BY <1>0, <1>18 DEF kwvars
<1> QED
  BY <1>1, <1>2, <1>3, <1>4, <1>5, <1>6, <1>7, <1>8, <1>9, <1>10, <1>11,
     <1>12, <1>13, <1>14, <1>15, <1>16, <1>17, <1>18
  DEF KWNext, kwatcher, jitclient

\* Every variable keeps to its type, a waiting kwatcher holds one lock file
\* and a reading application the one it reads: the flock of misclib.c is never
\* held by both.
THEOREM KWTypeCorrect == KWSpec => []KWTypeOK
<1>1. KWInit => KWTypeOK /\ Calls
  BY KWTypeInit
<1>2. (KWTypeOK /\ Calls) /\ [KWNext]_kwvars => (KWTypeOK /\ Calls)'
  BY KWTypeStep
<1> QED BY <1>1, <1>2, PTL DEF KWSpec

-----------------------------------------------------------------------------
(* The ring in the daemon.                                                 *)

\* Only mkhist and a restart touch the ring, and only a restart forgets it.
LEMMA RingSteps ==
  ASSUME Calls, [KWNext]_kwvars
  PROVE  \/ \E d \in Dates, t \in Types : transfer(d, t)
         \/ kwatcher_restart /\ ~Alive'
         \/ UNCHANGED <<khvars, newest, late>> /\ (Alive' => Alive)
<1> USE DEF kvars, cvars, Alive
<1>1. CASE kwatcher_restart
  <2>1. deaths' = [deaths EXCEPT !["kwatcher"] = deaths["kwatcher"] + 1]
    BY <1>1 DEF kwatcher_restart
  <2>2. deaths["kwatcher"] \in Nat /\ deaths \in [{"kwatcher", "app"} -> Nat]
    BY DEF Calls
  <2>3. deaths'["kwatcher"] # 0
    BY <2>1, <2>2
  <2> QED BY <1>1, <2>3
<1>2. CASE app_restart
  BY <1>2 DEF app_restart, Calls
<1>3. CASE unlink \/ locked_write \/ locked_lock
  BY <1>3 DEF unlink, locked_write, locked_lock
<1>4. CASE jitcall \/ jit_lock \/ jit_fail \/ jitget_read \/ jitget_file
  BY <1>4 DEF jitcall, jit_lock, jit_fail, jitget_read, jitget_file
<1>5. CASE jitopen_read \/ jitopen_fail \/ jitread \/ jitclose
  BY <1>5 DEF jitopen_read, jitopen_fail, jitread, jitclose
<1>6. CASE locked_unlock_nullify \/ MPI_Bcast
  BY <1>6 DEF locked_unlock_nullify, MPI_Bcast
<1>7. CASE UNCHANGED kwvars
  BY <1>7 DEF kwvars
<1> QED
  BY <1>1, <1>2, <1>3, <1>4, <1>5, <1>6, <1>7 DEF KWNext, kwatcher, jitclient

LEMMA OneDateInit == KWInit => KOneDate
  BY DEF KWInit, KHistInit, KOneDate, Empty

LEMMA OneDateStep ==
  KWTypeOK /\ Calls /\ KOneDate /\ [KWNext]_kwvars => KOneDate'
<1> SUFFICES ASSUME KWTypeOK, Calls, KOneDate, [KWNext]_kwvars
             PROVE  KOneDate'
  OBVIOUS
<1>1. CASE \E d \in Dates, t \in Types : transfer(d, t)
  BY <1>1, MkhistOneDate DEF KWTypeOK, transfer
<1>2. CASE kwatcher_restart
  BY <1>2 DEF kwatcher_restart, KOneDate, Empty
<1>3. CASE UNCHANGED khvars
  BY <1>3 DEF khvars, KOneDate
<1> QED BY <1>1, <1>2, <1>3, RingSteps

\* An entry of the ring names files of its own date only, however late files
\* arrive and however often kwatcher starts again (kwatcher.c, mkhist).
THEOREM EntriesOfOneDate == KWSpec => []KOneDate
<1> QED BY OneDateInit, KWTypeInit, KWTypeStep, OneDateStep, PTL DEF KWSpec

\* Files in the order of their dates go to the entry of the pointer or open a
\* new one: the entry before is never the one wanted, nor is the next.
LEMMA InOrder ==
  ASSUME KWTypeOK, RingFalls, NEW d \in Dates, NEW t \in Types,
         transfer(d, t), late' = 0
  PROVE  /\ late = 0 /\ newest' = d /\ newest <= d
         /\ \/ d = date[curhistp] /\ Register(curhistp, d, t)
            \/ d > date[curhistp] /\ MkNew(d, t)
<1>1. /\ newest \in Nat /\ d \in Nat /\ d > 0 /\ late \in Nat
      /\ curhistp \in Slots /\ Succ(curhistp) \in Slots
      /\ \A s \in Slots : date[s] \in Nat
  BY KRingSize, KSuccValue, KWatchAssumption DEF KWTypeOK, KHistTypeOK
<1>2. late = 0 /\ newest <= d /\ newest' = d
  <2>1. late' = IF d < newest THEN late + 1 ELSE late
    BY DEF transfer
  <2>2. newest' = IF d > newest THEN d ELSE newest
    BY DEF transfer
  <2> QED BY <1>1, <2>1, <2>2
<1>3. date[curhistp] <= d
  BY <1>1, <1>2 DEF RingFalls
<1>4. mkhist(d, t)
  BY DEF transfer
<1>5. CASE MkSame(d, t)
  BY <1>2, <1>5 DEF MkSame
<1>6. CASE MkLate(d, t)
  BY <1>1, <1>3, <1>6 DEF MkLate
<1>7. CASE MkAgain(d, t)
  <2>1. date[Succ(curhistp)] = d /\ d > date[curhistp]
    BY <1>1, <1>3, <1>7 DEF MkAgain, Unknown
  <2>2. 0 \in 0..(nhist - 1) /\ (nhist - 1) \in 0..(nhist - 1) /\ 0 < nhist - 1
    BY KRingSize
  <2>3. \/ date[Before(curhistp, nhist - 1)] = 0
        \/ date[Before(curhistp, nhist - 1)] < date[Before(curhistp, 0)]
    BY <1>2, <2>2 DEF RingFalls
  <2>4. Before(curhistp, 0) = curhistp
        /\ Before(curhistp, nhist - 1) = Succ(curhistp)
    BY <1>1, BeforeSucc
  <2> QED BY <1>1, <2>1, <2>3, <2>4
<1>8. CASE MkNew(d, t)
  BY <1>1, <1>2, <1>3, <1>8 DEF MkNew, Unknown
<1> QED BY <1>4, <1>5, <1>6, <1>7, <1>8 DEF mkhist

\* The dates of the other slots are above that of the oldest, which is next.
LEMMA OldestNext ==
  ASSUME KHistTypeOK, RingFalls, late = 0, NEW s \in Slots,
         s # Succ(curhistp), date[Succ(curhistp)] # 0
  PROVE  date[Succ(curhistp)] < date[s]
<1>1. curhistp \in Slots /\ nhist \in Nat /\ nhist >= 2
  BY KRingSize DEF KHistTypeOK
<1>2. PICK k \in 0..(nhist - 1) : Before(curhistp, k) = s
  BY <1>1, BeforeOnto
<1>3. Before(curhistp, nhist - 1) = Succ(curhistp)
  BY <1>1, BeforeSucc
<1>4. k < nhist - 1 /\ (nhist - 1) \in 0..(nhist - 1)
  BY <1>1, <1>2, <1>3
<1>5. \/ date[Before(curhistp, nhist - 1)] = 0
      \/ date[Before(curhistp, nhist - 1)] < date[Before(curhistp, k)]
  BY <1>2, <1>4 DEF RingFalls
<1> QED BY <1>2, <1>3, <1>5

\* With a new entry of a newer date the dates still fall from the pointer.
LEMMA NewFalls ==
  ASSUME KWTypeOK, RingFalls, late = 0, NEW d \in Dates, NEW t \in Types,
         d > date[curhistp], MkNew(d, t),
         NEW j \in 0..(nhist - 1), NEW k \in 0..(nhist - 1), j < k
  PROVE  \/ date'[Before(curhistp', k)] = 0
         \/ date'[Before(curhistp', k)] < date'[Before(curhistp', j)]
<1>1. /\ nhist \in Nat /\ nhist >= 2 /\ d \in Nat
      /\ curhistp \in Slots /\ \A s \in Slots : date[s] \in Nat
  BY KRingSize DEF KWTypeOK, KHistTypeOK
<1>2. PICK q \in Slots : q = Succ(curhistp)
  BY <1>1, KSuccValue
<1>3. curhistp' = q /\ date' = [date EXCEPT ![q] = d]
  BY <1>2 DEF MkNew
<1>4. \A s \in Slots : date'[s] = IF s = q THEN d ELSE date[s]
  BY <1>3 DEF KWTypeOK, KHistTypeOK
<1>5. /\ Before(q, 0) = q /\ Before(curhistp, 0) = curhistp
      /\ \A i \in 1..(nhist - 1) :
           Before(q, i) = Before(curhistp, i - 1) /\ Before(q, i) # q
  <2>1. \A i \in 1..(nhist - 1) : i - 1 \in 0..(nhist - 2)
    BY <1>1
  <2> QED BY <1>1, <1>2, <2>1, BeforeSucc
<1>6. \A i \in 0..(nhist - 1) : Before(curhistp, i) \in Slots
  BY <1>1, BeforeValue
<1>7. k \in 1..(nhist - 1) /\ k - 1 \in 0..(nhist - 1)
  BY <1>1
<1>8. date'[Before(q, k)] = date[Before(curhistp, k - 1)]
  BY <1>4, <1>5, <1>6, <1>7
<1>9. CASE j = 0
  <2>1. date'[Before(q, j)] = d
    BY <1>2, <1>4, <1>5, <1>9
  <2>2. CASE k = 1
    <3>1. date[Before(curhistp, k - 1)] = date[curhistp]
      BY <1>5, <2>2
    <3> QED BY <1>1, <1>3, <1>8, <2>1, <3>1
  <2>3. CASE k > 1
    <3>1. \/ date[Before(curhistp, k - 1)] = 0
          \/ date[Before(curhistp, k - 1)] < date[Before(curhistp, 0)]
      BY <1>7, <2>3, KRingSize DEF RingFalls
    <3>2. date[Before(curhistp, k - 1)] \in Nat
      BY <1>1, <1>6, <1>7
    <3>3. \/ date[Before(curhistp, k - 1)] = 0
          \/ date[Before(curhistp, k - 1)] < d
      BY <1>1, <1>5, <3>1, <3>2
    <3> QED BY <1>3, <1>8, <2>1, <3>3
  <2> QED BY <1>7, <2>2, <2>3
<1>10. CASE j # 0
  <2>1. j \in 1..(nhist - 1) /\ j - 1 \in 0..(nhist - 1) /\ j - 1 < k - 1
    BY <1>1, <1>7, <1>10
  <2>2. date'[Before(q, j)] = date[Before(curhistp, j - 1)]
    BY <1>4, <1>5, <1>6, <2>1
  <2>3. \/ date[Before(curhistp, k - 1)] = 0
        \/ date[Before(curhistp, k - 1)] < date[Before(curhistp, j - 1)]
    BY <1>7, <2>1 DEF RingFalls
  <2> QED BY <1>3, <1>8, <2>2, <2>3
<1> QED BY <1>9, <1>10

LEMMA RingFallsStep ==
  KWTypeOK /\ Calls /\ RingFalls /\ [KWNext]_kwvars => RingFalls'
<1> SUFFICES ASSUME KWTypeOK, Calls, RingFalls, [KWNext]_kwvars, late' = 0
             PROVE  /\ date'[curhistp'] <= newest'
                    /\ \A j, k \in 0..(nhist - 1) :
                         j < k =>
                         \/ date'[Before(curhistp', k)] = 0
                         \/ date'[Before(curhistp', k)]
                              < date'[Before(curhistp', j)]
  BY DEF RingFalls, Before
<1>1. ASSUME NEW d \in Dates, NEW t \in Types, transfer(d, t)
      PROVE  /\ date'[curhistp'] <= newest'
             /\ \A j, k \in 0..(nhist - 1) :
                  j < k =>
                  \/ date'[Before(curhistp', k)] = 0
                  \/ date'[Before(curhistp', k)] < date'[Before(curhistp', j)]
  <2>1. /\ late = 0 /\ newest' = d /\ d \in Nat
        /\ \/ d = date[curhistp] /\ Register(curhistp, d, t)
           \/ d > date[curhistp] /\ MkNew(d, t)
    BY <1>1, InOrder, KRingSize
  <2>2. CASE d = date[curhistp] /\ Register(curhistp, d, t)
    <3>1. date' = date /\ curhistp' = curhistp
      BY <2>2 DEF Register
    <3> QED BY <2>1, <2>2, <3>1 DEF RingFalls
  <2>3. CASE d > date[curhistp] /\ MkNew(d, t)
    <3>1. date'[curhistp'] = d
      BY <2>3, KSuccValue DEF MkNew, KWTypeOK, KHistTypeOK
    <3>2. date'[curhistp'] <= newest'
      BY <2>1, <3>1
    <3> QED BY <2>1, <2>3, <3>2, NewFalls
  <2> QED BY <2>1, <2>2, <2>3
<1>2. CASE kwatcher_restart
  <2>1. /\ date' = [s \in Slots |-> 0] /\ curhistp' = 0 /\ newest' = newest
    BY <1>2 DEF kwatcher_restart
  <2>2. \A k \in 0..(nhist - 1) : Before(curhistp', k) \in Slots
    BY <2>1, BeforeValue, KRingSize
  <2>3. newest \in Nat /\ 0 \in Slots
    BY KRingSize DEF KWTypeOK
  <2> QED BY <2>1, <2>2, <2>3
<1>3. CASE UNCHANGED <<khvars, newest, late>>
  BY <1>3 DEF khvars, RingFalls
<1> QED BY <1>1, <1>2, <1>3, RingSteps

LEMMA FallingOnce == KWTypeOK /\ RingFalls => OneEntryPerDate
<1> SUFFICES ASSUME KWTypeOK, RingFalls, late = 0,
                    NEW s \in Slots, NEW u \in Slots, s # u,
                    date[s] # 0, date[s] = date[u]
             PROVE  FALSE
  BY DEF OneEntryPerDate, DatesOnce
<1>1. curhistp \in Slots /\ date[s] \in Nat /\ date[u] \in Nat
  BY KRingSize DEF KWTypeOK, KHistTypeOK
<1>2. PICK j \in 0..(nhist - 1) : Before(curhistp, j) = s
  BY <1>1, BeforeOnto
<1>3. PICK k \in 0..(nhist - 1) : Before(curhistp, k) = u
  BY <1>1, BeforeOnto
<1>4. j < k \/ k < j
  BY <1>2, <1>3, KRingSize
<1> QED BY <1>1, <1>2, <1>3, <1>4 DEF RingFalls

LEMMA RingFallsInit == KWInit => RingFalls
<1> SUFFICES ASSUME KWInit PROVE RingFalls
  OBVIOUS
<1>1. date = [s \in Slots |-> 0] /\ curhistp = 0 /\ newest = 0
  BY DEF KWInit, KHistInit
<1>2. \A k \in 0..(nhist - 1) : Before(curhistp, k) \in Slots
  BY <1>1, BeforeValue, KRingSize
<1> QED BY <1>1, <1>2, KRingSize DEF RingFalls

\* kwatcher never opens a second entry for a date while the files come in the
\* order of their dates, which would leave both entries incomplete for ever
\* (kwatcher.c, mkhist); a restart of it does not matter.
THEOREM NoSecondEntry == KWSpec => []OneEntryPerDate
<1> QED
  BY FallingOnce, RingFallsInit, KWTypeInit, KWTypeStep, RingFallsStep, PTL
  DEF KWSpec

\* Only the oldest observation is given up: mkhist removes no file of a date
\* while its ring keeps an older one (kwatcher.c, mkhist: curhistp steps to the
\* next slot and unlinks what that names).
THEOREM OldestGivenUp == KWSpec => KeepsHistory
<1> DEFINE Inv == KWTypeOK /\ Calls /\ KOneDate /\ RingFalls
<1>1. KWInit => Inv
  BY KWTypeInit, OneDateInit, RingFallsInit
<1>2. Inv /\ [KWNext]_kwvars => Inv'
  BY KWTypeStep, OneDateStep, RingFallsStep
<1>3. Inv /\ [KWNext]_kwvars =>
        [late' = 0 => \A f \in disk \ disk', s \in Slots :
                        date'[s] # 0 => date'[s] > f[1]]_kwvars
  <2> SUFFICES ASSUME KWTypeOK, Calls, KOneDate, RingFalls, [KWNext]_kwvars,
                      late' = 0, NEW f \in disk \ disk', NEW s \in Slots,
                      date'[s] # 0
               PROVE  date'[s] > f[1]
    OBVIOUS
  <2>1. CASE UNCHANGED <<khvars, newest, late>>
    BY <2>1 DEF khvars
  <2>2. CASE kwatcher_restart
    BY <2>2 DEF kwatcher_restart, There
  <2>3. ASSUME NEW d \in Dates, NEW t \in Types, transfer(d, t)
        PROVE  date'[s] > f[1]
    <3>1. /\ late = 0 /\ d \in Nat
          /\ \/ d = date[curhistp] /\ Register(curhistp, d, t)
             \/ d > date[curhistp] /\ MkNew(d, t)
      BY <2>3, InOrder, KRingSize
    <3>2. d > date[curhistp] /\ MkNew(d, t)
      BY <3>1 DEF Register
    <3>3. PICK q \in Slots : q = Succ(curhistp)
      BY KSuccValue DEF KWTypeOK, KHistTypeOK
    <3>4. f \in FilesOf(q) /\ date' = [date EXCEPT ![q] = d]
      BY <3>2, <3>3 DEF MkNew
    <3>5. PICK u \in Types : fname[q][u] # NULL /\ f = <<fname[q][u], u>>
      BY <3>4 DEF FilesOf
    <3>6. f[1] = date[q] /\ date[q] # 0
      BY <3>5 DEF KOneDate, NULL
    <3>7. /\ curhistp \in Slots /\ KHistTypeOK
          /\ \A v \in Slots : date[v] \in Nat
      <4>1. KHistTypeOK
        BY DEF KWTypeOK
      <4>2. curhistp \in Slots /\ \A v \in Slots : date[v] \in Nat
        BY <4>1, KRingSize DEF KHistTypeOK
      <4> QED BY <4>1, <4>2
    <3>8. CASE s = q
      <4>1. curhistp # q
        BY <3>3, <3>7, KRingSize, KSuccValue DEF Slots
      <4>2. date[q] < date[curhistp]
        BY <3>1, <3>3, <3>6, <3>7, <4>1, OldestNext
      <4>3. date'[s] = d
        BY <3>4, <3>7, <3>8 DEF KHistTypeOK
      <4> QED BY <3>1, <3>2, <3>6, <3>7, <4>2, <4>3
    <3>9. CASE s # q
      <4>1. date[q] < date[s]
        BY <3>1, <3>3, <3>6, <3>7, <3>9, OldestNext
      <4>2. date'[s] = date[s]
        BY <3>4, <3>7, <3>9 DEF KHistTypeOK
      <4> QED BY <3>6, <3>7, <4>1, <4>2
    <3> QED BY <3>8, <3>9
  <2> QED BY <2>1, <2>2, <2>3, RingSteps
<1> QED BY <1>1, <1>2, <1>3, PTL DEF KWSpec, KeepsHistory

-----------------------------------------------------------------------------
(* What the directory holds.                                               *)

LEMMA RegisteredInit == KWInit => Registered
  BY KHistoryAssumption DEF KWInit, KHistInit, Registered, Empty, NULL

LEMMA RegisteredStep ==
  /\ KWTypeOK /\ Calls /\ KOneDate /\ RingFalls /\ Registered
  /\ [KWNext]_kwvars
  => Registered'
<1> SUFFICES ASSUME KWTypeOK, Calls, KOneDate, RingFalls, Registered,
                    [KWNext]_kwvars, late' = 0, Alive',
                    NEW x \in Dates, NEW u \in Types
             PROVE  <<x, u>> \in disk' <=> \E s \in Slots : fname'[s][u] = x
  BY DEF Registered
<1>1. CASE UNCHANGED <<khvars, newest, late>> /\ Alive
  BY <1>1 DEF khvars, Registered
<1>2. ASSUME NEW d \in Dates, NEW t \in Types, transfer(d, t)
      PROVE  <<x, u>> \in disk' <=> \E s \in Slots : fname'[s][u] = x
  <2>1. /\ late = 0 /\ curhistp \in Slots /\ KHistTypeOK /\ x # NULL
        /\ \/ d = date[curhistp] /\ Register(curhistp, d, t)
           \/ d > date[curhistp] /\ MkNew(d, t)
    <3>1. /\ late = 0
          /\ \/ d = date[curhistp] /\ Register(curhistp, d, t)
             \/ d > date[curhistp] /\ MkNew(d, t)
      BY <1>2, InOrder
    <3>2. KHistTypeOK
      BY DEF KWTypeOK
    <3>3. curhistp \in Slots
      BY <3>2 DEF KHistTypeOK
    <3>4. x # NULL
      BY KRingSize DEF NULL
    <3> QED BY <3>1, <3>2, <3>3, <3>4
  <2>2. Alive
    BY <1>2 DEF transfer, Alive
  <2>3. <<x, u>> \in disk <=> \E s \in Slots : fname[s][u] = x
    BY <2>1, <2>2 DEF Registered
  <2>4. CASE d = date[curhistp] /\ Register(curhistp, d, t)
    <3>1. disk' = disk \cup {<<d, t>>}
      BY <2>4 DEF Register
    <3>2. CASE fname[curhistp][t] # NULL
      <4>1. fname' = fname /\ fname[curhistp][t] = d
        BY <2>1, <2>4, <3>2 DEF Register, KOneDate
      <4> QED BY <2>1, <2>3, <3>1, <4>1
    <3>3. CASE fname[curhistp][t] = NULL
      <4>1. fname' = [fname EXCEPT ![curhistp][t] = d]
        BY <2>4, <3>3 DEF Register
      <4>2. \A s \in Slots : fname'[s][u] =
              IF s = curhistp /\ u = t THEN d ELSE fname[s][u]
        BY <2>1, <4>1 DEF KHistTypeOK
      <4> QED BY <2>1, <2>3, <3>1, <3>3, <4>2
    <3> QED BY <3>2, <3>3
  <2>5. CASE d > date[curhistp] /\ MkNew(d, t)
    <3>1. PICK q \in Slots : q = Succ(curhistp)
      BY <2>1, KSuccValue
    <3>2. /\ disk' = (disk \cup {<<d, t>>}) \ FilesOf(q) /\ date[q] # d
          /\ fname' = [fname EXCEPT ![q] = [Empty EXCEPT ![t] = d]]
      BY <2>5, <3>1 DEF MkNew
    <3>3. \A s \in Slots : fname'[s][u] =
            IF s # q THEN fname[s][u] ELSE IF u = t THEN d ELSE NULL
      BY <2>1, <3>2 DEF KHistTypeOK, Empty
    <3>4. <<x, u>> \in FilesOf(q) <=> fname[q][u] = x
      BY <2>1 DEF FilesOf
    <3>5. fname[q][t] # d
      BY <2>1, <3>2, KRingSize DEF KOneDate, NULL
    <3>6. ASSUME NEW s \in Slots, s # q, fname[s][u] = x
          PROVE  fname[q][u] # x
      <4>1. date[s] = x
        BY <2>1, <3>6 DEF KOneDate
      <4>2. date[q] # x
        BY <2>1, <3>6, <4>1, FallingOnce DEF OneEntryPerDate, DatesOnce, NULL
      <4> QED BY <2>1, <4>2 DEF KOneDate
    <3> QED BY <2>1, <2>3, <3>2, <3>3, <3>4, <3>5, <3>6
  <2> QED BY <2>1, <2>4, <2>5
<1> QED BY <1>1, <1>2, RingSteps

\* While kwatcher runs and the files come in the order of their dates, every
\* file of the data directory is in the ring, to be removed in time, and every
\* file the ring names is there (kwatcher.c, mkhist).
THEOREM DirectoryInRing ==
  KWSpec => [](deaths["kwatcher"] = 0 => DiskInRing)
<1> DEFINE Inv == KWTypeOK /\ Calls /\ KOneDate /\ RingFalls /\ Registered
<1>1. KWInit => Inv
  BY KWTypeInit, OneDateInit, RingFallsInit, RegisteredInit
<1>2. Inv /\ [KWNext]_kwvars => Inv'
  BY KWTypeStep, OneDateStep, RingFallsStep, RegisteredStep
<1>3. Inv => (deaths["kwatcher"] = 0 => DiskInRing)
  <2> SUFFICES ASSUME KWTypeOK, Registered, late = 0, Alive
               PROVE  disk = UNION {FilesOf(s) : s \in Slots}
    BY DEF DiskInRing, KDiskIsRegistered, Alive
  <2>1. disk \subseteq Dates \X Types
        /\ fname \in [Slots -> [Types -> Dates \cup {NULL}]]
    BY DEF KWTypeOK, KHistTypeOK
  <2>2. \A x \in Dates, u \in Types :
          <<x, u>> \in disk <=> \E s \in Slots : fname[s][u] = x
    BY DEF Registered
  <2>3. ASSUME NEW f \in disk
        PROVE  f \in UNION {FilesOf(s) : s \in Slots}
    <3>1. PICK x \in Dates, u \in Types : f = <<x, u>>
      BY <2>1
    <3>2. PICK s \in Slots : fname[s][u] = x
      BY <2>2, <3>1
    <3>3. fname[s][u] # NULL
      BY <3>2, KHistoryAssumption
    <3>4. f \in FilesOf(s)
      BY <3>1, <3>2, <3>3 DEF FilesOf
    <3> QED BY <3>4
  <2>4. ASSUME NEW s \in Slots, NEW f \in FilesOf(s)
        PROVE  f \in disk
    <3>1. PICK u \in Types : fname[s][u] # NULL /\ f = <<fname[s][u], u>>
      BY DEF FilesOf
    <3>2. fname[s][u] \in Dates
      BY <2>1, <3>1
    <3> QED BY <2>2, <3>1, <3>2
  <2> QED BY <2>3, <2>4
<1> QED BY <1>1, <1>2, <1>3, PTL DEF KWSpec

-----------------------------------------------------------------------------
(* The two lock files.                                                     *)

\* What the application leaves alone; of the lock files and of what has been
\* taken it changes only what it nullifies.
LEMMA Steps ==
  ASSUME Calls, [KWNext]_kwvars
  PROVE  \/ \E d \in Dates, t \in Types : transfer(d, t)
         \/ unlink \/ locked_write \/ locked_lock
         \/ kwatcher_restart /\ ~Alive'
         \/ /\ UNCHANGED <<khvars, kpc, ktick, newest, late, said, doomed>>
            /\ Alive' => Alive
            /\ locked_unlock_nullify \/ UNCHANGED <<content, taken>>
<1> USE DEF kvars, cvars
<1>1. CASE kwatcher_restart
  <2>1. deaths' = [deaths EXCEPT !["kwatcher"] = deaths["kwatcher"] + 1]
    BY <1>1 DEF kwatcher_restart
  <2>2. deaths["kwatcher"] \in Nat /\ deaths \in [{"kwatcher", "app"} -> Nat]
    BY DEF Calls
  <2>3. deaths'["kwatcher"] # 0
    BY <2>1, <2>2
  <2> QED BY <1>1, <2>3 DEF Alive
<1>2. CASE app_restart
  <2>1. deaths' = [deaths EXCEPT !["app"] = deaths["app"] + 1]
    BY <1>2 DEF app_restart
  <2>2. Alive' => Alive
    BY <2>1 DEF Calls, Alive
  <2> QED BY <1>2, <2>2 DEF app_restart
<1>3. CASE jitcall \/ jit_lock \/ jit_fail \/ jitget_read \/ jitget_file
  BY <1>3 DEF jitcall, jit_lock, jit_fail, jitget_read, jitget_file, Alive
<1>4. CASE jitopen_read \/ jitopen_fail \/ jitread \/ jitclose \/ MPI_Bcast
  BY <1>4 DEF jitopen_read, jitopen_fail, jitread, jitclose, MPI_Bcast, Alive
<1>5. CASE locked_unlock_nullify
  BY <1>5 DEF locked_unlock_nullify, Alive
<1>6. CASE UNCHANGED kwvars
  BY <1>6 DEF kwvars, Alive
<1> QED
  BY <1>1, <1>2, <1>3, <1>4, <1>5, <1>6 DEF KWNext, kwatcher, jitclient

\* The lock files are two, and a side that holds one keeps the other off it.
LEMMA LockFacts ==
  ASSUME KWTypeOK
  PROVE  /\ ktick \in Locks /\ KLock \in Locks /\ KLock # ktick
         /\ CLock \in Locks /\ CLock \in {KLock, ktick}
         /\ Locks = {KLock, ktick}
         /\ cpc \in {"read", "files", "opened", "close"} /\ kpc # "lock" =>
              CLock = ktick
  BY DEF KWTypeOK, Locks, KLock, CLock

LEMMA ReadingStep ==
  KWTypeOK /\ Calls /\ Reading /\ [KWNext]_kwvars => Reading'
<1> SUFFICES ASSUME KWTypeOK, Calls, Reading, [KWNext]_kwvars
             PROVE  Reading'
  OBVIOUS
<1> USE DEF Reading, CLock, kvars, cvars
<1>1. CASE \E d \in Dates, t \in Types : transfer(d, t)
  BY <1>1 DEF transfer
<1>2. CASE unlink \/ locked_lock \/ kwatcher_restart
  BY <1>2 DEF unlink, locked_lock, kwatcher_restart
<1>3. CASE locked_write
  <2>1. /\ content' = [content EXCEPT ![KLock] = files] /\ kpc = "write"
        /\ UNCHANGED cvars
    BY <1>3 DEF locked_write
  <2>2. cpc \in {"files", "opened", "close"} => content'[CLock] = content[CLock]
    BY <2>1, LockFacts DEF KWTypeOK
  <2> QED BY <2>1, <2>2
<1>4. CASE jitcall \/ jit_lock \/ jit_fail \/ jitget_file \/ jitopen_fail
  BY <1>4 DEF jitcall, jit_lock, jit_fail, jitget_file, jitopen_fail
<1>5. CASE jitget_read
  BY <1>5 DEF jitget_read, Buffer
<1>6. CASE jitopen_read \/ jitread \/ jitclose
  BY <1>6 DEF jitopen_read, jitread, jitclose
<1>7. CASE locked_unlock_nullify \/ MPI_Bcast \/ app_restart
  BY <1>7 DEF locked_unlock_nullify, MPI_Bcast, app_restart, Returns
<1>8. CASE UNCHANGED kwvars
  BY <1>8 DEF kwvars
<1> QED
  BY <1>1, <1>2, <1>3, <1>4, <1>5, <1>6, <1>7, <1>8
  DEF KWNext, kwatcher, jitclient

LEMMA InTurnStep ==
  KWTypeOK /\ Calls /\ InTurn /\ [KWNext]_kwvars => InTurn'
<1> SUFFICES ASSUME KWTypeOK, Calls, InTurn, [KWNext]_kwvars, Alive'
             PROVE  InTurn'
  BY DEF InTurn
<1> USE DEF InTurn, KLock
<1>1. CASE \E d \in Dates, t \in Types : transfer(d, t)
  BY <1>1 DEF transfer, Alive
<1>2. CASE unlink
  BY <1>2 DEF unlink, Alive
<1>3. CASE locked_write
  <2>1. /\ content' = [content EXCEPT ![KLock] = files] /\ kpc = "write"
        /\ kpc' = "lock" /\ said' = <<files, said[1]>> /\ ktick' = ktick
        /\ Alive
    BY <1>3 DEF locked_write, Alive
  <2>2. content'[KLock] = files /\ content'[ktick] = content[ktick]
    BY <2>1, LockFacts DEF KWTypeOK
  <2> QED BY <2>1, <2>2
<1>4. CASE locked_lock
  BY <1>4 DEF locked_lock, Alive, KWTypeOK, Locks
<1>5. CASE /\ UNCHANGED <<khvars, kpc, ktick, newest, late, said, doomed>>
           /\ Alive
           /\ locked_unlock_nullify \/ UNCHANGED <<content, taken>>
  <2>1. CASE locked_unlock_nullify
    <3>1. \A l \in Locks : content'[l] \in {content[l], NONE}
      BY <2>1 DEF locked_unlock_nullify, KWTypeOK
    <3> QED BY <1>5, <3>1, LockFacts
  <2>2. CASE UNCHANGED content
    BY <1>5, <2>2
  <2> QED BY <1>5, <2>1, <2>2
<1> QED BY <1>1, <1>2, <1>3, <1>4, <1>5, Steps

LEMMA LocksInit == KWInit => Reading /\ InTurn
  BY DEF KWInit, Reading, InTurn, KLock, Locks

\* What the application reads is one of the last two observations kwatcher has
\* made known, however slow either side is: each side takes the two lock files
\* in turn and waits for the lock (kwatcher.c, jitkclient.c).  Late files and
\* deaths of the application do not matter; a kwatcher that is started again
\* begins with the first lock file, whatever it had written last.
THEOREM ReadsRecent == KWSpec => [](deaths["kwatcher"] = 0 => GotRecent)
<1> DEFINE Inv == KWTypeOK /\ Calls /\ Reading /\ InTurn
<1>1. KWInit => Inv
  BY KWTypeInit, LocksInit
<1>2. Inv /\ [KWNext]_kwvars => Inv'
  BY KWTypeStep, ReadingStep, InTurnStep
<1>3. Inv => (deaths["kwatcher"] = 0 => GotRecent)
  BY LockFacts DEF Reading, InTurn, Alive, GotRecent
<1> QED BY <1>1, <1>2, <1>3, PTL DEF KWSpec

\* The two lock files never name the same observation, nor one that is newer
\* than the last one written.
LEMMA NamedInLocks ==
  ASSUME KWTypeOK, InTurn, SaidOnce, late = 0, Alive
  PROVE  /\ newest \in Nat /\ said[1] \in Nat /\ said[2] \in Nat
         /\ said[1] <= newest /\ said[2] <= said[1]
         /\ \A l \in Locks : content[l] \in {EMPTY, NONE, said[1], said[2]}
         /\ \A l, m \in Locks :
              l # m /\ content[l] \notin {EMPTY, NONE} =>
                content[l] # content[m]
<1>1. newest \in Nat /\ said[1] \in Nat /\ said[2] \in Nat
  BY KRingSize DEF KWTypeOK, NONE
<1>2. said[1] <= newest /\ said[2] <= said[1]
      /\ (said[2] < said[1] \/ said[2] = 0)
  BY <1>1 DEF SaidOnce
<1>3. \A l \in Locks : content[l] \in {EMPTY, NONE, said[1], said[2]}
  BY LockFacts DEF InTurn
<1>4. said[2] # said[1] \/ said[2] = NONE
  BY <1>1, <1>2 DEF NONE
<1>5. ASSUME NEW l \in Locks, NEW m \in Locks, l # m,
             content[l] \notin {EMPTY, NONE}
      PROVE  content[l] # content[m]
  BY <1>4, <1>5, LockFacts DEF InTurn
<1> QED BY <1>1, <1>2, <1>3, <1>5

\* What arrives, as far as what was written is concerned.
LEMMA SaidOnceTransfer ==
  ASSUME KWTypeOK, KOneDate, RingFalls, InTurn, SaidOnce, Alive,
         NEW d \in Dates, NEW t \in Types, transfer(d, t), late' = 0
  PROVE  SaidOnce'
<1>1. /\ late = 0 /\ newest' = d /\ newest <= d /\ d \in Nat /\ d > 0
      /\ curhistp \in Slots /\ KHistTypeOK
      /\ \/ d = date[curhistp] /\ Register(curhistp, d, t)
         \/ d > date[curhistp] /\ MkNew(d, t)
  BY InOrder, KRingSize DEF KWTypeOK, KHistTypeOK
<1>2. /\ newest \in Nat /\ said[1] \in Nat /\ said[1] <= newest
      /\ date[curhistp] = newest
  BY <1>1, NamedInLocks DEF SaidOnce
<1>3. UNCHANGED <<content, said, taken>>
      /\ (kpc' = "write" => files' # NULL)
  BY DEF transfer, cvars
<1>4. \/ said[2] < said[1] \/ said[2] = 0
  BY <1>1 DEF SaidOnce
<1>5. /\ \A x \in taken : x <= said[1]
      /\ \A l \in Locks : content[l] \notin {EMPTY, NONE} =>
           content[l] \notin taken
  BY <1>1 DEF SaidOnce
<1>6. CASE d = date[curhistp] /\ Register(curhistp, d, t)
  <2>1. date' = date /\ curhistp' = curhistp /\ newest' = newest
    BY <1>1, <1>2, <1>6 DEF Register
  <2>2. Full(curhistp) => Full(curhistp)'
    BY <1>1, <1>6 DEF Register, Full, KHistTypeOK
  <2>3. said[1] = newest /\ newest # 0 => Full(curhistp)
    BY <1>1 DEF SaidOnce
  <2>4. ASSUME kpc' = "write"
        PROVE  files' = newest /\ said[1] < newest /\ Full(curhistp)'
    <3>1. fname[curhistp][t] = NULL /\ files' = d
          /\ fname' = [fname EXCEPT ![curhistp][t] = d]
          /\ \A u \in Types \ {t} : fname[curhistp][u] # NULL
      BY <1>3, <1>6, <2>4 DEF Register
    <3>2. ~Full(curhistp)
      BY <3>1 DEF Full
    <3>3. said[1] < newest
      BY <1>1, <1>2, <1>6, <2>3, <3>2
    <3>4. \A u \in Types : fname'[curhistp][u] # NULL
      BY <1>1, <3>1, KRingSize DEF KHistTypeOK, NULL
    <3> QED BY <1>1, <2>1, <3>1, <3>3, <3>4 DEF Full
  <2> QED
    BY <1>1, <1>2, <1>3, <1>4, <1>5, <2>1, <2>2, <2>3, <2>4
    DEF SaidOnce, Full
<1>7. CASE d > date[curhistp] /\ MkNew(d, t)
  <2>1. PICK q \in Slots : q = Succ(curhistp)
    BY <1>1, KSuccValue
  <2>2. curhistp' = q /\ date' = [date EXCEPT ![q] = d] /\ files' = NULL
    BY <1>7, <2>1 DEF MkNew
  <2>3. date'[curhistp'] = d
    BY <1>1, <2>2 DEF KHistTypeOK
  <2>4. said[1] < d /\ said[1] # d
    BY <1>1, <1>2, <1>7
  <2>5. kpc' # "write"
    BY <1>3, <2>2
  <2> QED
    BY <1>1, <1>2, <1>3, <1>4, <1>5, <2>3, <2>4, <2>5 DEF SaidOnce
<1> QED BY <1>1, <1>6, <1>7

LEMMA SaidOnceStep ==
  /\ KWTypeOK /\ Calls /\ KOneDate /\ RingFalls /\ Reading /\ InTurn /\ SaidOnce
  /\ [KWNext]_kwvars
  => SaidOnce'
<1> SUFFICES ASSUME KWTypeOK, Calls, KOneDate, RingFalls, Reading, InTurn,
                    SaidOnce, [KWNext]_kwvars, late' = 0, Alive'
             PROVE  SaidOnce'
  BY DEF SaidOnce
<1>1. CASE \E d \in Dates, t \in Types : transfer(d, t)
  <2>1. Alive
    BY <1>1 DEF transfer, Alive
  <2> QED BY <1>1, <2>1, SaidOnceTransfer
<1>2. CASE unlink
  BY <1>2 DEF unlink, SaidOnce, Alive, Full, khvars, cvars
<1>3. CASE locked_lock
  BY <1>3 DEF locked_lock, SaidOnce, Alive, Full, khvars, cvars
<1>4. CASE locked_write
  <2>1. /\ content' = [content EXCEPT ![KLock] = files] /\ kpc = "write"
        /\ kpc' = "lock" /\ said' = <<files, said[1]>>
        /\ UNCHANGED <<khvars, newest, late, taken>> /\ late = 0 /\ Alive
    BY <1>4 DEF locked_write, Alive, cvars
  <2>2. /\ newest \in Nat /\ said[1] \in Nat
        /\ files = newest /\ said[1] < newest /\ Full(curhistp)
        /\ date[curhistp] = newest
    BY <2>1, NamedInLocks DEF SaidOnce
  <2>3. /\ \A x \in taken : x \in Nat /\ x <= said[1]
        /\ \A l \in Locks : content[l] \notin {EMPTY, NONE} =>
             content[l] \notin taken
    BY <2>1, KRingSize DEF SaidOnce, KWTypeOK, NONE
  <2>4. \A x \in taken : x < newest /\ x <= newest
    BY <2>2, <2>3
  <2>5. \A l \in Locks : content'[l] \notin {EMPTY, NONE} =>
          content'[l] \notin taken
    BY <2>1, <2>2, <2>3, <2>4, LockFacts DEF KWTypeOK
  <2>6. said'[1] = newest /\ said'[2] = said[1]
    BY <2>1, <2>2
  <2> QED
    BY <2>1, <2>2, <2>4, <2>5, <2>6 DEF SaidOnce, Full, khvars
<1>5. CASE /\ UNCHANGED <<khvars, kpc, ktick, newest, late, said, doomed>>
           /\ Alive
           /\ locked_unlock_nullify \/ UNCHANGED <<content, taken>>
  <2>1. CASE UNCHANGED <<content, taken>>
    BY <1>5, <2>1 DEF SaidOnce, Full, khvars
  <2>2. CASE locked_unlock_nullify
    <3>1. /\ content' = [content EXCEPT ![CLock] = NONE] /\ cpc = "close"
          /\ taken' = taken \cup {cdate} /\ cdate \in {NONE, content[CLock]}
      BY <2>2 DEF locked_unlock_nullify, Reading
    <3>2. /\ said[1] \in Nat /\ said[2] <= said[1] /\ said[2] \in Nat
          /\ content[CLock] \in {EMPTY, NONE, said[1], said[2]}
          /\ \A m \in Locks : m # CLock /\ content[m] \notin {EMPTY, NONE} =>
               content[m] # content[CLock]
      BY <1>5, NamedInLocks, LockFacts
    <3>3. cdate <= said[1]
      BY <3>1, <3>2 DEF EMPTY, NONE
    <3>4. \A x \in taken' : x <= said[1]
      BY <1>5, <3>1, <3>3 DEF SaidOnce
    <3>5. ASSUME NEW m \in Locks, content'[m] \notin {EMPTY, NONE}
          PROVE  content'[m] \notin taken'
      <4>1. m # CLock /\ content'[m] = content[m]
        BY <3>1, <3>5 DEF KWTypeOK
      <4>2. content[m] \notin taken
        BY <1>5, <3>5, <4>1 DEF SaidOnce
      <4>3. content[m] # cdate
        BY <3>1, <3>2, <3>5, <4>1 DEF NONE
      <4> QED BY <3>1, <4>1, <4>2, <4>3
    <3> QED BY <1>5, <3>4, <3>5 DEF SaidOnce, Full, khvars
  <2> QED BY <1>5, <2>1, <2>2
<1> QED BY <1>1, <1>2, <1>3, <1>4, <1>5, Steps

LEMMA SaidOnceInit == KWInit => SaidOnce
<1> SUFFICES ASSUME KWInit PROVE SaidOnce
  OBVIOUS
<1>1. /\ date = [s \in Slots |-> 0] /\ curhistp = 0 /\ newest = 0 /\ taken = {}
      /\ said = <<0, 0>> /\ kpc = "lock"
  BY DEF KWInit, KHistInit, NONE
<1>2. date[curhistp] = 0
  BY <1>1, KRingSize
<1> QED BY <1>1, <1>2 DEF SaidOnce

\* An observation is taken once, even if the application dies while it reads
\* and starts again at the first lock file: kwatcher writes a date once, and
\* the application nullifies the lock file it has read (misclib.c,
\* locked_unlock_nullify).
THEOREM TakesOnce == KWSpec => [](deaths["kwatcher"] = 0 => TakenOnce)
<1> DEFINE Inv == /\ KWTypeOK /\ Calls /\ KOneDate /\ RingFalls
                  /\ Reading /\ InTurn /\ SaidOnce
<1>1. KWInit => Inv
  BY KWTypeInit, OneDateInit, RingFallsInit, LocksInit, SaidOnceInit
<1>2. Inv /\ [KWNext]_kwvars => Inv'
  BY KWTypeStep, OneDateStep, RingFallsStep, ReadingStep, InTurnStep,
     SaidOnceStep
<1>3. Inv => (deaths["kwatcher"] = 0 => TakenOnce)
  BY LockFacts DEF Reading, SaidOnce, Alive, TakenOnce
<1> QED BY <1>1, <1>2, <1>3, PTL DEF KWSpec

-----------------------------------------------------------------------------
(* What has been made known is still there.                                *)

LEMMA SlotCount == IsFiniteSet(Slots) /\ Cardinality(Slots) = nhist
<1>1. 0 \in Int /\ nhist - 1 \in Int /\ 0 <= nhist - 1
  BY KRingSize
<1>2. IsFiniteSet(Slots) /\ Cardinality(Slots) = (nhist - 1) - 0 + 1
  BY <1>1, FS_Interval DEF Slots
<1> QED BY <1>2, KRingSize

\* If the entry made known last were the oldest one, more dates in a row would
\* have stayed incomplete than do.
LEMMA NotTheOldest ==
  ASSUME MaxSkipped + 2 <= nhist, KHistTypeOK, RingFalls, late = 0,
         date[Succ(curhistp)] # 0, date[Succ(curhistp)] = said[1]
  PROVE  ~(Cardinality({s \in Slots : date[s] > said[1]}) <= MaxSkipped)
<1> DEFINE New == {s \in Slots : date[s] > said[1]}
<1>1. PICK q \in Slots : q = Succ(curhistp)
  BY KSuccValue DEF KHistTypeOK
<1>2. said[1] \in Nat /\ \A s \in Slots : date[s] \in Nat
  BY <1>1, KRingSize DEF KHistTypeOK
<1>3. New = Slots \ {q}
  <2>1. ASSUME NEW s \in Slots, s # q
        PROVE  date[s] > said[1]
    BY <1>1, <1>2, <2>1, OldestNext
  <2>2. ~(date[q] > said[1])
    BY <1>1, <1>2
  <2> QED BY <2>1, <2>2
<1>4. Cardinality(Slots \ {q}) = Cardinality(Slots) - 1
  BY <1>1, SlotCount, FS_RemoveElement
<1>5. Cardinality(New) = nhist - 1
  BY <1>3, <1>4, SlotCount
<1> HIDE DEF New
<1>6. ~(Cardinality(New) <= MaxSkipped)
  BY <1>5, KRingSize, KWatchAssumption
<1> QED BY <1>6 DEF New

\* The files of the entry of the pointer are there once it is full.
LEMMA FullThere ==
  ASSUME KWTypeOK, KOneDate, Registered, late = 0, Alive, Full(curhistp),
         NEW t \in Types
  PROVE  <<date[curhistp], t>> \in disk
<1>1. fname[curhistp][t] = date[curhistp] /\ fname[curhistp][t] # NULL
  BY DEF KWTypeOK, KHistTypeOK, KOneDate, Full
<1>2. date[curhistp] \in Dates /\ curhistp \in Slots
  BY <1>1 DEF KWTypeOK, KHistTypeOK, NULL
<1> QED BY <1>1, <1>2 DEF Registered

LEMMA SaidThereStep ==
  ASSUME MaxSkipped + 2 <= nhist,
         KWTypeOK, Calls, KOneDate, RingFalls, Registered, InTurn, SaidOnce,
         SaidThere, [KWNext]_kwvars
  PROVE  SaidThere'
<1> SUFFICES ASSUME late' = 0, Alive' PROVE SaidThere'
  BY DEF SaidThere
<1>1. CASE \E d \in Dates, t \in Types : transfer(d, t)
  <2>1. PICK d \in Dates, t \in Types : transfer(d, t)
    BY <1>1
  <2>2. /\ late = 0 /\ d \in Nat /\ KHistTypeOK /\ curhistp \in Slots
        /\ \/ d = date[curhistp] /\ Register(curhistp, d, t)
           \/ d > date[curhistp] /\ MkNew(d, t)
    <3>1. /\ late = 0
          /\ \/ d = date[curhistp] /\ Register(curhistp, d, t)
             \/ d > date[curhistp] /\ MkNew(d, t)
      BY <2>1, InOrder
    <3>2. KHistTypeOK
      BY DEF KWTypeOK
    <3>3. curhistp \in Slots
      BY <3>2 DEF KHistTypeOK
    <3>4. d \in Nat
      BY KRingSize
    <3> QED BY <3>1, <3>2, <3>3, <3>4
  <2>3. /\ Alive /\ said' = said /\ kpc' # "lock"
        /\ d > newest =>
             Cardinality({s \in Slots : date[s] > said[1]}) <= MaxSkipped
    BY <2>1 DEF transfer, Alive
  <2>4. said[1] # 0 => \A u \in Types : <<said[1], u>> \in disk
    BY <2>2, <2>3 DEF SaidThere
  <2>5. said[1] # 0 => \A u \in Types : <<said[1], u>> \in disk'
    <3>1. CASE Register(curhistp, d, t)
      BY <2>4, <3>1 DEF Register
    <3>2. CASE d > date[curhistp] /\ MkNew(d, t)
      <4>1. PICK q \in Slots : q = Succ(curhistp)
        BY <2>2, KSuccValue
      <4>2. disk' = (disk \cup {<<d, t>>}) \ FilesOf(q)
        BY <3>2, <4>1 DEF MkNew
      <4>3. date[curhistp] = newest
        BY <2>2, <2>3 DEF SaidOnce
      <4>4. said[1] = 0 \/ date[q] # said[1]
        BY <2>2, <2>3, <3>2, <4>1, <4>3, NotTheOldest
      <4>5. ASSUME said[1] # 0, NEW u \in Types
            PROVE  <<said[1], u>> \notin FilesOf(q)
        BY <4>4, <4>5 DEF FilesOf, KOneDate, NULL
      <4> QED BY <2>4, <4>2, <4>5
    <3> QED BY <2>2, <3>1, <3>2
  <2> QED BY <2>3, <2>5 DEF SaidThere
<1>2. CASE unlink
  BY <1>2 DEF unlink, SaidThere, Alive, khvars
<1>3. CASE locked_lock
  BY <1>3 DEF locked_lock, SaidThere, Alive, khvars
<1>4. CASE locked_write
  <2>1. /\ said' = <<files, said[1]>> /\ kpc = "write" /\ disk' = disk
        /\ late = 0 /\ Alive
    BY <1>4 DEF locked_write, khvars, Alive
  <2>2. files = date[curhistp] /\ Full(curhistp)
    BY <2>1 DEF SaidOnce
  <2>3. \A t \in Types : <<files, t>> \in disk
    BY <2>1, <2>2, FullThere
  <2>4. said'[1] = files /\ said'[2] = said[1]
    BY <2>1
  <2>5. said[1] # 0 => \A t \in Types : <<said[1], t>> \in disk
    BY <2>1 DEF SaidThere
  <2> QED BY <2>1, <2>3, <2>4, <2>5 DEF SaidThere
<1>5. CASE /\ UNCHANGED <<khvars, kpc, ktick, newest, late, said, doomed>>
           /\ Alive
  BY <1>5 DEF SaidThere, khvars
<1> QED BY <1>1, <1>2, <1>3, <1>4, <1>5, Steps

-----------------------------------------------------------------------------
(* What the application has read.                                          *)

\* The observation the application reads has all its files.
LEMMA ReadsThere ==
  ASSUME KWTypeOK, Reading, InTurn, SaidThere, late = 0, Alive, cpc = "files",
         NEW t \in Types
  PROVE  <<cdate, t>> \in disk
<1>1. cdate = content[CLock] /\ cdate \notin {EMPTY, NONE}
  BY DEF Reading
<1>2. cdate \in {said[1]} \cup (IF kpc = "lock" THEN {said[2]} ELSE {})
  BY <1>1, LockFacts DEF InTurn
<1> QED BY <1>1, <1>2 DEF SaidThere, NONE

\* The broadcasts take their data from the areas rank 0 has read into, when
\* the types it has read are the first ones.
LEMMA AreaOfType ==
  ASSUME NEW n \in 0..Cardinality(Types), NEW t \in Types, t < n,
         \A u \in Types : part[u] # NULL <=> u < n
  PROVE  Area(t) = t
<1>1. PICK m \in Nat : m = Cardinality(Types) /\ Types = 0..(m - 1)
  BY TypesFacts
<1>2. t \in Nat /\ n \in Nat /\ n <= m
  BY <1>1
<1>3. {u \in Types : u < t /\ part[u] # NULL} = 0..(t - 1)
  <2>1. t <= m - 1 /\ t \in Int /\ m \in Int
    BY <1>1, <1>2
  <2>2. ASSUME NEW u
        PROVE  u \in 0..(t - 1) <=> u \in Types /\ u < t
    <3>1. \A i \in 0..(t - 1) : i \in 0..(m - 1) /\ i < t
      BY <2>1
    <3>2. \A i \in 0..(m - 1) : i < t => i \in 0..(t - 1)
      BY <2>1
    <3> QED BY <1>1, <3>1, <3>2
  <2>3. ASSUME NEW u \in Types, u < t
        PROVE  part[u] # NULL
    <3>1. u \in Nat
      BY <1>1
    <3>2. u < n
      BY <1>2, <2>3, <3>1
    <3> QED BY <3>2
  <2>4. ASSUME NEW u
        PROVE  u \in {v \in Types : v < t /\ part[v] # NULL} <=>
                 u \in 0..(t - 1)
    BY <2>2, <2>3
  <2> QED BY <2>4
<1>4. Cardinality(0..(t - 1)) = t
  <2>1. CASE t = 0
    <3>1. 0..(t - 1) = {}
      BY <2>1
    <3> QED BY <2>1, <3>1, FS_EmptySet
  <2>2. CASE t > 0
    <3>1. 0 \in Int /\ t - 1 \in Int /\ 0 <= t - 1
      BY <1>2, <2>2
    <3>2. Cardinality(0..(t - 1)) = (t - 1) - 0 + 1
      BY <3>1, FS_Interval
    <3> QED BY <1>2, <3>2
  <2> QED BY <1>2, <2>1, <2>2
<1> QED BY <1>3, <1>4 DEF Area

LEMMA BcastAgrees ==
  ASSUME KWTypeOK, HasRead, late = 0, Alive, MPI_Bcast
  PROVE  others' = part
<1>1. PICK n \in 0..Cardinality(Types) :
        \A t \in Types : part[t] = IF t < n THEN cdate ELSE NULL
  BY DEF HasRead, MPI_Bcast
<1>2. others = NoPart /\ part \in [Types -> Dates \cup {NULL}]
  BY DEF HasRead, MPI_Bcast, KWTypeOK
<1> DEFINE areas == {Area(t) : t \in {u \in Types : part[u] # NULL}}
<1>3. others' = [t \in Types |-> IF t \in areas THEN part[t] ELSE others[t]]
  BY DEF MPI_Bcast
<1>4. ASSUME NEW t \in Types
      PROVE  t \in areas <=> part[t] # NULL
  <2>1. CASE cdate = NULL
    BY <1>1, <2>1
  <2>2. CASE cdate # NULL
    <3>1. \A u \in Types : part[u] # NULL <=> u < n
      BY <1>1, <2>2
    <3>2. \A u \in Types : part[u] # NULL => Area(u) = u
      BY <3>1, AreaOfType
    <3> QED BY <3>2
  <2> QED BY <2>1, <2>2
<1>5. \A t \in Types : others'[t] = part[t]
  BY <1>2, <1>3, <1>4 DEF NoPart
<1> QED BY <1>2, <1>3, <1>5

\* jitget reads the file of the next type, which is there.
LEMMA HasReadFile ==
  ASSUME KWTypeOK, Calls, Reading, InTurn, SaidThere, HasRead, late = 0, Alive,
         jitget_file
  PROVE  HasRead'
<1>1. /\ cpc = "files" /\ ci' = ci + 1 /\ cdate' = cdate /\ call' = call
      /\ others' = others
      /\ part' = IF <<cdate, ci>> \in There THEN [part EXCEPT ![ci] = cdate]
                                            ELSE part
      /\ cpc' = IF ci + 1 < call.arg THEN "files" ELSE "close"
  BY DEF jitget_file
<1>2. PICK m \in Nat : m = Cardinality(Types) /\ Types = 0..(m - 1)
  BY TypesFacts
<1>3. PICK c \in Nat : c = call.arg /\ c <= m /\ ci < c /\ call.cmd = "GET"
  <2>1. PICK c \in Counts : c = call.arg
    BY <1>1 DEF Calls
  <2> QED BY <1>1, <1>2, <2>1, CountFacts DEF Calls
<1>4. ci \in Nat /\ ci \in Types
  <2>1. ci \in 0..m
    BY <1>2 DEF KWTypeOK
  <2>2. ci \in Nat /\ ci \in 0..(m - 1)
    BY <1>3, <2>1
  <2> QED BY <1>2, <2>2
<1>5. part' = [part EXCEPT ![ci] = cdate]
  <2>1. <<cdate, ci>> \in There
    BY <1>1, <1>4, ReadsThere DEF There
  <2> QED BY <1>1, <2>1
<1>6. \A t \in Types : part'[t] = IF t < ci + 1 THEN cdate ELSE NULL
  <2>1. ASSUME NEW t \in Types
        PROVE  part'[t] = IF t < ci + 1 THEN cdate ELSE NULL
    <3>1. t \in Nat /\ part[t] = IF t < ci THEN cdate ELSE NULL
      BY <1>1, <1>2 DEF HasRead
    <3>2. part'[t] = IF t = ci THEN cdate ELSE part[t]
      BY <1>5 DEF KWTypeOK
    <3> QED BY <1>4, <3>1, <3>2
  <2> QED BY <2>1
<1>7. others' = NoPart
  BY <1>1 DEF HasRead
<1>8. cpc' = "close" => c = ci + 1
  BY <1>1, <1>3, <1>4
<1> QED
  BY <1>1, <1>3, <1>6, <1>7, <1>8 DEF HasRead, NoPart

LEMMA HasReadStep ==
  /\ KWTypeOK /\ Calls /\ Reading /\ InTurn /\ SaidThere /\ HasRead
  /\ [KWNext]_kwvars
  => HasRead'
<1> SUFFICES ASSUME KWTypeOK, Calls, Reading, InTurn, SaidThere, HasRead,
                    [KWNext]_kwvars, late' = 0, Alive'
             PROVE  HasRead'
  BY DEF HasRead
<1>1. ASSUME UNCHANGED cvars, late = 0, Alive
      PROVE  HasRead'
  BY <1>1 DEF HasRead, cvars, NoPart
<1>2. CASE \E d \in Dates, t \in Types : transfer(d, t)
  <2>1. UNCHANGED <<cvars, deaths>> /\ (late' = late \/ late' = late + 1)
    BY <1>2 DEF transfer
  <2>2. late = 0 /\ Alive
    BY <2>1, KWatchAssumption DEF KWTypeOK, Alive
  <2> QED BY <1>1, <2>1, <2>2
<1>3. CASE unlink \/ locked_write \/ locked_lock
  BY <1>1, <1>3 DEF unlink, locked_write, locked_lock, Alive
<1>4. CASE kwatcher_restart
  <2>1. deaths' = [deaths EXCEPT !["kwatcher"] = deaths["kwatcher"] + 1]
    BY <1>4 DEF kwatcher_restart
  <2>2. deaths["kwatcher"] \in Nat /\ deaths \in [{"kwatcher", "app"} -> Nat]
    BY DEF Calls
  <2>3. deaths'["kwatcher"] # 0
    BY <2>1, <2>2
  <2> QED BY <2>3 DEF Alive
<1>5. CASE jitcall
  <2>1. /\ cpc = "idle" /\ cpc' = "lock" /\ UNCHANGED <<part, others>>
        /\ late = 0 /\ Alive
    BY <1>5 DEF jitcall, kvars, Alive
  <2>2. others' = part'
    BY <2>1 DEF HasRead
  <2> QED BY <2>1, <2>2 DEF HasRead
<1>6. CASE jit_lock \/ jit_fail \/ jitopen_fail
  <2>1. /\ cpc \in {"lock", "read"} /\ cpc' \in {"idle", "read"}
        /\ UNCHANGED <<part, others>> /\ late = 0 /\ Alive
    BY <1>6 DEF jit_lock, jit_fail, jitopen_fail, kvars, Alive
  <2>2. others' = part'
    BY <2>1 DEF HasRead
  <2> QED BY <2>1, <2>2 DEF HasRead
<1>7. CASE jitget_read
  <2>1. /\ part' = NoPart /\ others' = NoPart /\ ci' = 0
        /\ cpc' \in {"close", "files"} /\ call' = call /\ call.cmd = "GET"
        /\ cpc' = "close" => cdate' = NULL
    BY <1>7 DEF jitget_read, NONE, NULL
  <2>2. \A t \in Types : part'[t] = NULL /\ ~(t < 0)
    BY <2>1, KRingSize DEF NoPart
  <2> QED BY <2>1, <2>2 DEF HasRead, NoPart
<1>8. CASE jitget_file
  BY <1>8, HasReadFile DEF jitget_file, kvars, Alive
<1>9. CASE jitopen_read
  BY <1>9 DEF jitopen_read, HasRead
<1>10. CASE jitread
  <2>1. cpc' = "opened" /\ others' = part'
    BY <1>10 DEF jitread
  <2> QED BY <2>1 DEF HasRead
<1>11. CASE jitclose
  <2>1. /\ cpc = "opened" /\ cpc' = "close" /\ call' = call
        /\ call.cmd = "OPEN" /\ UNCHANGED <<part, others>> /\ late = 0 /\ Alive
    BY <1>11 DEF jitclose, kvars, Alive, Calls
  <2>2. others' = part'
    BY <2>1 DEF HasRead
  <2> QED BY <2>1, <2>2 DEF HasRead
<1>12. CASE locked_unlock_nullify
  <2>1. /\ cpc = "close" /\ UNCHANGED <<part, others, cdate>>
        /\ cpc' = Returns /\ late = 0 /\ Alive
    BY <1>12 DEF locked_unlock_nullify, Alive
  <2>2. CASE call.cmd = "OPEN"
    <3>1. cpc' = "idle" /\ others' = part'
      BY <2>1, <2>2 DEF HasRead, Returns
    <3> QED BY <3>1 DEF HasRead
  <2>3. CASE call.cmd = "GET"
    <3>1. cpc' = "bcast" /\ call.arg \in Counts
      BY <2>1, <2>3 DEF Calls, Returns
    <3>2. PICK m \in Nat : m = Cardinality(Types)
      BY TypesFacts
    <3>3. PICK c \in Counts : c = call.arg
      BY <3>1
    <3>4. c \in 0..m
      BY <3>2, CountFacts
    <3>5. \A t \in Types : part'[t] = IF t < c THEN cdate' ELSE NULL
      BY <2>1, <2>3, <3>3 DEF HasRead
    <3>6. others' = NoPart'
      BY <2>1, <2>3 DEF HasRead, NoPart
    <3> QED BY <3>1, <3>2, <3>4, <3>5, <3>6 DEF HasRead
  <2> QED BY <2>1, <2>2, <2>3 DEF Calls
<1>13. CASE MPI_Bcast
  <2>1. others' = part' /\ cpc' = "idle"
    <3>1. late = 0 /\ Alive /\ part' = part /\ cpc' = "idle"
      BY <1>13 DEF MPI_Bcast, kvars, Alive
    <3> QED BY <1>13, <3>1, BcastAgrees
  <2> QED BY <2>1 DEF HasRead
<1>14. CASE app_restart
  BY <1>14 DEF app_restart, HasRead
<1>15. CASE UNCHANGED kwvars
  BY <1>1, <1>15 DEF kwvars, kvars, Alive
<1> QED
  BY <1>2, <1>3, <1>4, <1>5, <1>6, <1>7, <1>8, <1>9, <1>10, <1>11, <1>12,
     <1>13, <1>14, <1>15
  DEF KWNext, kwatcher, jitclient

ReadInv ==
  /\ KWTypeOK /\ Calls /\ KOneDate /\ RingFalls /\ Registered
  /\ Reading /\ InTurn /\ SaidOnce /\ SaidThere /\ HasRead

LEMMA ReadInvariant ==
  ASSUME MaxSkipped + 2 <= nhist
  PROVE  KWSpec => []ReadInv
<1>1. KWInit => SaidThere /\ HasRead
  BY DEF KWInit, KHistInit, SaidThere, HasRead, NONE
<1>2. KWInit => ReadInv
  BY <1>1, KWTypeInit, OneDateInit, RingFallsInit, RegisteredInit, LocksInit,
     SaidOnceInit DEF ReadInv
<1>3. ReadInv /\ [KWNext]_kwvars => ReadInv'
  BY KWTypeStep, OneDateStep, RingFallsStep, RegisteredStep, ReadingStep,
     InTurnStep, SaidOnceStep, SaidThereStep, HasReadStep DEF ReadInv
<1> QED BY <1>2, <1>3, PTL DEF KWSpec

\* The application finds every file of the observation it was told of, though
\* kwatcher goes on removing files meanwhile, and after a death of the
\* application as well, as long as the ring has room for the observations that
\* stay incomplete in a row and for the two the lock files name (jitkclient.c,
\* jitget; kwatcher.c, mkhist).
THEOREM ReadsWhole ==
  ASSUME MaxSkipped + 2 <= nhist
  PROVE  KWSpec => [](late = 0 => GotWhole)
<1>1. ReadInv => (late = 0 => GotWhole)
  <2> SUFFICES ASSUME ReadInv, late = 0, Alive, cpc = "close",
                      call.cmd = "GET", NEW t \in 0..(call.arg - 1)
               PROVE  part[t] = cdate
    BY DEF GotWhole, Alive
  <2>1. PICK m \in Nat : m = Cardinality(Types) /\ Types = 0..(m - 1)
    BY TypesFacts
  <2>2. PICK c \in Counts : c = call.arg
    BY DEF ReadInv, Calls
  <2>3. c \in Nat /\ c <= m
    BY <2>1, CountFacts
  <2>4. t \in Types /\ t < c
    <3>1. t \in 0..(c - 1)
      BY <2>2
    <3>2. t \in 0..(m - 1) /\ t < c
      BY <2>3, <3>1
    <3> QED BY <2>1, <3>2
  <2> QED BY <2>2, <2>4 DEF ReadInv, HasRead
<1> QED BY <1>1, ReadInvariant, PTL

\* When a call returns, every MPI rank holds the same data in the same areas:
\* no file is missing that would shift the areas of the broadcast against those
\* rank 0 has read into (jitclient.c, MPI_Bcast after jitget).
THEOREM AllRanksAgree ==
  ASSUME MaxSkipped + 2 <= nhist
  PROVE  KWSpec => [](late = 0 => RanksAgree)
<1>1. ReadInv => (late = 0 => RanksAgree)
  BY DEF ReadInv, HasRead, RanksAgree, Alive
<1> QED BY <1>1, ReadInvariant, PTL
=============================================================================
