-------------------------- MODULE LockedMoveProofs --------------------------
(***************************************************************************)
(* Proofs about locked_move and the application that reads what it writes: *)
(* for every number of files, writes and deaths.                           *)
(***************************************************************************)
EXTENDS LockedMove, TLAPS

-----------------------------------------------------------------------------
(* The locks: each is held by whom its control point says.                 *)

\* Both lock files are there, and MHolds and RHolds name one of them.
LEMMA ReadyFacts ==
  ASSUME NEW l \in Ready
  PROVE  1 - l \in Ready /\ 1 - (1 - l) = l /\ 1 - l # l
  BY DEF Ready

LEMMA LMTypeInit == LMInit => LMTypeOK
  BY LockedMoveAssumption
  DEF LMInit, LMTypeOK, Moved, Ready, NoName, Absent, Nobody

\* Where the mover is in the middle of a file, there is a file.
MovesOne == mpc \in {"lock", "copy", "write"} => mfile \in Moved

LEMMA LMTypeStep ==
  LMTypeOK /\ MovesOne /\ [LMNext]_lmvars => LMTypeOK' /\ MovesOne'
<1> SUFFICES ASSUME LMTypeOK, MovesOne, [LMNext]_lmvars
             PROVE  LMTypeOK' /\ MovesOne'
  OBVIOUS
<1> USE LockedMoveAssumption DEF LMTypeOK, MovesOne, Moved, Ready, NoName,
        Absent, Nobody, MHolds, RHolds, mvars, rvars
<1>1. CASE arrive
  BY <1>1 DEF arrive
<1>2. CASE move_lock
  BY <1>2 DEF move_lock
<1>3. CASE copy
  BY <1>3 DEF copy
<1>4. CASE remove
  BY <1>4 DEF remove
<1>5. CASE write_name
  BY <1>5 DEF write_name
<1>6. CASE move_dies
  BY <1>6 DEF move_dies
<1>7. CASE move_restart
  BY <1>7 DEF move_restart
<1>8. CASE read_call
  BY <1>8 DEF read_call
<1>9. CASE read_lock
  BY <1>9 DEF read_lock
<1>10. CASE read_nothing
  BY <1>10 DEF read_nothing
<1>11. CASE jitget_none
  BY <1>11 DEF jitget_none
<1>12. CASE jitopen_none
  BY <1>12 DEF jitopen_none
<1>13. CASE read_restart
  BY <1>13 DEF read_restart
<1>14. CASE UNCHANGED lmvars
  BY <1>14 DEF lmvars
<1> QED
  BY <1>1, <1>2, <1>3, <1>4, <1>5, <1>6, <1>7, <1>8, <1>9, <1>10, <1>11,
     <1>12, <1>13, <1>14 DEF LMNext, locked_move, reader

\* The control points, the locks and the lock files are as LMTypeOK says: in
\* particular locked_move copies and writes a name only under the lock it
\* waited for, and no more than one process is at work under each.
THEOREM LockedMoveTypeCorrect == LMSpec => []LMTypeOK
<1>1. LMInit => LMTypeOK /\ MovesOne
  BY LMTypeInit DEF LMInit, MovesOne
<1> QED BY <1>1, LMTypeStep, PTL DEF LMSpec

-----------------------------------------------------------------------------
(* The files.  Neither property is inductive: what a step does to a file is *)
(* safe because of how far locked_move has come with it.                   *)

\* From the announcement to the unlink the file is still in its directory, so
\* emptying the destination loses nothing; after it the copy is whole.
Progress ==
  /\ mpc \in {"lock", "copy"} => mfile \in here
  /\ mpc = "write" => there[mfile] = Blocks /\ mfile \notin here

\* Only files that have been announced are named.
NamesKnown == \A l \in Ready : named[l] <= mfile

MoveInv ==
  /\ LMTypeOK /\ MovesOne /\ Progress /\ NamesKnown
  /\ NothingLost /\ NamedIsWhole

LEMMA MoveInit == LMInit => MoveInv
  BY LMTypeInit, LockedMoveAssumption
  DEF LMInit, MoveInv, MovesOne, Progress, NamesKnown, NothingLost,
      NamedIsWhole, Moved, Ready, NoName

LEMMA MoveStep == MoveInv /\ [LMNext]_lmvars => MoveInv'
<1> SUFFICES ASSUME MoveInv, [LMNext]_lmvars
             PROVE  /\ Progress' /\ NamesKnown'
                    /\ NothingLost' /\ NamedIsWhole'
  BY LMTypeStep DEF MoveInv
<1>0. LMTypeOK' /\ MovesOne'
  BY LMTypeStep DEF MoveInv
<1> USE LockedMoveAssumption DEF MoveInv, LMTypeOK, MovesOne, Progress,
        NamesKnown, NothingLost, NamedIsWhole, Moved, Ready, NoName, Absent,
        MHolds, RHolds, mvars, rvars
<1>1. CASE arrive
  BY <1>1 DEF arrive
<1>2. CASE move_lock
  BY <1>2 DEF move_lock
<1>3. CASE copy
  BY <1>3 DEF copy
<1>4. CASE remove
  BY <1>4 DEF remove
<1>5. CASE write_name
  BY <1>5 DEF write_name
<1>6. CASE move_dies
  BY <1>6 DEF move_dies
<1>7. CASE move_restart
  BY <1>7 DEF move_restart
<1>8. CASE jitget_none
  BY <1>8 DEF jitget_none
<1>9. CASE read_call \/ read_lock \/ read_nothing \/ jitopen_none
           \/ read_restart
  BY <1>9 DEF read_call, read_lock, read_nothing, jitopen_none, read_restart
<1>10. CASE UNCHANGED lmvars
  BY <1>10 DEF lmvars
<1> QED
  BY <1>1, <1>2, <1>3, <1>4, <1>5, <1>6, <1>7, <1>8, <1>9, <1>10
  DEF LMNext, locked_move, reader

\* Of every file announced, the watched directory still has it or the other
\* directory has all of it, wherever locked_move stops and however often it is
\* started again.
THEOREM MovedNotLost == LMSpec => []NothingLost
<1>1. MoveInv => NothingLost
  BY DEF MoveInv
<1> QED BY <1>1, MoveInit, MoveStep, PTL DEF LMSpec

\* A lock file never names a file that locked_move has yet to finish.
THEOREM NamesWhole == LMSpec => []NamedIsWhole
<1>1. MoveInv => NamedIsWhole
  BY DEF MoveInv
<1> QED BY <1>1, MoveInit, MoveStep, PTL DEF LMSpec
=============================================================================
