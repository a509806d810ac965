----------------------------- MODULE DateQueue -----------------------------
(***************************************************************************)
(* What the history of the client-machine daemon promises, with no ring,   *)
(* no pointers and no file removal: a bounded FIFO of observation dates.   *)
(* Each pending entry names a date and the data types that arrived for it. *)
(* A newer date is appended, and when the queue is full the oldest pending *)
(* date is given up; a file of a pending date joins its entry; any other   *)
(* old file changes nothing.                                               *)
(***************************************************************************)
EXTENDS Integers, Sequences

CONSTANTS Types,      \* the data types of the "sync" group
          Dates,      \* observation dates
          Capacity    \* how many dates may be pending at once

VARIABLES queue,      \* pending entries, the oldest first
          newest      \* the newest date ever put, 0 before the first

vars == <<queue, newest>>

Entry == [date : Dates, types : SUBSET Types]

TypeOK == /\ queue \in Seq(Entry)
          /\ Len(queue) <= Capacity
          /\ newest \in Dates \cup {0}

Init == queue = <<>> /\ newest = 0

\* A date newer than every other one opens an entry of its own.
PutNew(d, t) ==
  /\ d > newest
  /\ newest' = d
  /\ LET e == [date |-> d, types |-> {t}]
     IN  queue' = IF Len(queue) < Capacity THEN Append(queue, e)
                                           ELSE Append(Tail(queue), e)

\* A file of a date that is still pending completes that entry.
PutPending(d, t) ==
  /\ \E i \in 1..Len(queue) :
       /\ queue[i].date = d
       /\ queue' = [queue EXCEPT ![i].types = @ \cup {t}]
  /\ UNCHANGED newest

\* The reader is done with the oldest pending date.
Take == queue # <<>> /\ queue' = Tail(queue) /\ UNCHANGED newest

Next == \/ \E d \in Dates, t \in Types : PutNew(d, t) \/ PutPending(d, t)
        \/ Take

Spec == Init /\ [][Next]_vars
=============================================================================
