--------------------------- MODULE HistoryProofs ---------------------------
(***************************************************************************)
(* Proofs about the history ring, for every size of the ring, every set of *)
(* dates and types: see History.tla for the properties.                    *)
(***************************************************************************)
EXTENDS History, SequenceTheorems, TLAPS

-----------------------------------------------------------------------------
(* Arithmetic of the ring.                                                 *)

\* histinit never leaves a ring of fewer than five entries.
LEMMA RingSize == nhist \in Nat /\ nhist >= 5
  BY HistoryAssumption DEF nhist, KEEP_FILE_COUNT, MAX_HISTORY

\* UPDATE_POINTER stays in the ring.
LEMMA SuccValue ==
  ASSUME NEW v \in Slots
  PROVE  Succ(v) = (IF v = nhist - 1 THEN 0 ELSE v + 1) /\ Succ(v) \in Slots
  BY RingSize DEF Succ, Slots

\* k applications of REWIND_POINTER stay in the ring.
LEMMA BehindValue ==
  ASSUME NEW v \in Slots, NEW k \in 0..(nhist - 1)
  PROVE  /\ Behind(v, k) = IF k <= v THEN v - k ELSE v + nhist - k
         /\ Behind(v, k) \in Slots
  BY RingSize DEF Behind, Slots

\* Fewer than nhist steps back never come to the same slot twice.
LEMMA BehindInjective ==
  ASSUME NEW v \in Slots, NEW j \in 0..(nhist - 1), NEW k \in 0..(nhist - 1),
         Behind(v, j) = Behind(v, k)
  PROVE  j = k
<1>1. Behind(v, j) = IF j <= v THEN v - j ELSE v + nhist - j
  BY BehindValue
<1>2. Behind(v, k) = IF k <= v THEN v - k ELSE v + nhist - k
  BY BehindValue
<1>3. v \in Int /\ j \in Int /\ k \in Int /\ nhist \in Int
      /\ j < nhist /\ k < nhist /\ j >= 0 /\ k >= 0
  BY RingSize DEF Slots
<1>4. (IF j <= v THEN v - j ELSE v + nhist - j)
        = (IF k <= v THEN v - k ELSE v + nhist - k)
  BY <1>1, <1>2
<1> QED BY <1>3, <1>4

\* Every slot is some number of steps back.
LEMMA BehindOnto ==
  ASSUME NEW v \in Slots, NEW s \in Slots
  PROVE  \E k \in 0..(nhist - 1) : Behind(v, k) = s
<1> DEFINE k == IF s <= v THEN v - s ELSE v + nhist - s
<1>1. k \in 0..(nhist - 1)
  BY RingSize DEF Slots
<1>2. Behind(v, k) = IF k <= v THEN v - k ELSE v + nhist - k
  BY <1>1, BehindValue
<1>3. Behind(v, k) = s
  BY <1>2, RingSize DEF Slots
<1> QED BY <1>1, <1>3

\* One step forth and k + 1 back is k back.
LEMMA BehindSucc ==
  ASSUME NEW v \in Slots, NEW k \in 1..(nhist - 1)
  PROVE  /\ Behind(Succ(v), k) = Behind(v, k - 1)
         /\ Succ(Behind(v, k)) = Behind(v, k - 1)
<1>1. k \in 0..(nhist - 1) /\ k - 1 \in 0..(nhist - 1)
  BY RingSize
<1>2. PICK w \in Slots : w = Succ(v)
  BY SuccValue
<1>3. w = IF v = nhist - 1 THEN 0 ELSE v + 1
  BY <1>2, SuccValue
<1>4. Behind(w, k) = IF k <= w THEN w - k ELSE w + nhist - k
  BY <1>1, BehindValue
<1>5. Behind(v, k - 1) = IF k - 1 <= v THEN v - (k - 1) ELSE v + nhist - (k - 1)
  BY <1>1, BehindValue
<1>6. Behind(w, k) = Behind(v, k - 1)
  BY <1>3, <1>4, <1>5, RingSize DEF Slots
<1>7. PICK b \in Slots : b = Behind(v, k)
  BY <1>1, BehindValue
<1>8. Succ(b) = IF b = nhist - 1 THEN 0 ELSE b + 1
  BY SuccValue
<1>9. b = IF k <= v THEN v - k ELSE v + nhist - k
  BY <1>1, <1>7, BehindValue
<1>10. Succ(b) = Behind(v, k - 1)
  BY <1>5, <1>8, <1>9, RingSize DEF Slots
<1> QED BY <1>2, <1>6, <1>7, <1>10

\* The slot ahead is the one farthest back.
LEMMA SuccIsFarthest ==
  ASSUME NEW v \in Slots
  PROVE  /\ Succ(v) = Behind(v, nhist - 1)
         /\ Behind(v, 0) = v
<1>1. 0 \in 0..(nhist - 1) /\ nhist - 1 \in 0..(nhist - 1)
  BY RingSize
<1>2. Behind(v, 0) = v
  BY <1>1, BehindValue, RingSize DEF Slots
<1>3. Behind(v, nhist - 1) = IF nhist - 1 <= v THEN v - (nhist - 1)
                             ELSE v + nhist - (nhist - 1)
  BY <1>1, BehindValue
<1>4. Succ(v) = IF v = nhist - 1 THEN 0 ELSE v + 1
  BY SuccValue
<1> QED BY <1>2, <1>3, <1>4, RingSize DEF Slots

\* A date is a positive number; 0 stands for none.
LEMMA DateFacts == \A d \in Dates : d \in Nat /\ d > 0 /\ d # 0
  BY HistoryAssumption DEF NULL

-----------------------------------------------------------------------------
(* The shape of the ring.                                                  *)

\* The backward search finds the slot of the date, when there is one.
LEMMA DistanceFacts ==
  ASSUME HistTypeOK, DatesDescend, NEW d \in Dates
  PROVE  /\ Distance(d) \in 1..nhist
         /\ Distance(d) < nhist => date[Back(Distance(d))] = d
         /\ Distance(d) = nhist => \A k \in 1..(nhist - 1) : date[Back(k)] # d
<1> USE RingSize
<1>1. CASE \E k \in 1..(nhist - 1) : date[Back(k)] = d
  <2>1. PICK k \in 1..(nhist - 1) : date[Back(k)] = d
    BY <1>1
  <2>2. \A j \in 1..(k - 1) : date[Back(j)] # d
    <3> SUFFICES ASSUME NEW j \in 1..(k - 1), date[Back(j)] = d PROVE FALSE
      OBVIOUS
    <3>1. j \in 0..(nhist - 1) /\ k \in 0..(nhist - 1) /\ j < k
      OBVIOUS
    <3>2. d \in Nat /\ d # 0
      BY DateFacts
    <3> QED BY <2>1, <3>1, <3>2 DEF DatesDescend
  <2>3. /\ Distance(d) \in 1..(nhist - 1)
        /\ date[Back(Distance(d))] = d
    BY <1>1, <2>1, <2>2 DEF Distance
  <2> QED BY <2>3
<1>2. CASE ~ \E k \in 1..(nhist - 1) : date[Back(k)] = d
  BY <1>2 DEF Distance
<1> QED BY <1>1, <1>2

\* The ring starts with the right shape.
LEMMA ShapeInit == HistInit => RingShape
<1> SUFFICES ASSUME HistInit PROVE RingShape
  OBVIOUS
<1> USE RingSize DEF HistInit
<1>1. HistTypeOK
  BY DEF HistTypeOK, Slots, Empty, NULL, KEEP_FILE_COUNT
<1>2. PointersAgree /\ Fresh
  BY DEF PointersAgree, Fresh, Slots
<1>3. DatesDescend
  <2>1. \A k \in 0..(nhist - 1) : Back(k) \in Slots
    BY BehindValue, <1>1 DEF Back, HistTypeOK
  <2> QED BY <2>1 DEF DatesDescend
<1> QED BY <1>1, <1>2, <1>3 DEF RingShape

\* A new date keeps the recorded dates in order.
LEMMA AdvanceDates ==
  ASSUME RingShape, NEW d \in Dates, d > date[prodhistp],
         prodhistp' = NewSlot, date' = [date EXCEPT ![prodhistp'] = d]
  PROVE  /\ prodhistp' \in Slots
         /\ date' \in [Slots -> Dates \cup {0}]
         /\ date'[prodhistp'] = d /\ d # 0
         /\ DatesDescend'
<1> USE RingSize
<1>1. /\ prodhistp \in Slots /\ date \in [Slots -> Dates \cup {0}]
      /\ d \in Nat /\ d # 0
  BY DateFacts DEF RingShape, HistTypeOK
<1>0. \A s \in Slots : date[s] \in Nat
  <2> SUFFICES ASSUME NEW s \in Slots PROVE date[s] \in Nat
    OBVIOUS
  <2>1. date[s] \in Dates \cup {0}
    BY <1>1
  <2> QED BY DateFacts, <2>1
<1>2. prodhistp' \in Slots
  BY <1>1, SuccValue DEF NewSlot
<1>3. /\ date' \in [Slots -> Dates \cup {0}]
      /\ date'[prodhistp'] = d
      /\ \A s \in Slots : s # prodhistp' => date'[s] = date[s]
  BY <1>1, <1>2
<1>4. ASSUME NEW j \in 0..(nhist - 1), NEW k \in 0..(nhist - 1), j < k
      PROVE  date'[Back(k)'] = 0 \/ date'[Back(k)'] < date'[Back(j)']
  <2>1. Back(k)' \in Slots /\ Back(k)' # prodhistp'
    <3>1. Behind(prodhistp', k) \in Slots
      BY <1>2, BehindValue
    <3>2. Behind(prodhistp', 0) = prodhistp'
      BY <1>2, SuccIsFarthest
    <3>3. Behind(prodhistp', k) # Behind(prodhistp', 0)
      BY <1>2, <1>4, BehindInjective
    <3> QED BY <3>1, <3>2, <3>3 DEF Back
  <2>2. date'[Back(k)'] = date[Back(k)']
    BY <2>1, <1>3
  <2>3. CASE date[prodhistp] = 0
    BY <2>1, <2>2, <2>3 DEF RingShape, Fresh
  <2>4. CASE date[prodhistp] # 0
    <3>1. k \in 1..(nhist - 1) /\ k - 1 \in 0..(nhist - 1)
      BY <1>4
    <3>2. prodhistp' = Succ(prodhistp)
      BY <2>4 DEF NewSlot
    <3>3. Back(k)' = Back(k - 1)
      BY <1>1, <3>1, <3>2, BehindSucc DEF Back
    <3>4. CASE j = 0
      <4>1. Back(j)' = prodhistp'
        BY <3>4, <1>2, SuccIsFarthest DEF Back
      <4>2. Back(0) = prodhistp
        BY <1>1, SuccIsFarthest DEF Back
      <4>3. Back(k - 1) \in Slots
        BY <2>1, <3>3
      <4>4. date[prodhistp] \in Nat /\ date[Back(k - 1)] \in Nat
        BY <1>0, <1>1, <4>3
      <4>5. date[Back(k - 1)] = 0 \/ date[Back(k - 1)] <= date[prodhistp]
        <5>1. CASE k - 1 = 0
          BY <5>1, <4>2, <4>4
        <5>2. CASE k - 1 # 0
          <6>1. 0 < k - 1 /\ 0 \in 0..(nhist - 1)
            BY <5>2, <3>1
          <6>2. date[Back(k - 1)] = 0 \/ date[Back(k - 1)] < date[Back(0)]
            BY <6>1, <3>1 DEF RingShape, DatesDescend
          <6> QED BY <6>2, <4>2, <4>4
        <5> QED BY <5>1, <5>2
      <4> QED BY <1>1, <1>3, <2>2, <3>3, <4>1, <4>4, <4>5
    <3>5. CASE j # 0
      <4>1. j \in 1..(nhist - 1) /\ j - 1 \in 0..(nhist - 1)
        BY <3>5, <1>4
      <4>2. Back(j)' = Back(j - 1)
        BY <1>1, <4>1, <3>2, BehindSucc DEF Back
      <4>3. Back(j)' \in Slots /\ Back(j)' # prodhistp'
        <5>1. Behind(prodhistp', j) \in Slots
          BY <1>2, BehindValue
        <5>2. Behind(prodhistp', 0) = prodhistp'
          BY <1>2, SuccIsFarthest
        <5>3. 0 \in 0..(nhist - 1)
          OBVIOUS
        <5>4. Behind(prodhistp', j) # Behind(prodhistp', 0)
          BY <1>2, <3>5, <5>3, BehindInjective
        <5> QED BY <5>1, <5>2, <5>4 DEF Back
      <4>4. date'[Back(j)'] = date[Back(j - 1)]
        BY <1>3, <4>2, <4>3
      <4>5. date[Back(k - 1)] = 0 \/ date[Back(k - 1)] < date[Back(j - 1)]
        BY <1>4, <3>1, <4>1 DEF RingShape, DatesDescend
      <4> QED BY <2>2, <3>3, <4>4, <4>5
    <3> QED BY <3>4, <3>5
  <2> QED BY <2>3, <2>4
<1>5. DatesDescend'
  BY <1>4 DEF DatesDescend
<1> QED BY <1>1, <1>2, <1>3, <1>5

\* A new date moves the reader's end of the ring consistently.
LEMMA AdvanceShape ==
  ASSUME RingShape, NEW d \in Dates, NEW t \in Types,
         PutNew(d, t) \/ PutForced(d, t)
  PROVE  RingShape'
<1> USE RingSize
<1>1. /\ d > date[prodhistp] /\ prodhistp' = NewSlot
      /\ date' = [date EXCEPT ![prodhistp'] = d]
  BY DEF PutNew, PutForced
<1>2. /\ prodhistp' \in Slots
      /\ date' \in [Slots -> Dates \cup {0}]
      /\ date'[prodhistp'] = d /\ d # 0
      /\ DatesDescend'
  BY <1>1, AdvanceDates
<1>3. /\ prodhistp \in Slots /\ conshistp \in Slots
      /\ numhist \in 0..(nhist - 3)
      /\ fname \in [Slots -> [Types -> Dates \cup {NULL}]]
      /\ disk \subseteq Dates \X Types
      /\ Empty \in [Types -> Dates \cup {NULL}]
  BY DEF RingShape, HistTypeOK, KEEP_FILE_COUNT, Empty
<1>4. Fresh'
  BY <1>2 DEF Fresh
<1>5. CASE PutNew(d, t)
  <2>1. /\ numhist' = numhist + 1 /\ numhist' \in 1..(nhist - 3)
        /\ conshistp' = conshistp
        /\ fname' = [fname EXCEPT ![prodhistp'][t] = d]
        /\ disk' = disk \cup {<<d, t>>}
    BY <1>3, <1>5 DEF PutNew, KEEP_FILE_COUNT
  <2>2. HistTypeOK'
    BY <1>2, <1>3, <2>1 DEF HistTypeOK, KEEP_FILE_COUNT
  <2>3. conshistp' = Succ(Behind(prodhistp', numhist'))
    <3>1. CASE date[prodhistp] = 0
      <4>1. prodhistp' = prodhistp /\ conshistp = prodhistp /\ numhist' = 1
        BY <1>1, <2>1, <3>1 DEF NewSlot, RingShape, Fresh
      <4>2. Succ(Behind(prodhistp, 1)) = Behind(prodhistp, 1 - 1)
        BY <1>3, BehindSucc
      <4>3. Behind(prodhistp, 0) = prodhistp
        BY <1>3, SuccIsFarthest
      <4> QED BY <2>1, <4>1, <4>2, <4>3
    <3>2. CASE date[prodhistp] # 0
      <4>1. prodhistp' = Succ(prodhistp)
        BY <1>1, <3>2 DEF NewSlot
      <4>2. conshistp = Succ(Behind(prodhistp, numhist))
        BY <3>2 DEF RingShape, PointersAgree, Back
      <4>3. numhist + 1 \in 1..(nhist - 1) /\ (numhist + 1) - 1 = numhist
        BY <1>3, <2>1
      <4>4. Behind(Succ(prodhistp), numhist + 1) = Behind(prodhistp, numhist)
        BY <1>3, <4>3, BehindSucc
      <4> QED BY <2>1, <4>1, <4>2, <4>4
    <3> QED BY <3>1, <3>2
  <2>4. PointersAgree'
    BY <2>3 DEF PointersAgree, Back
  <2> QED BY <1>2, <1>4, <2>2, <2>4 DEF RingShape
<1>6. CASE PutForced(d, t)
  <2>1. /\ numhist' = numhist /\ numhist \in 2..(nhist - 3)
        /\ conshistp' = Succ(conshistp)
    BY <1>3, <1>6 DEF PutForced, KEEP_FILE_COUNT
  <2>2. /\ fname' = [[fname EXCEPT ![Victim(conshistp')] = Empty]
                       EXCEPT ![prodhistp'][t] = d]
        /\ disk' \subseteq disk \cup {<<d, t>>}
    BY <1>6 DEF PutForced
  <2>3. conshistp' \in Slots
    BY <1>3, <2>1, SuccValue
  <2>4. fname' \in [Slots -> [Types -> Dates \cup {NULL}]]
    <3>1. [fname EXCEPT ![Victim(conshistp')] = Empty]
            \in [Slots -> [Types -> Dates \cup {NULL}]]
      BY <1>3
    <3> QED BY <2>2, <3>1
  <2>5. HistTypeOK'
    BY <1>2, <1>3, <2>1, <2>2, <2>3, <2>4 DEF HistTypeOK, KEEP_FILE_COUNT
  <2>6. date[prodhistp] # 0
    BY <2>1 DEF RingShape, Fresh
  <2>7. prodhistp' = Succ(prodhistp)
    BY <1>1, <2>6 DEF NewSlot
  <2>8. conshistp = Succ(Behind(prodhistp, numhist))
    BY <2>6 DEF RingShape, PointersAgree, Back
  <2>9. numhist \in 1..(nhist - 1)
    BY <2>1
  <2>10. /\ Behind(Succ(prodhistp), numhist) = Behind(prodhistp, numhist - 1)
         /\ Succ(Behind(prodhistp, numhist)) = Behind(prodhistp, numhist - 1)
    BY <1>3, <2>9, BehindSucc
  <2>11. conshistp' = Succ(Behind(prodhistp', numhist'))
    BY <2>1, <2>7, <2>8, <2>10
  <2>12. PointersAgree'
    BY <2>11 DEF PointersAgree, Back
  <2> QED BY <1>2, <1>4, <2>5, <2>12 DEF RingShape
<1> QED BY <1>5, <1>6

\* A file of a recorded date, or of a forgotten one, moves no pointer.
LEMMA OldDateShape ==
  ASSUME RingShape, NEW d \in Dates, NEW t \in Types,
         PutSame(d, t) \/ PutLate(d, t) \/ PutNotFound(d, t)
  PROVE  RingShape'
<1> USE RingSize
<1>1. UNCHANGED <<date, prodhistp, conshistp, numhist>>
  BY DEF PutSame, PutLate, PutNotFound
<1>2. HistTypeOK /\ DatesDescend /\ prodhistp \in Slots
      /\ fname \in [Slots -> [Types -> Dates \cup {NULL}]]
      /\ disk \subseteq Dates \X Types
  BY DEF RingShape, HistTypeOK
<1>3. date[prodhistp] # 0
  <2>1. date[prodhistp] \in Nat
    BY <1>2, DateFacts DEF HistTypeOK
  <2> QED BY <2>1, DateFacts DEF PutSame, PutLate, PutNotFound
<1>4. fname' \in [Slots -> [Types -> Dates \cup {NULL}]]
  BY <1>2 DEF PutSame, PutLate, PutNotFound
<1>5. disk' \subseteq Dates \X Types
  BY <1>2 DEF PutSame, PutLate, PutNotFound
<1>6. HistTypeOK'
  BY <1>1, <1>2, <1>4, <1>5 DEF HistTypeOK
<1>7. \A k \in 0..(nhist - 1) : Back(k)' = Back(k)
  BY <1>1 DEF Back
<1>8. PointersAgree' /\ DatesDescend' /\ Fresh'
  BY <1>1, <1>3, <1>7 DEF RingShape, PointersAgree, DatesDescend, Fresh, Back
<1> QED BY <1>6, <1>8 DEF RingShape

\* The reader drops the oldest entry.
LEMMA RemoveShape ==
  ASSUME RingShape, numhist > 0, histremove
  PROVE  RingShape'
<1> USE RingSize
<1>1. /\ conshistp' = Succ(conshistp) /\ numhist' = numhist - 1
      /\ fname' = [fname EXCEPT ![Victim(conshistp')] = Empty]
      /\ disk' \subseteq disk
      /\ UNCHANGED <<date, prodhistp>>
  BY DEF histremove
<1>2. /\ prodhistp \in Slots /\ conshistp \in Slots
      /\ numhist \in 1..(nhist - 3)
      /\ fname \in [Slots -> [Types -> Dates \cup {NULL}]]
      /\ disk \subseteq Dates \X Types
      /\ Empty \in [Types -> Dates \cup {NULL}]
      /\ date \in [Slots -> Dates \cup {0}]
  BY DEF RingShape, HistTypeOK, KEEP_FILE_COUNT, Empty
<1>3. conshistp' \in Slots
  BY <1>1, <1>2, SuccValue
<1>4. HistTypeOK'
  <2>1. fname' \in [Slots -> [Types -> Dates \cup {NULL}]]
    BY <1>1, <1>2
  <2>2. disk' \subseteq Dates \X Types
    BY <1>1, <1>2
  <2>3. numhist' \in 0..(nhist - 3)
    BY <1>1, <1>2
  <2> QED BY <1>1, <1>2, <1>3, <2>1, <2>2, <2>3 DEF HistTypeOK, KEEP_FILE_COUNT
<1>5. date[prodhistp] # 0
  BY <1>2 DEF RingShape, Fresh
<1>6. conshistp = Succ(Behind(prodhistp, numhist))
  BY <1>5 DEF RingShape, PointersAgree, Back
<1>7. Succ(Behind(prodhistp, numhist)) = Behind(prodhistp, numhist - 1)
  BY <1>2, BehindSucc
<1>8. PointersAgree'
  BY <1>1, <1>6, <1>7 DEF PointersAgree, Back
<1>9. DatesDescend' /\ Fresh'
  BY <1>1, <1>5 DEF RingShape, DatesDescend, Fresh, Back
<1> QED BY <1>4, <1>8, <1>9 DEF RingShape

\* Every step keeps the shape.
LEMMA ShapeStep ==
  ASSUME RingShape, [HistNext]_hvars
  PROVE  RingShape'
<1>1. ASSUME NEW d \in Dates, NEW t \in Types, histput(d, t)
      PROVE  RingShape'
  BY <1>1, AdvanceShape, OldDateShape DEF histput
<1>2. CASE numhist > 0 /\ histremove
  BY <1>2, RemoveShape
<1>3. CASE UNCHANGED hvars
  BY <1>3 DEF hvars, RingShape, HistTypeOK, PointersAgree, DatesDescend,
              Fresh, Back
<1> QED BY <1>1, <1>2, <1>3 DEF HistNext

\* The ring keeps its shape, whatever arrives and however late: the types are
\* right, the two pointers and the count agree, the dates are in order.
THEOREM ShapeInvariant == HistSpec => []RingShape
BY ShapeInit, ShapeStep, PTL DEF HistSpec

\* Neither pointer leaves the ring, and no more dates are pending than leave
\* KEEP_FILE_COUNT entries behind the reader.
THEOREM TypeCorrect == HistSpec => []HistTypeOK
BY ShapeInvariant, PTL DEF RingShape

\* Once a date is recorded, the pending entries are the numhist slots that end
\* at prodhistp and begin at conshistp.
THEOREM Pointers == HistSpec => []PointersAgree
BY ShapeInvariant, PTL DEF RingShape

\* The backward search of histput meets a date in one slot only.
THEOREM Descending == HistSpec => []DatesDescend
BY ShapeInvariant, PTL DEF RingShape

-----------------------------------------------------------------------------
(* The contents of the ring, for arrivals at most one entry late.          *)

\* No date is recorded in two slots.
LEMMA DatesDistinct ==
  ASSUME HistTypeOK, DatesDescend,
         NEW r \in Slots, NEW s \in Slots, date[r] = date[s], date[r] # 0
  PROVE  r = s
<1>0. prodhistp \in Slots
  BY DEF HistTypeOK
<1>1. PICK j \in 0..(nhist - 1) : Back(j) = r
  BY <1>0, BehindOnto DEF Back
<1>2. PICK k \in 0..(nhist - 1) : Back(k) = s
  BY <1>0, BehindOnto DEF Back
<1>3. date[r] \in Nat
  BY DateFacts DEF HistTypeOK
<1>4. ~(j < k)
  BY <1>1, <1>2, <1>3 DEF DatesDescend
<1>5. ~(k < j)
  BY <1>1, <1>2, <1>3 DEF DatesDescend
<1>6. j = k
  BY <1>4, <1>5, RingSize
<1> QED BY <1>1, <1>2, <1>6

\* Every recorded date is at most the newest.
LEMMA NewestIsLast ==
  ASSUME HistTypeOK, DatesDescend, NEW s \in Slots
  PROVE  date[s] <= date[prodhistp]
<1> USE RingSize
<1>0. prodhistp \in Slots
  BY DEF HistTypeOK
<1>1. PICK k \in 0..(nhist - 1) : Back(k) = s
  BY <1>0, BehindOnto DEF Back
<1>2. Back(0) = prodhistp
  BY <1>0, SuccIsFarthest DEF Back
<1>3. date[s] \in Nat /\ date[prodhistp] \in Nat
  BY <1>0, DateFacts DEF HistTypeOK
<1>4. CASE k = 0
  BY <1>1, <1>2, <1>3, <1>4
<1>5. CASE k # 0
  <2>1. 0 \in 0..(nhist - 1) /\ 0 < k
    BY <1>5
  <2>2. date[Back(k)] = 0 \/ date[Back(k)] < date[Back(0)]
    BY <2>1 DEF DatesDescend
  <2> QED BY <1>1, <1>2, <1>3, <2>2
<1> QED BY <1>4, <1>5

\* The slot a removal empties is the first of those that stay empty.
LEMMA VictimPlace ==
  ASSUME NEW v \in Slots, NEW n \in 0..(nhist - 3)
  PROVE  Victim(Succ(Behind(v, n))) = Behind(v, n + 2)
<1> USE RingSize
<1>1. PICK b \in Slots : b = Behind(v, n)
  BY BehindValue
<1>2. b = IF n <= v THEN v - n ELSE v + nhist - n
  BY <1>1, BehindValue
<1>3. PICK c \in Slots : c = Succ(b)
  BY SuccValue
<1>4. c = IF b = nhist - 1 THEN 0 ELSE b + 1
  BY <1>3, SuccValue
<1>5. Behind(c, 3) = IF 3 <= c THEN c - 3 ELSE c + nhist - 3
  BY BehindValue
<1>6. n + 2 \in 0..(nhist - 1)
  OBVIOUS
<1>7. Behind(v, n + 2) = IF n + 2 <= v THEN v - (n + 2) ELSE v + nhist - (n + 2)
  BY <1>6, BehindValue
<1>8. Behind(c, 3) = Behind(v, n + 2)
  BY <1>2, <1>4, <1>5, <1>7 DEF Slots
<1> QED BY <1>1, <1>3, <1>8 DEF Victim, KEEP_FILE_COUNT

\* The slot a new date takes holds nothing, and no pending date.
LEMMA NewSlotEmpty ==
  ASSUME RingShape, SlotsAheadEmpty
  PROVE  fname[NewSlot] = Empty
<1> USE RingSize
<1>1. prodhistp \in Slots /\ numhist \in 0..(nhist - 3)
  BY DEF RingShape, HistTypeOK, KEEP_FILE_COUNT
<1>2. CASE date[prodhistp] = 0
  BY <1>1, <1>2 DEF NewSlot, RingShape, Fresh
<1>3. CASE date[prodhistp] # 0
  <2>1. NewSlot = Back(nhist - 1)
    BY <1>1, <1>3, SuccIsFarthest DEF NewSlot, Back
  <2>2. nhist - 1 \in (numhist + 3 - 1)..(nhist - 1)
    BY <1>1
  <2> QED BY <2>1, <2>2 DEF SlotsAheadEmpty, KEEP_FILE_COUNT
<1> QED BY <1>2, <1>3

\* A late arrival goes to the slot just behind the newest.
LEMMA LatePlace ==
  ASSUME RingShape, Late <= 1, NEW d \in Dates, Timely(d), Distance(d) < nhist
  PROVE  Distance(d) = 1 /\ date[Back(1)] = d
<1>1. /\ Distance(d) \in 1..nhist
      /\ date[Back(Distance(d))] = d
  BY DistanceFacts DEF RingShape
<1>2. Late \in Nat
  BY HistoryAssumption
<1>3. ~ (Distance(d) \in (Late + 1)..(nhist - 1))
  BY <1>1 DEF Timely
<1>4. Distance(d) = 1
  BY <1>1, <1>2, <1>3, RingSize
<1> QED BY <1>1, <1>4

\* Slots that stay where they are.
LEMMA AheadSame ==
  ASSUME RingShape, SlotsAheadEmpty, UNCHANGED <<prodhistp, numhist>>,
         \A k \in 2..(nhist - 1) : fname'[Back(k)] = fname[Back(k)]
  PROVE  SlotsAheadEmpty'
<1>1. numhist \in 0..(nhist - 3)
  BY DEF RingShape, HistTypeOK, KEEP_FILE_COUNT
<1>2. ASSUME NEW k \in (numhist + 2)..(nhist - 1)
      PROVE  fname'[Behind(prodhistp, k)] = Empty
  <2>1. k \in 2..(nhist - 1)
    BY <1>1, RingSize
  <2> QED BY <2>1 DEF SlotsAheadEmpty, KEEP_FILE_COUNT, Back
<1>3. \A k \in (numhist' + 2)..(nhist - 1) : fname'[Behind(prodhistp', k)] = Empty
  BY <1>2
<1> QED BY <1>3 DEF SlotsAheadEmpty, KEEP_FILE_COUNT, Back

\* No arrival that is at most one entry late fills a slot that must be empty.
LEMMA AheadStep ==
  ASSUME RingShape, RingShape', SlotsAheadEmpty, Late <= 1, [HistNext]_hvars
  PROVE  SlotsAheadEmpty'
<1> USE RingSize
<1>1. /\ prodhistp \in Slots /\ prodhistp' \in Slots
      /\ numhist \in 0..(nhist - 3)
      /\ fname \in [Slots -> [Types -> Dates \cup {NULL}]]
  BY DEF RingShape, HistTypeOK, KEEP_FILE_COUNT
<1>2. \A k \in 0..(nhist - 1) : Back(k) \in Slots /\ Behind(prodhistp', k) \in Slots
  BY <1>1, BehindValue DEF Back
<1>3. \A j, k \in 0..(nhist - 1) :
        j # k => /\ Back(j) # Back(k)
                 /\ Behind(prodhistp', j) # Behind(prodhistp', k)
  BY <1>1, BehindInjective DEF Back
<1>4. Back(0) = prodhistp /\ Behind(prodhistp', 0) = prodhistp'
  BY <1>1, SuccIsFarthest DEF Back
<1>5. \A k \in 2..(nhist - 1) :
        /\ k \in 0..(nhist - 1) /\ 0 \in 0..(nhist - 1) /\ 1 \in 0..(nhist - 1)
        /\ k # 0 /\ k # 1
  OBVIOUS
<1>6. ASSUME NEW d \in Dates, NEW t \in Types, PutSame(d, t)
      PROVE  SlotsAheadEmpty'
  <2>1. \A k \in 2..(nhist - 1) : fname'[Back(k)] = fname[Back(k)]
    BY <1>1, <1>2, <1>3, <1>4, <1>5, <1>6 DEF PutSame
  <2> QED BY <1>6, <2>1, AheadSame DEF PutSame
<1>7. ASSUME NEW d \in Dates, NEW t \in Types, Timely(d), PutLate(d, t)
      PROVE  SlotsAheadEmpty'
  <2>1. Distance(d) = 1
    BY <1>7, LatePlace DEF PutLate
  <2>2. \A k \in 2..(nhist - 1) : fname'[Back(k)] = fname[Back(k)]
    BY <1>1, <1>2, <1>3, <1>5, <1>7, <2>1 DEF PutLate
  <2> QED BY <1>7, <2>2, AheadSame DEF PutLate
<1>8. ASSUME NEW d \in Dates, NEW t \in Types, PutNotFound(d, t)
      PROVE  SlotsAheadEmpty'
  BY <1>8, AheadSame DEF PutNotFound
<1>9. ASSUME NEW d \in Dates, NEW t \in Types, PutNew(d, t)
      PROVE  SlotsAheadEmpty'
  <2>1. /\ fname' = [fname EXCEPT ![prodhistp'][t] = d]
        /\ numhist' = numhist + 1 /\ prodhistp' = NewSlot
    BY <1>9 DEF PutNew
  <2>2. ASSUME NEW k \in ((numhist + 1) + 2)..(nhist - 1)
        PROVE  fname'[Behind(prodhistp', k)] = Empty
    <3>1. /\ k \in 2..(nhist - 1) /\ k \in 1..(nhist - 1)
          /\ k - 1 \in (numhist + 2)..(nhist - 1)
      BY <1>1
    <3>2. fname'[Behind(prodhistp', k)] = fname[Behind(prodhistp', k)]
      BY <1>1, <1>2, <1>3, <1>4, <1>5, <2>1, <3>1
    <3>3. CASE date[prodhistp] = 0
      BY <1>2, <1>5, <3>1, <3>2, <3>3 DEF RingShape, Fresh
    <3>4. CASE date[prodhistp] # 0
      <4>1. Behind(prodhistp', k) = Back(k - 1)
        BY <1>1, <2>1, <3>1, <3>4, BehindSucc DEF NewSlot, Back
      <4>2. fname[Back(k - 1)] = Empty
        BY <3>1 DEF SlotsAheadEmpty, KEEP_FILE_COUNT
      <4> QED BY <3>2, <4>1, <4>2
    <3> QED BY <3>3, <3>4
  <2>3. \A k \in (numhist' + 2)..(nhist - 1) : fname'[Behind(prodhistp', k)] = Empty
    BY <2>1, <2>2
  <2> QED BY <2>3 DEF SlotsAheadEmpty, KEEP_FILE_COUNT, Back
<1>10. ASSUME NEW d \in Dates, NEW t \in Types, PutForced(d, t)
       PROVE  SlotsAheadEmpty'
  <2>1. /\ prodhistp' = NewSlot /\ numhist' = numhist
        /\ d > date[prodhistp]
        /\ date' = [date EXCEPT ![prodhistp'] = d]
        /\ fname' = [[fname EXCEPT ![Victim(conshistp')] = Empty]
                       EXCEPT ![prodhistp'][t] = d]
    BY <1>10 DEF PutForced
  <2>2. numhist = nhist - 3
    BY <1>1, <1>10 DEF PutForced, KEEP_FILE_COUNT
  <2>3. date'[prodhistp'] # 0
    BY <2>1, AdvanceDates
  <2>4. conshistp' = Succ(Behind(prodhistp', numhist))
    BY <2>1, <2>3 DEF RingShape, PointersAgree, Back
  <2>5. Victim(conshistp') = Behind(prodhistp', numhist + 2)
    BY <1>1, <2>4, VictimPlace
  <2>6. ASSUME NEW k \in (numhist + 2)..(nhist - 1)
        PROVE  fname'[Behind(prodhistp', k)] = Empty
    <3>1. k = numhist + 2 /\ k \in 2..(nhist - 1)
      BY <1>1, <2>2
    <3>2. /\ Behind(prodhistp', k) = Victim(conshistp')
          /\ Victim(conshistp') \in Slots /\ Victim(conshistp') # prodhistp'
      BY <1>2, <1>3, <1>4, <1>5, <2>5, <3>1
    <3> QED BY <1>1, <2>1, <3>2
  <2>7. \A k \in (numhist' + 2)..(nhist - 1) : fname'[Behind(prodhistp', k)] = Empty
    BY <2>1, <2>6
  <2> QED BY <2>7 DEF SlotsAheadEmpty, KEEP_FILE_COUNT, Back
<1>11. CASE numhist > 0 /\ histremove
  <2>1. /\ numhist' = numhist - 1 /\ prodhistp' = prodhistp /\ date' = date
        /\ fname' = [fname EXCEPT ![Victim(conshistp')] = Empty]
    BY <1>11 DEF histremove
  <2>2. date'[prodhistp'] # 0
    BY <1>1, <1>11, <2>1 DEF RingShape, Fresh
  <2>3. conshistp' = Succ(Behind(prodhistp, numhist - 1))
    BY <2>1, <2>2 DEF RingShape, PointersAgree, Back
  <2>4. numhist - 1 \in 0..(nhist - 3) /\ (numhist - 1) + 2 = numhist + 1
    BY <1>1, <1>11
  <2>5. Victim(conshistp') = Back(numhist + 1)
    BY <1>1, <2>3, <2>4, VictimPlace DEF Back
  <2>6. ASSUME NEW k \in ((numhist - 1) + 2)..(nhist - 1)
        PROVE  fname'[Behind(prodhistp, k)] = Empty
    <3>1. k \in 2..(nhist - 1) \/ k = numhist + 1
      BY <1>1, <1>11
    <3>2. k \in 0..(nhist - 1)
      BY <1>1, <1>11
    <3>3. CASE k = numhist + 1
      BY <1>1, <1>2, <2>1, <2>5, <3>2, <3>3 DEF Back
    <3>4. CASE k # numhist + 1
      <4>1. k \in (numhist + 2)..(nhist - 1)
        BY <1>1, <3>4
      <4>2. fname[Back(k)] = Empty
        BY <4>1 DEF SlotsAheadEmpty, KEEP_FILE_COUNT
      <4> QED BY <1>1, <1>2, <2>1, <3>2, <4>2 DEF Back
    <3> QED BY <3>3, <3>4
  <2>7. \A k \in (numhist' + 2)..(nhist - 1) : fname'[Behind(prodhistp', k)] = Empty
    BY <2>1, <2>6
  <2> QED BY <2>7 DEF SlotsAheadEmpty, KEEP_FILE_COUNT, Back
<1>12. CASE UNCHANGED hvars
  BY <1>12, AheadSame DEF hvars
<1> QED BY <1>6, <1>7, <1>8, <1>9, <1>10, <1>11, <1>12 DEF HistNext, histput

\* A slot never gets a file of another date than its own.
LEMMA OneDateStep ==
  ASSUME RingShape, RingShape', SlotsAheadEmpty, OneDatePerEntry, Late <= 1,
         [HistNext]_hvars
  PROVE  OneDatePerEntry'
<1> USE RingSize
<1>1. /\ prodhistp \in Slots /\ prodhistp' \in Slots /\ conshistp' \in Slots
      /\ date \in [Slots -> Dates \cup {0}]
      /\ fname \in [Slots -> [Types -> Dates \cup {NULL}]]
  BY DEF RingShape, HistTypeOK
<1>2. Victim(conshistp') \in Slots
  BY <1>1, BehindValue DEF Victim, KEEP_FILE_COUNT
<1> SUFFICES ASSUME NEW s \in Slots, NEW u \in Types
             PROVE  fname'[s][u] \in {NULL, date'[s]}
  BY DEF OneDatePerEntry
<1>3. fname[s][u] \in {NULL, date[s]}
  BY DEF OneDatePerEntry
<1>4. ASSUME NEW d \in Dates, NEW t \in Types, PutSame(d, t)
      PROVE  fname'[s][u] \in {NULL, date'[s]}
  BY <1>1, <1>3, <1>4 DEF PutSame
<1>5. ASSUME NEW d \in Dates, NEW t \in Types, Timely(d), PutLate(d, t)
      PROVE  fname'[s][u] \in {NULL, date'[s]}
  <2>1. Distance(d) = 1 /\ date[Back(1)] = d
    BY <1>5, LatePlace DEF PutLate
  <2>2. fname' = [fname EXCEPT ![Back(1)][t] = d] /\ date' = date
    BY <1>5, <2>1 DEF PutLate
  <2> QED BY <1>1, <1>3, <2>1, <2>2
<1>6. ASSUME NEW d \in Dates, NEW t \in Types, PutNotFound(d, t)
      PROVE  fname'[s][u] \in {NULL, date'[s]}
  BY <1>3, <1>6 DEF PutNotFound
<1>7. fname[NewSlot] = Empty
  BY NewSlotEmpty
<1>8. ASSUME NEW d \in Dates, NEW t \in Types, PutNew(d, t)
      PROVE  fname'[s][u] \in {NULL, date'[s]}
  <2>1. prodhistp' = NewSlot /\ date' = [date EXCEPT ![prodhistp'] = d]
        /\ fname' = [fname EXCEPT ![prodhistp'][t] = d]
    BY <1>8 DEF PutNew
  <2>2. CASE s = prodhistp'
    <3>1. fname[s][u] = NULL
      BY <1>7, <2>1, <2>2 DEF Empty
    <3> QED BY <1>1, <2>1, <2>2, <3>1
  <2>3. CASE s # prodhistp'
    BY <1>1, <1>3, <2>1, <2>3
  <2> QED BY <2>2, <2>3
<1>9. ASSUME NEW d \in Dates, NEW t \in Types, PutForced(d, t)
      PROVE  fname'[s][u] \in {NULL, date'[s]}
  <2> DEFINE g == [fname EXCEPT ![Victim(conshistp')] = Empty]
  <2>1. prodhistp' = NewSlot /\ date' = [date EXCEPT ![prodhistp'] = d]
        /\ fname' = [g EXCEPT ![prodhistp'][t] = d]
    BY <1>9 DEF PutForced
  <2>2. /\ g \in [Slots -> [Types -> Dates \cup {NULL}]]
        /\ g[s][u] \in {NULL, fname[s][u]}
    BY <1>1, <1>2 DEF Empty
  <2> HIDE DEF g
  <2>3. CASE s = prodhistp'
    <3>1. g[s][u] = NULL
      BY <1>7, <2>1, <2>2, <2>3 DEF Empty
    <3> QED BY <1>1, <2>1, <2>2, <2>3, <3>1
  <2>4. CASE s # prodhistp'
    BY <1>1, <1>3, <2>1, <2>2, <2>4
  <2> QED BY <2>3, <2>4
<1>10. CASE numhist > 0 /\ histremove
  BY <1>1, <1>2, <1>3, <1>10 DEF histremove, Empty
<1>11. CASE UNCHANGED hvars
  BY <1>3, <1>11 DEF hvars
<1> QED BY <1>4, <1>5, <1>6, <1>8, <1>9, <1>10, <1>11 DEF HistNext, histput

\* The files that the names f register.
Registered(f) ==
  UNION {{<<f[s][t], t>> : t \in {u \in Types : f[s][u] # NULL}} : s \in Slots}

\* Being registered, file by file.
LEMMA FilesMember ==
  ASSUME NEW f \in [Slots -> [Types -> Dates \cup {NULL}]],
         NEW dk \in SUBSET (Dates \X Types)
  PROVE  (dk = Registered(f)) <=>
           \A d \in Dates, t \in Types :
             <<d, t>> \in dk <=> \E s \in Slots : f[s][t] = d
<1> DEFINE F(s) == {<<f[s][t], t>> : t \in {u \in Types : f[s][u] # NULL}}
           U == UNION {F(s) : s \in Slots}
<1>1. \A s \in Slots, d \in Dates, t \in Types : <<d, t>> \in F(s) <=> f[s][t] = d
  BY DateFacts DEF NULL
<1>2. \A s \in Slots : F(s) \subseteq Dates \X Types
  BY DEF NULL
<1> HIDE DEF F
<1>3. \A d \in Dates, t \in Types : <<d, t>> \in U <=> \E s \in Slots : f[s][t] = d
  <2>1. \A x : x \in U <=> \E s \in Slots : x \in F(s)
    OBVIOUS
  <2> HIDE DEF U
  <2> SUFFICES ASSUME NEW d \in Dates, NEW t \in Types
               PROVE  <<d, t>> \in U <=> \E s \in Slots : f[s][t] = d
    OBVIOUS
  <2>2. <<d, t>> \in U <=> \E s \in Slots : <<d, t>> \in F(s)
    BY <2>1
  <2> QED BY <1>1, <2>2
<1>4. U \subseteq Dates \X Types
  BY <1>2
<1> HIDE DEF U
<1>5. (dk = U) <=> \A d \in Dates, t \in Types : <<d, t>> \in dk <=> <<d, t>> \in U
  <2>1. ASSUME \A d \in Dates, t \in Types : <<d, t>> \in dk <=> <<d, t>> \in U
        PROVE  dk = U
    BY <1>4, <2>1
  <2> QED BY <2>1
<1>6. (dk = U) <=> \A d \in Dates, t \in Types :
                     <<d, t>> \in dk <=> \E s \in Slots : f[s][t] = d
  BY <1>3, <1>5
<1> QED BY <1>6 DEF Registered, U, F

\* Files of one slot are registered in no other.
LEMMA OwnSlot ==
  ASSUME RingShape, OneDatePerEntry, NEW d \in Dates, NEW t \in Types,
         NEW s \in Slots, fname[s][t] = d
  PROVE  /\ date[s] = d
         /\ \A r \in Slots : fname[r][t] = d => r = s
<1>1. \A r \in Slots : fname[r][t] = d => date[r] = d
  BY DateFacts DEF OneDatePerEntry, NULL
<1>2. d # 0
  BY DateFacts
<1> QED BY <1>1, <1>2, DatesDistinct DEF RingShape

\* Registration and unlinking go together.
LEMMA DiskStep ==
  ASSUME RingShape, RingShape', SlotsAheadEmpty, OneDatePerEntry,
         DiskIsRegistered, Late <= 1, [HistNext]_hvars
  PROVE  DiskIsRegistered'
<1> USE RingSize
<1>1. /\ prodhistp \in Slots /\ prodhistp' \in Slots /\ conshistp' \in Slots
      /\ fname \in [Slots -> [Types -> Dates \cup {NULL}]]
      /\ fname' \in [Slots -> [Types -> Dates \cup {NULL}]]
      /\ disk \in SUBSET (Dates \X Types) /\ disk' \in SUBSET (Dates \X Types)
  BY DEF RingShape, HistTypeOK
<1>2. \A d \in Dates, t \in Types :
        <<d, t>> \in disk <=> \E s \in Slots : fname[s][t] = d
  <2>1. DiskIsRegistered <=> (disk = Registered(fname))
    BY DEF DiskIsRegistered, Files, Registered
  <2>2. disk = Registered(fname)
    BY <2>1
  <2> QED BY <1>1, <2>2, FilesMember
<1>3. Victim(conshistp') \in Slots
  BY <1>1, BehindValue DEF Victim, KEEP_FILE_COUNT
<1>4. \A s \in Slots, d \in Dates, t \in Types :
        <<d, t>> \in Files(s) <=> fname[s][t] = d
  BY DateFacts, <1>1 DEF Files, NULL
<1> SUFFICES ASSUME NEW e \in Dates, NEW u \in Types
             PROVE  <<e, u>> \in disk' <=> \E s \in Slots : fname'[s][u] = e
  <2>1. (disk' = Registered(fname')) <=> \A d \in Dates, t \in Types :
                <<d, t>> \in disk' <=> \E s \in Slots : fname'[s][t] = d
    BY <1>1, FilesMember
  <2>2. DiskIsRegistered' <=> (disk' = Registered(fname'))
    BY DEF DiskIsRegistered, Files, Registered
  <2> QED BY <2>1, <2>2
<1>5. <<e, u>> \in disk <=> \E s \in Slots : fname[s][u] = e
  BY <1>2
<1>6. \A s \in Slots : fname[s][u] = e => date[s] = e /\ e # NULL
  BY OwnSlot, DateFacts DEF NULL
<1>7. \A r, s \in Slots : fname[r][u] = e /\ fname[s][u] = e => r = s
  BY OwnSlot
<1>8. e # NULL
  BY DateFacts DEF NULL
\* A slot that gets a file it may already hold.
<1>9. ASSUME NEW d \in Dates, NEW t \in Types, NEW s \in Slots,
             fname[s][t] \in {NULL, d},
             fname' = [fname EXCEPT ![s][t] = d],
             disk' = disk \cup {<<d, t>>}
      PROVE  <<e, u>> \in disk' <=> \E r \in Slots : fname'[r][u] = e
  <2>1. CASE u = t /\ e = d
    <3>1. fname'[s][u] = e
      BY <1>1, <1>9, <2>1
    <3> QED BY <1>9, <2>1, <3>1
  <2>2. CASE ~ (u = t /\ e = d)
    <3>1. <<e, u>> \in disk' <=> <<e, u>> \in disk
      BY <1>9, <2>2
    <3>2. \A r \in Slots : fname'[r][u] = e <=> fname[r][u] = e
      BY <1>1, <1>8, <1>9, <2>2
    <3> QED BY <1>5, <3>1, <3>2
  <2> QED BY <2>1, <2>2
<1>10. ASSUME NEW d \in Dates, NEW t \in Types, PutSame(d, t)
       PROVE  <<e, u>> \in disk' <=> \E s \in Slots : fname'[s][u] = e
  <2>1. fname[prodhistp][t] \in {NULL, d}
    BY <1>1, <1>10 DEF PutSame, OneDatePerEntry
  <2> QED BY <1>1, <1>9, <1>10, <2>1 DEF PutSame
<1>11. ASSUME NEW d \in Dates, NEW t \in Types, Timely(d), PutLate(d, t)
       PROVE  <<e, u>> \in disk' <=> \E s \in Slots : fname'[s][u] = e
  <2>1. Distance(d) = 1 /\ date[Back(1)] = d
    BY <1>11, LatePlace DEF PutLate
  <2>2. Back(1) \in Slots
    BY <1>1, BehindValue DEF Back
  <2>3. fname[Back(1)][t] \in {NULL, d}
    BY <2>1, <2>2 DEF OneDatePerEntry
  <2> QED BY <1>9, <1>11, <2>1, <2>2, <2>3 DEF PutLate
<1>12. ASSUME NEW d \in Dates, NEW t \in Types, PutNotFound(d, t)
       PROVE  <<e, u>> \in disk' <=> \E s \in Slots : fname'[s][u] = e
  <2>1. \A s \in Slots : date[s] # d
    <3> SUFFICES ASSUME NEW s \in Slots, date[s] = d PROVE FALSE
      OBVIOUS
    <3>1. PICK k \in 0..(nhist - 1) : Back(k) = s
      BY <1>1, BehindOnto DEF Back
    <3>2. Back(0) = prodhistp
      BY <1>1, SuccIsFarthest DEF Back
    <3>3. date[prodhistp] # d
      BY <1>1, <1>12, DateFacts DEF PutNotFound, RingShape, HistTypeOK
    <3>4. k \in 1..(nhist - 1)
      BY <3>1, <3>2, <3>3
    <3>5. Distance(d) = nhist
      BY <1>12 DEF PutNotFound
    <3> QED BY <3>1, <3>4, <3>5, DistanceFacts DEF RingShape
  <2>2. fname' = fname /\ disk' = disk \ {<<d, t>>}
    BY <1>12 DEF PutNotFound
  <2>3. CASE e = d
    <3>1. \A s \in Slots : fname[s][u] # e
      BY <1>6, <2>1, <2>3
    <3> QED BY <1>5, <2>2, <3>1
  <2>4. CASE e # d
    BY <1>5, <2>2, <2>4
  <2> QED BY <2>3, <2>4
<1>13. fname[NewSlot] = Empty
  BY NewSlotEmpty
<1>14. ASSUME NEW d \in Dates, NEW t \in Types, PutNew(d, t)
       PROVE  <<e, u>> \in disk' <=> \E s \in Slots : fname'[s][u] = e
  <2>1. fname[prodhistp'][t] \in {NULL, d}
    BY <1>13, <1>14 DEF PutNew, Empty
  <2> QED BY <1>1, <1>9, <1>14, <2>1 DEF PutNew
\* The slot that is emptied takes all its files with it, and no other's.
<1>15. \A s \in Slots : [fname EXCEPT ![Victim(conshistp')] = Empty][s][u] = e
         <=> fname[s][u] = e /\ s # Victim(conshistp')
  BY <1>1, <1>3, <1>8 DEF Empty
<1>16. <<e, u>> \in disk \ Files(Victim(conshistp'))
         <=> \E s \in Slots : fname[s][u] = e /\ s # Victim(conshistp')
  BY <1>3, <1>4, <1>5, <1>7
<1>17. ASSUME NEW d \in Dates, NEW t \in Types, PutForced(d, t)
       PROVE  <<e, u>> \in disk' <=> \E s \in Slots : fname'[s][u] = e
  <2> DEFINE g == [fname EXCEPT ![Victim(conshistp')] = Empty]
             D == disk \ Files(Victim(conshistp'))
  <2>1. /\ prodhistp' = NewSlot /\ d > date[prodhistp]
        /\ fname' = [g EXCEPT ![prodhistp'][t] = d]
        /\ disk' = (disk \cup {<<d, t>>}) \ Files(Victim(conshistp'))
    BY <1>17 DEF PutForced
  <2>2. fname[Victim(conshistp')][t] # d
    <3>1. date[Victim(conshistp')] <= date[prodhistp]
      BY <1>3, NewestIsLast DEF RingShape
    <3>2. date[prodhistp] \in Nat /\ date[Victim(conshistp')] \in Nat
      BY <1>1, <1>3, DateFacts DEF RingShape, HistTypeOK
    <3>3. d \in Nat
      BY DateFacts
    <3>4. date[Victim(conshistp')] # d
      BY <2>1, <3>1, <3>2, <3>3
    <3> QED BY <1>3, <3>4, OwnSlot
  <2>3. disk' = D \cup {<<d, t>>}
    BY <1>3, <1>4, <2>1, <2>2
  <2>4. /\ g \in [Slots -> [Types -> Dates \cup {NULL}]]
        /\ g[prodhistp'][t] = NULL
    BY <1>1, <1>3, <1>13, <2>1 DEF Empty
  <2>5. \A s \in Slots : g[s][u] = e <=> fname[s][u] = e /\ s # Victim(conshistp')
    BY <1>15
  <2>6. <<e, u>> \in D <=> \E s \in Slots : g[s][u] = e
    BY <1>16, <2>5
  <2> HIDE DEF g, D
  <2>7. CASE u = t /\ e = d
    <3>1. fname'[prodhistp'][u] = e
      BY <1>1, <2>1, <2>4, <2>7
    <3> QED BY <1>1, <2>3, <2>7, <3>1
  <2>8. CASE ~ (u = t /\ e = d)
    <3>1. <<e, u>> \in disk' <=> <<e, u>> \in D
      BY <2>3, <2>8
    <3>2. \A r \in Slots : fname'[r][u] = e <=> g[r][u] = e
      BY <1>1, <1>8, <2>1, <2>4, <2>8
    <3> QED BY <2>6, <3>1, <3>2
  <2> QED BY <2>7, <2>8
<1>18. CASE numhist > 0 /\ histremove
  BY <1>15, <1>16, <1>18 DEF histremove
<1>19. CASE UNCHANGED hvars
  BY <1>5, <1>19 DEF hvars
<1> QED BY <1>10, <1>11, <1>12, <1>14, <1>17, <1>18, <1>19 DEF HistNext, histput

\* The empty ring registers nothing, and there is nothing.
LEMMA ContentsInit == HistInit => RingContents
<1> SUFFICES ASSUME HistInit PROVE RingContents
  OBVIOUS
<1> USE RingSize DEF HistInit
<1>1. HistTypeOK
  BY ShapeInit DEF RingShape
<1>2. \A k \in 0..(nhist - 1) : Back(k) \in Slots
  BY <1>1, BehindValue DEF Back, HistTypeOK
<1>3. SlotsAheadEmpty
  BY <1>2 DEF SlotsAheadEmpty, KEEP_FILE_COUNT
<1>4. OneDatePerEntry
  BY DEF OneDatePerEntry, Empty
<1>5. \A s \in Slots : Files(s) = {}
  BY DEF Files, Empty
<1>6. DiskIsRegistered
  BY <1>5 DEF DiskIsRegistered
<1> QED BY <1>3, <1>4, <1>6 DEF RingContents

\* With arrivals at most one entry late, an entry never mixes two dates, and
\* the files on disk are exactly the registered ones.
THEOREM ContentsInvariant == Late <= 1 => (HistSpec => [](RingShape /\ RingContents))
<1> SUFFICES ASSUME Late <= 1 PROVE HistSpec => [](RingShape /\ RingContents)
  OBVIOUS
<1> DEFINE Inv == RingShape /\ RingContents
<1>1. HistInit => Inv
  BY ShapeInit, ContentsInit
<1>2. Inv /\ [HistNext]_hvars => Inv'
  <2> SUFFICES ASSUME RingShape, RingContents, [HistNext]_hvars
               PROVE  Inv'
    OBVIOUS
  <2>1. RingShape'
    BY ShapeStep
  <2>2. SlotsAheadEmpty' /\ OneDatePerEntry' /\ DiskIsRegistered'
    BY <2>1, AheadStep, OneDateStep, DiskStep DEF RingContents
  <2> QED BY <2>1, <2>2 DEF RingContents
<1> QED BY <1>1, <1>2, PTL DEF HistSpec

\* The application's data of one date is never mixed with another date's.
THEOREM OneDate == Late <= 1 => (HistSpec => []OneDatePerEntry)
BY ContentsInvariant, PTL DEF RingContents

\* histput opens an entry in an empty slot only.
THEOREM AheadEmpty == Late <= 1 => (HistSpec => []SlotsAheadEmpty)
BY ContentsInvariant, PTL DEF RingContents

\* Every file on disk is registered, and every registered file on disk.
THEOREM DiskAccounted == Late <= 1 => (HistSpec => []DiskIsRegistered)
<1>1. RingContents => DiskIsRegistered
  BY DEF RingContents
<1> QED BY <1>1, ContentsInvariant, PTL

\* One step unlinks only files of a date KEEP_FILE_COUNT or more entries
\* behind the oldest pending one.
LEMMA KeepsStep ==
  ASSUME RingShape, RingShape', RingContents, Late <= 1, [HistNext]_hvars,
         NEW f \in disk \ disk'
  PROVE  \A k \in 0..(numhist' + 1) : date'[Back(k)'] # f[1]
<1> USE RingSize
<1>1. /\ prodhistp \in Slots /\ prodhistp' \in Slots /\ conshistp' \in Slots
      /\ numhist \in 0..(nhist - 3)
      /\ fname \in [Slots -> [Types -> Dates \cup {NULL}]]
      /\ disk \in SUBSET (Dates \X Types)
      /\ date \in [Slots -> Dates \cup {0}]
  BY DEF RingShape, HistTypeOK, KEEP_FILE_COUNT
<1>2. PICK e \in Dates, u \in Types : f = <<e, u>>
  BY <1>1
<1>3. PICK s \in Slots : fname[s][u] = e
  <2>1. disk = Registered(fname)
    BY DEF RingContents, DiskIsRegistered, Files, Registered
  <2> QED BY <1>1, <1>2, <2>1, FilesMember
<1>4. date[s] = e /\ e # 0 /\ \A r \in Slots : date[r] = e => r = s
  BY <1>3, OwnSlot, DateFacts, DatesDistinct DEF RingContents, RingShape
\* The file was in the slot that has been emptied.
<1>5. ASSUME NEW n \in 0..(nhist - 3), numhist' = n,
             s = Behind(prodhistp', n + 2),
             \A r \in Slots : r # prodhistp' => date'[r] = date[r],
             date'[prodhistp'] # e
      PROVE  \A k \in 0..(numhist' + 1) : date'[Back(k)'] # f[1]
  <2>1. ASSUME NEW k \in 0..(n + 1)
        PROVE  date'[Behind(prodhistp', k)] # e
    <3>1. k \in 0..(nhist - 1) /\ n + 2 \in 0..(nhist - 1) /\ k # n + 2
      OBVIOUS
    <3>2. Behind(prodhistp', k) \in Slots /\ Behind(prodhistp', k) # s
      BY <1>1, <1>5, <3>1, BehindValue, BehindInjective
    <3> QED BY <1>4, <1>5, <3>2
  <2>2. \A k \in 0..(numhist' + 1) : date'[Behind(prodhistp', k)] # e
    BY <1>5, <2>1
  <2> QED BY <1>2, <2>2 DEF Back
<1>6. \A v \in Slots : f \in Files(v) => v = s
  <2> SUFFICES ASSUME NEW v \in Slots, f \in Files(v) PROVE v = s
    OBVIOUS
  <2>1. fname[v][u] = e
    BY <1>2 DEF Files
  <2> QED BY <1>3, <2>1, OwnSlot DEF RingContents
<1>7. Victim(conshistp') \in Slots
  BY <1>1, BehindValue DEF Victim, KEEP_FILE_COUNT
<1>8. ASSUME NEW d \in Dates, NEW t \in Types, PutForced(d, t)
      PROVE  \A k \in 0..(numhist' + 1) : date'[Back(k)'] # f[1]
  <2>1. /\ prodhistp' = NewSlot /\ numhist' = numhist /\ d > date[prodhistp]
        /\ date' = [date EXCEPT ![prodhistp'] = d]
        /\ f \in Files(Victim(conshistp'))
    BY <1>8 DEF PutForced
  <2>2. date'[prodhistp'] = d /\ d # 0
    BY <2>1, AdvanceDates
  <2>3. conshistp' = Succ(Behind(prodhistp', numhist))
    BY <2>1, <2>2 DEF RingShape, PointersAgree, Back
  <2>4. s = Behind(prodhistp', numhist + 2)
    BY <1>1, <1>6, <1>7, <2>1, <2>3, VictimPlace
  <2>5. e # d
    <3>1. date[s] <= date[prodhistp]
      BY NewestIsLast DEF RingShape
    <3>2. date[prodhistp] \in Nat /\ e \in Nat /\ d \in Nat
      BY <1>1, DateFacts
    <3>3. e <= date[prodhistp]
      BY <1>4, <3>1
    <3> QED BY <2>1, <3>2, <3>3
  <2>6. \A r \in Slots : r # prodhistp' => date'[r] = date[r]
    BY <1>1, <2>1
  <2> QED BY <1>1, <1>5, <2>1, <2>2, <2>4, <2>5, <2>6
<1>9. CASE numhist > 0 /\ histremove
  <2>1. /\ numhist' = numhist - 1 /\ numhist - 1 \in 0..(nhist - 3)
        /\ prodhistp' = prodhistp /\ date' = date
        /\ f \in Files(Victim(conshistp'))
    BY <1>1, <1>9 DEF histremove
  <2>2. date'[prodhistp'] # 0
    BY <1>1, <1>9, <2>1 DEF RingShape, Fresh
  <2>3. conshistp' = Succ(Behind(prodhistp', numhist - 1))
    BY <2>1, <2>2 DEF RingShape, PointersAgree, Back
  <2>4. s = Behind(prodhistp', (numhist - 1) + 2)
    BY <1>1, <1>6, <1>7, <2>1, <2>3, VictimPlace
  <2>5. s # prodhistp'
    <3>1. /\ (numhist - 1) + 2 \in 0..(nhist - 1) /\ 0 \in 0..(nhist - 1)
          /\ (numhist - 1) + 2 # 0
      BY <1>1, <2>1
    <3> QED BY <1>1, <2>4, <3>1, BehindInjective, SuccIsFarthest
  <2>6. date'[prodhistp'] # e
    BY <1>1, <1>4, <2>1, <2>5
  <2> QED BY <1>5, <2>1, <2>4, <2>6
<1>10. ASSUME NEW d \in Dates, NEW t \in Types, PutNotFound(d, t)
       PROVE  FALSE
  <2>1. e = d
    BY <1>2, <1>10 DEF PutNotFound
  <2>2. s # prodhistp
    <3>1. date[prodhistp] \in Nat /\ d \in Nat
      BY <1>1, DateFacts
    <3> QED BY <1>4, <1>10, <2>1, <3>1 DEF PutNotFound
  <2>3. PICK k \in 0..(nhist - 1) : Back(k) = s
    BY <1>1, BehindOnto DEF Back
  <2>4. k \in 1..(nhist - 1)
    BY <1>1, <2>2, <2>3, SuccIsFarthest DEF Back
  <2>5. Distance(d) = nhist
    BY <1>10 DEF PutNotFound
  <2> QED BY <1>4, <2>1, <2>3, <2>4, <2>5, DistanceFacts DEF RingShape
<1>11. ASSUME NEW d \in Dates, NEW t \in Types,
              PutSame(d, t) \/ PutNew(d, t) \/ PutLate(d, t)
       PROVE  FALSE
  BY <1>11 DEF PutSame, PutNew, PutLate
<1>12. CASE UNCHANGED hvars
  BY <1>12 DEF hvars
<1> QED BY <1>8, <1>9, <1>10, <1>11, <1>12 DEF HistNext, histput

\* KEEP_FILE_COUNT protects the entries in use: with arrivals at most one
\* entry late, no file of a pending date or of the last two dates the reader
\* has dropped is ever unlinked.
THEOREM Keeps == Late <= 1 => (HistSpec => KeepsRecent)
<1> SUFFICES ASSUME Late <= 1 PROVE HistSpec => KeepsRecent
  OBVIOUS
<1>1. RingShape /\ RingShape' /\ RingContents /\ [HistNext]_hvars
        => [\A f \in disk \ disk' :
              \A k \in 0..(numhist' + 1) : date'[Back(k)'] # f[1]]_hvars
  BY KeepsStep
<1> QED BY <1>1, ContentsInvariant, PTL DEF HistSpec, KeepsRecent

-----------------------------------------------------------------------------
(* The ring implements the bounded queue.                                  *)

\* The queue's entry for a slot of the ring.
EntryOf(s) == [date |-> date[s], types |-> {t \in Types : fname[s][t] # NULL}]

EntryNext(s) ==
  [date |-> date'[s], types |-> {t \in Types : fname'[s][t] # NULL}]

PendingEntry == [date : Dates \cup {0}, types : SUBSET Types]

\* k - 1 applications of UPDATE_POINTER.
LEMMA AheadValue ==
  ASSUME NEW v \in Slots, NEW k \in 1..nhist
  PROVE  (v + k - 1) % nhist =
           IF v + k - 1 < nhist THEN v + k - 1 ELSE v + k - 1 - nhist
  BY RingSize DEF Slots

\* The k-th pending entry is numhist - k slots behind the newest one.
LEMMA PendingSlot ==
  ASSUME RingShape, NEW k \in 1..numhist
  PROVE  /\ (conshistp + k - 1) % nhist = Back(numhist - k)
         /\ Back(numhist - k) \in Slots
<1> USE RingSize
<1>1. /\ prodhistp \in Slots /\ conshistp \in Slots
      /\ numhist \in 1..(nhist - 3)
  BY DEF RingShape, HistTypeOK, KEEP_FILE_COUNT
<1>2. conshistp = Succ(Behind(prodhistp, numhist))
  BY <1>1 DEF RingShape, Fresh, PointersAgree, Back
<1>3. Succ(Behind(prodhistp, numhist)) = Behind(prodhistp, numhist - 1)
  BY <1>1, BehindSucc
<1>4. /\ numhist - 1 \in 0..(nhist - 1) /\ numhist - k \in 0..(nhist - 1)
      /\ k \in 1..(nhist - 3)
  BY <1>1
<1>5. /\ conshistp = IF numhist - 1 <= prodhistp THEN prodhistp - (numhist - 1)
                     ELSE prodhistp + nhist - (numhist - 1)
      /\ Behind(prodhistp, numhist - k) =
           IF numhist - k <= prodhistp THEN prodhistp - (numhist - k)
           ELSE prodhistp + nhist - (numhist - k)
      /\ Behind(prodhistp, numhist - k) \in Slots
  BY <1>1, <1>2, <1>3, <1>4, BehindValue
<1>6. (conshistp + k - 1) % nhist =
        IF conshistp + k - 1 < nhist THEN conshistp + k - 1
        ELSE conshistp + k - 1 - nhist
  <2>1. k \in 1..nhist
    BY <1>4
  <2> QED BY <1>1, <2>1, AheadValue
<1> QED BY <1>1, <1>4, <1>5, <1>6 DEF Slots, Back

\* The queue, entry by entry.
QueueIsRing ==
  /\ Pending \in Seq(PendingEntry) /\ Len(Pending) = numhist
  /\ \A k \in 1..numhist : Pending[k] = EntryOf(Back(numhist - k))

LEMMA PendingEntries == RingShape => QueueIsRing
<1> SUFFICES ASSUME RingShape PROVE QueueIsRing
  OBVIOUS
<1>1. numhist \in Nat /\ date \in [Slots -> Dates \cup {0}]
  BY RingSize DEF RingShape, HistTypeOK, KEEP_FILE_COUNT
<1>2. \A s \in Slots : EntryOf(s) \in PendingEntry
  BY <1>1 DEF EntryOf, PendingEntry
<1>3. \A k \in 1..numhist :
        /\ Pending[k] = EntryOf(Back(numhist - k))
        /\ Pending[k] \in PendingEntry
  BY <1>2, PendingSlot DEF Pending, EntryOf
<1>4. Pending = [k \in 1..numhist |-> Pending[k]]
  BY DEF Pending
<1>5. Pending \in [1..numhist -> PendingEntry]
  BY <1>3, <1>4
<1>6. Pending \in Seq(PendingEntry)
  BY <1>1, <1>5, IsASeq
<1>7. Len(Pending) = numhist
  BY <1>1, <1>5, LenProperties
<1> QED BY <1>3, <1>6, <1>7 DEF QueueIsRing

LEMMA PendingNext ==
  ASSUME RingShape'
  PROVE  /\ Pending' \in Seq(PendingEntry) /\ Len(Pending') = numhist'
         /\ \A k \in 1..numhist' :
              Pending'[k] = EntryNext(Behind(prodhistp', numhist' - k))
<1>1. RingShape' => QueueIsRing'
  BY PendingEntries, PTL
<1> QED BY <1>1 DEF QueueIsRing, PendingEntry, EntryOf, EntryNext, Back

\* Opening an entry moves the pending ones one slot back in the count, and
\* the new one names a single file, as its slot was empty.
LEMMA AdvanceEntries ==
  ASSUME RingShape, RingShape', SlotsAheadEmpty,
         NEW d \in Dates, NEW t \in Types, PutNew(d, t) \/ PutForced(d, t)
  PROVE  /\ EntryNext(prodhistp') = [date |-> d, types |-> {t}]
         /\ \A j \in 1..(numhist' - 1) :
              EntryNext(Behind(prodhistp', j)) = EntryOf(Back(j - 1))
<1> USE RingSize
<1>0. PICK n \in 0..(nhist - 3) : n = numhist'
  BY DEF RingShape, HistTypeOK, KEEP_FILE_COUNT
<1>1. /\ prodhistp \in Slots /\ prodhistp' \in Slots /\ conshistp' \in Slots
      /\ numhist \in 0..(nhist - 3) /\ numhist' \in 0..(nhist - 3)
      /\ date \in [Slots -> Dates \cup {0}]
      /\ fname \in [Slots -> [Types -> Dates \cup {NULL}]]
  BY DEF RingShape, HistTypeOK, KEEP_FILE_COUNT
<1>2. /\ prodhistp' = NewSlot /\ date' = [date EXCEPT ![prodhistp'] = d]
      /\ fname[NewSlot] = Empty
  BY NewSlotEmpty DEF PutNew, PutForced
<1>3. ASSUME PutForced(d, t)
      PROVE  /\ numhist' = numhist /\ numhist \in 1..(nhist - 3)
             /\ Victim(conshistp') = Behind(prodhistp, numhist + 1)
             /\ fname' = [[fname EXCEPT ![Victim(conshistp')] = Empty]
                            EXCEPT ![prodhistp'][t] = d]
  <2>1. /\ numhist' = numhist /\ numhist \in 1..(nhist - 3)
        /\ conshistp' = Succ(conshistp)
        /\ fname' = [[fname EXCEPT ![Victim(conshistp')] = Empty]
                       EXCEPT ![prodhistp'][t] = d]
    BY <1>1, <1>3 DEF PutForced, KEEP_FILE_COUNT
  <2>2. conshistp = Succ(Behind(prodhistp, numhist))
    BY <2>1 DEF RingShape, Fresh, PointersAgree, Back
  <2>3. /\ numhist \in 1..(nhist - 1) /\ numhist - 1 \in 0..(nhist - 3)
        /\ (numhist - 1) + 2 = numhist + 1
    BY <2>1
  <2>4. conshistp' = Succ(Behind(prodhistp, numhist - 1))
    BY <1>1, <2>1, <2>2, <2>3, BehindSucc
  <2>5. Victim(conshistp') = Behind(prodhistp, (numhist - 1) + 2)
    BY <1>1, <2>3, <2>4, VictimPlace
  <2> QED BY <2>1, <2>3, <2>5
<1>4. EntryNext(prodhistp') = [date |-> d, types |-> {t}]
  <2>2. date'[prodhistp'] = d
    BY <1>1, <1>2
  <2>3. fname'[prodhistp'] = [Empty EXCEPT ![t] = d]
    <3>1. CASE PutNew(d, t)
      BY <1>1, <1>2, <3>1 DEF PutNew
    <3>2. CASE PutForced(d, t)
      BY <1>1, <1>2, <1>3, <3>2
    <3> QED BY <3>1, <3>2
  <2>4. {u \in Types : fname'[prodhistp'][u] # NULL} = {t}
    BY <2>3, DateFacts DEF Empty, NULL
  <2> QED BY <2>2, <2>4 DEF EntryNext
<1>5. ASSUME NEW j \in 1..(n - 1)
      PROVE  EntryNext(Behind(prodhistp', j)) = EntryOf(Back(j - 1))
  <2>1. /\ j \in 1..(nhist - 1) /\ j \in 0..(nhist - 1) /\ 0 \in 0..(nhist - 1)
        /\ j - 1 \in 0..(nhist - 1) /\ j # 0 /\ n > 1
    OBVIOUS
  <2>2. prodhistp' = Succ(prodhistp)
    <3>1. numhist # 0
      <4>1. numhist' = numhist + 1 \/ numhist' = numhist
        BY <1>3 DEF PutNew
      <4> QED BY <1>0, <1>1, <2>1, <4>1
    <3> QED BY <1>2, <3>1 DEF RingShape, Fresh, NewSlot
  <2>3. PICK s \in Slots : s = Behind(prodhistp, j - 1)
    BY <1>1, <2>1, BehindValue
  <2>4. Behind(prodhistp', j) = s
    BY <1>1, <2>1, <2>2, <2>3, BehindSucc
  <2>5. s # prodhistp'
    BY <1>1, <2>1, <2>4, BehindInjective, SuccIsFarthest
  <2>6. date'[s] = date[s]
    BY <1>1, <1>2, <2>5
  <2>7. fname'[s] = fname[s]
    <3>1. CASE PutNew(d, t)
      <4>1. fname' = [fname EXCEPT ![prodhistp'][t] = d]
        BY <3>1 DEF PutNew
      <4> QED BY <1>1, <2>5, <4>1
    <3>2. CASE PutForced(d, t)
      <4>1. numhist + 1 \in 0..(nhist - 1) /\ numhist + 1 # j - 1
        BY <1>0, <1>3, <3>2
      <4>2. Behind(prodhistp, numhist + 1) # s
        BY <1>1, <2>1, <2>3, <4>1, BehindInjective
      <4>3. Victim(conshistp') # s
        BY <1>3, <3>2, <4>2
      <4> QED BY <1>1, <1>3, <2>5, <3>2, <4>3
    <3> QED BY <3>1, <3>2
  <2> QED BY <2>3, <2>4, <2>6, <2>7 DEF EntryOf, EntryNext, Back
<1> QED BY <1>0, <1>4, <1>5

\* A newer date is appended, and only a full queue gives up its oldest entry.
LEMMA QueuePutNew ==
  ASSUME RingShape, RingShape', SlotsAheadEmpty,
         NEW d \in Dates, NEW t \in Types, PutNew(d, t) \/ PutForced(d, t)
  PROVE  Abstract!PutNew(d, t)
<1> DEFINE e == [date |-> d, types |-> {t}]
<1>0. PICK n \in 0..(nhist - 3) : n = numhist'
  BY DEF RingShape, HistTypeOK, KEEP_FILE_COUNT
<1>1. /\ numhist \in 0..(nhist - 3) /\ nhist \in Nat /\ nhist >= 5
      /\ prodhistp' \in Slots
  BY RingSize DEF RingShape, HistTypeOK, KEEP_FILE_COUNT
<1>2. /\ Pending \in Seq(PendingEntry) /\ Len(Pending) = numhist
      /\ \A k \in 1..numhist : Pending[k] = EntryOf(Back(numhist - k))
  BY PendingEntries DEF QueueIsRing
<1>3. /\ Pending' \in Seq(PendingEntry) /\ Len(Pending') = n
      /\ \A k \in 1..n : Pending'[k] = EntryNext(Behind(prodhistp', n - k))
  BY <1>0, PendingNext
<1>4. e \in PendingEntry
  BY DEF PendingEntry
<1>5. n >= 1 => Pending'[n] = e
  <2> SUFFICES ASSUME n >= 1 PROVE Pending'[n] = e
    OBVIOUS
  <2>1. n \in 1..n /\ n - n = 0
    OBVIOUS
  <2>2. Behind(prodhistp', 0) = prodhistp'
    BY <1>1, SuccIsFarthest
  <2> QED BY <1>3, <2>1, <2>2, AdvanceEntries
<1>6. ASSUME NEW k \in 1..(n - 1)
      PROVE  Pending'[k] = EntryOf(Back(n - k - 1))
  <2>1. k \in 1..n /\ n - k \in 1..(n - 1)
    OBVIOUS
  <2>2. Pending'[k] = EntryNext(Behind(prodhistp', n - k))
    BY <1>3, <2>1
  <2> QED BY <1>0, <2>1, <2>2, AdvanceEntries
<1>7. d > date[prodhistp] /\ (date[prodhistp])' = d
  <2>1. /\ d > date[prodhistp] /\ prodhistp' = NewSlot
        /\ date' = [date EXCEPT ![prodhistp'] = d]
    BY DEF PutNew, PutForced
  <2> QED BY <2>1, AdvanceDates
<1>8. CASE PutNew(d, t)
  <2>1. n = numhist + 1 /\ Len(Pending) < nhist - KEEP_FILE_COUNT
    BY <1>0, <1>1, <1>2, <1>8 DEF PutNew, KEEP_FILE_COUNT
  <2>2. /\ Append(Pending, e) \in Seq(PendingEntry)
        /\ Len(Append(Pending, e)) = numhist + 1
        /\ \A k \in 1..numhist : Append(Pending, e)[k] = Pending[k]
        /\ Append(Pending, e)[numhist + 1] = e
    BY <1>2, <1>4, AppendProperties
  <2>3. ASSUME NEW k \in 1..n
        PROVE  Pending'[k] = Append(Pending, e)[k]
    <3>1. CASE k = n
      BY <1>1, <1>5, <2>1, <2>2, <3>1
    <3>2. CASE k # n
      <4>1. k \in 1..numhist /\ k \in 1..(n - 1)
            /\ n - k - 1 = numhist - k
        BY <1>1, <2>1, <3>2
      <4> QED BY <1>2, <1>6, <2>2, <4>1
    <3> QED BY <3>1, <3>2
  <2>4. Pending' = Append(Pending, e)
    BY <1>3, <2>1, <2>2, <2>3, SeqEqual
  <2> QED BY <1>7, <2>1, <2>4 DEF Abstract!PutNew
<1>9. CASE PutForced(d, t)
  <2>1. /\ n = numhist /\ numhist = nhist - 3
        /\ ~(Len(Pending) < nhist - KEEP_FILE_COUNT)
    BY <1>0, <1>1, <1>2, <1>9 DEF PutForced, KEEP_FILE_COUNT
  <2>2. Pending # <<>>
    BY <1>1, <1>2, <2>1, EmptySeq
  <2>3. /\ Tail(Pending) \in Seq(PendingEntry)
        /\ Len(Tail(Pending)) = numhist - 1
        /\ \A k \in 1..(numhist - 1) : Tail(Pending)[k] = Pending[k + 1]
    BY <1>2, <2>2, HeadTailProperties
  <2>4. /\ Append(Tail(Pending), e) \in Seq(PendingEntry)
        /\ Len(Append(Tail(Pending), e)) = numhist - 1 + 1
        /\ \A k \in 1..(numhist - 1) :
             Append(Tail(Pending), e)[k] = Tail(Pending)[k]
        /\ Append(Tail(Pending), e)[numhist - 1 + 1] = e
    BY <1>4, <2>3, AppendProperties
  <2>5. numhist - 1 + 1 = numhist
    BY <1>1
  <2>6. ASSUME NEW k \in 1..n
        PROVE  Pending'[k] = Append(Tail(Pending), e)[k]
    <3>1. CASE k = n
      BY <1>1, <1>5, <2>1, <2>4, <2>5, <3>1
    <3>2. CASE k # n
      <4>1. k \in 1..(numhist - 1) /\ k \in 1..(n - 1)
            /\ k + 1 \in 1..numhist
            /\ n - k - 1 = numhist - (k + 1)
        BY <1>1, <2>1, <3>2
      <4> QED BY <1>2, <1>6, <2>3, <2>4, <4>1
    <3> QED BY <3>1, <3>2
  <2>7. Pending' = Append(Tail(Pending), e)
    BY <1>3, <2>1, <2>4, <2>5, <2>6, SeqEqual
  <2> QED BY <1>7, <2>1, <2>7 DEF Abstract!PutNew
<1> QED BY <1>8, <1>9

\* A file of a recorded date joins its entry, if that is still pending.
LEMMA QueuePutOld ==
  ASSUME RingShape, RingShape', NEW d \in Dates, NEW t \in Types,
         NEW m \in 0..(nhist - 1), date[Back(m)] = d,
         fname' = [fname EXCEPT ![Back(m)][t] = d],
         UNCHANGED <<date, prodhistp, conshistp, numhist>>
  PROVE  Abstract!PutPending(d, t) \/ UNCHANGED Abstract!vars
<1>1. /\ numhist \in 0..(nhist - 3) /\ nhist \in Nat /\ nhist >= 5
      /\ prodhistp \in Slots
      /\ fname \in [Slots -> [Types -> Dates \cup {NULL}]]
  BY RingSize DEF RingShape, HistTypeOK, KEEP_FILE_COUNT
<1>2. /\ Pending \in Seq(PendingEntry) /\ Len(Pending) = numhist
      /\ \A k \in 1..numhist : Pending[k] = EntryOf(Back(numhist - k))
  BY PendingEntries DEF QueueIsRing
<1>3. /\ Pending' \in Seq(PendingEntry) /\ Len(Pending') = numhist
      /\ \A k \in 1..numhist : Pending'[k] = EntryNext(Back(numhist - k))
  BY PendingNext DEF Back
<1>4. \A j \in 0..(nhist - 1) : Back(j) \in Slots /\ (j # m => Back(j) # Back(m))
  BY <1>1, BehindValue, BehindInjective DEF Back
<1>5. ASSUME NEW j \in 0..(nhist - 1), j # m
      PROVE  EntryNext(Back(j)) = EntryOf(Back(j))
  BY <1>1, <1>4, <1>5 DEF EntryOf, EntryNext
<1>6. CASE m < numhist
  <2>1. PICK k \in 1..numhist : k = numhist - m /\ numhist - k = m
    BY <1>1, <1>6
  <2>2. PICK e \in PendingEntry : e = EntryOf(Back(m)) /\ Pending[k] = e
    BY <1>2, <2>1, ElementOfSeq
  <2>3. EntryNext(Back(m)) = [e EXCEPT !.types = @ \cup {t}]
    <3>1. /\ fname'[Back(m)] = [fname[Back(m)] EXCEPT ![t] = d] /\ d # NULL
          /\ fname[Back(m)] \in [Types -> Dates \cup {NULL}]
      BY <1>1, <1>4, DateFacts DEF NULL
    <3>2. {u \in Types : fname'[Back(m)][u] # NULL} =
            {u \in Types : fname[Back(m)][u] # NULL} \cup {t}
      BY <3>1
    <3>3. EntryNext(Back(m)) = [date |-> date[Back(m)],
                                types |-> e.types \cup {t}]
      BY <2>2, <3>2 DEF EntryOf, EntryNext
    <3>4. [e EXCEPT !.types = @ \cup {t}] = [date |-> e.date,
                                             types |-> e.types \cup {t}]
      BY <2>2 DEF EntryOf
    <3> QED BY <2>2, <3>3, <3>4 DEF EntryOf
  <2>4. Pending' = [Pending EXCEPT ![k].types = @ \cup {t}]
    <3>1. [Pending EXCEPT ![k].types = @ \cup {t}] =
            [Pending EXCEPT ![k] = [e EXCEPT !.types = @ \cup {t}]]
      BY <2>2
    <3>2. [e EXCEPT !.types = @ \cup {t}] \in PendingEntry
      BY <2>2 DEF PendingEntry
    <3> DEFINE f == [e EXCEPT !.types = @ \cup {t}]
               q == [Pending EXCEPT ![k] = f]
    <3> HIDE DEF f
    <3>3. /\ q \in Seq(PendingEntry) /\ Len(q) = numhist
          /\ \A i \in 1..numhist : q[i] = IF i = k THEN f ELSE Pending[i]
      BY <1>2, <3>2, ExceptSeq DEF f
    <3>4. ASSUME NEW i \in 1..numhist
          PROVE  Pending'[i] = q[i]
      <4>1. CASE i = k
        <5>1. Pending'[k] = EntryNext(Back(m))
          BY <1>3, <2>1
        <5>2. EntryNext(Back(m)) = f
          BY <2>3 DEF f
        <5>3. q[k] = f
          BY <2>1, <3>3
        <5> QED BY <4>1, <5>1, <5>2, <5>3
      <4>2. CASE i # k
        <5>1. numhist - i \in 0..(nhist - 1) /\ numhist - i # m
          BY <1>1, <2>1, <4>2
        <5> QED BY <1>2, <1>3, <1>5, <3>3, <4>2, <5>1
      <4> QED BY <4>1, <4>2
    <3>5. Pending' = q
      BY <1>3, <3>3, <3>4, SeqEqual
    <3> QED BY <3>1, <3>5 DEF f
  <2>5. Pending[k].date = d /\ k \in 1..Len(Pending)
    BY <1>2, <2>1 DEF EntryOf
  <2> QED BY <2>4, <2>5 DEF Abstract!PutPending
<1>7. CASE m >= numhist
  <2>1. ASSUME NEW k \in 1..numhist
        PROVE  Pending'[k] = Pending[k]
    <3>1. numhist - k \in 0..(nhist - 1) /\ numhist - k # m
      BY <1>1, <1>7
    <3> QED BY <1>2, <1>3, <1>5, <3>1
  <2>2. Pending' = Pending
    BY <1>2, <1>3, <2>1, SeqEqual
  <2> QED BY <2>2 DEF Abstract!vars
<1> QED BY <1>1, <1>6, <1>7

\* The reader drops the oldest entry; the slot that loses its files is none of
\* those still pending.
LEMMA QueueTake ==
  ASSUME RingShape, RingShape', numhist > 0, histremove
  PROVE  Abstract!Take
<1>0. PICK n \in 0..(nhist - 3) : n = numhist'
  BY DEF RingShape, HistTypeOK, KEEP_FILE_COUNT
<1>1. /\ numhist \in 1..(nhist - 3) /\ nhist \in Nat /\ nhist >= 5
      /\ prodhistp \in Slots /\ n = numhist - 1
      /\ fname \in [Slots -> [Types -> Dates \cup {NULL}]]
      /\ UNCHANGED <<date, prodhistp>>
      /\ fname' = [fname EXCEPT ![Victim(conshistp')] = Empty]
  BY <1>0, RingSize DEF RingShape, HistTypeOK, KEEP_FILE_COUNT, histremove
<1>2. /\ Pending \in Seq(PendingEntry) /\ Len(Pending) = numhist
      /\ \A k \in 1..numhist : Pending[k] = EntryOf(Back(numhist - k))
  BY PendingEntries DEF QueueIsRing
<1>3. /\ Pending' \in Seq(PendingEntry) /\ Len(Pending') = n
      /\ \A k \in 1..n : Pending'[k] = EntryNext(Back(n - k))
  BY <1>0, <1>1, PendingNext DEF Back
<1>4. Victim(conshistp') = Back(numhist + 1)
  <2>1. conshistp = Succ(Behind(prodhistp, numhist))
    BY <1>1 DEF RingShape, Fresh, PointersAgree, Back
  <2>2. /\ numhist \in 1..(nhist - 1) /\ numhist - 1 \in 0..(nhist - 3)
        /\ (numhist - 1) + 2 = numhist + 1
    BY <1>1
  <2>3. conshistp' = Succ(Behind(prodhistp, numhist - 1))
    BY <1>1, <2>1, <2>2, BehindSucc DEF histremove
  <2>4. Victim(conshistp') = Behind(prodhistp, (numhist - 1) + 2)
    BY <1>1, <2>2, <2>3, VictimPlace
  <2> QED BY <2>2, <2>4 DEF Back
<1>5. Pending # <<>>
  BY <1>1, <1>2, EmptySeq
<1>6. /\ Tail(Pending) \in Seq(PendingEntry)
      /\ Len(Tail(Pending)) = n
      /\ \A k \in 1..n : Tail(Pending)[k] = Pending[k + 1]
  BY <1>1, <1>2, <1>5, HeadTailProperties
<1>7. ASSUME NEW k \in 1..n
      PROVE  Pending'[k] = Tail(Pending)[k]
  <2>1. /\ n - k \in 0..(nhist - 1) /\ numhist + 1 \in 0..(nhist - 1)
        /\ n - k # numhist + 1
        /\ k + 1 \in 1..numhist /\ numhist - (k + 1) = n - k
    BY <1>1
  <2>2. Back(n - k) \in Slots /\ Back(n - k) # Back(numhist + 1)
    BY <1>1, <2>1, BehindValue, BehindInjective DEF Back
  <2>3. EntryNext(Back(n - k)) = EntryOf(Back(n - k))
    BY <1>1, <1>4, <2>2 DEF EntryOf, EntryNext
  <2> QED BY <1>2, <1>3, <1>6, <2>1, <2>3
<1>8. Pending' = Tail(Pending)
  BY <1>3, <1>6, <1>7, SeqEqual
<1> QED BY <1>1, <1>5, <1>8 DEF Abstract!Take

LEMMA QueueStep ==
  ASSUME RingShape, RingShape', RingContents, [HistNext]_hvars
  PROVE  [Abstract!Next]_(Abstract!vars)
<1>1. ASSUME NEW d \in Dates, NEW t \in Types, histput(d, t)
      PROVE  [Abstract!Next]_(Abstract!vars)
  <2>1. CASE PutNew(d, t) \/ PutForced(d, t)
    BY <2>1, QueuePutNew DEF RingContents, Abstract!Next
  <2>2. CASE PutSame(d, t)
    <3>1. Back(0) = prodhistp /\ 0 \in 0..(nhist - 1)
      BY RingSize, SuccIsFarthest DEF Back, RingShape, HistTypeOK
    <3> QED BY <2>2, <3>1, QueuePutOld DEF PutSame, Abstract!Next
  <2>3. CASE PutLate(d, t)
    <3>1. PICK m \in 0..(nhist - 1) : m = Distance(d) /\ date[Back(m)] = d
      BY <2>3, RingSize, DistanceFacts DEF PutLate, RingShape
    <3> QED BY <2>3, <3>1, QueuePutOld DEF PutLate, Abstract!Next
  <2>4. CASE PutNotFound(d, t)
    BY <2>4 DEF PutNotFound, Pending, Abstract!vars
  <2> QED BY <1>1, <2>1, <2>2, <2>3, <2>4 DEF histput
<1>2. CASE numhist > 0 /\ histremove
  BY <1>2, QueueTake DEF Abstract!Next
<1>3. CASE UNCHANGED hvars
  BY <1>3 DEF hvars, Pending, Abstract!vars
<1> QED BY <1>1, <1>2, <1>3 DEF HistNext

LEMMA QueueInit == HistInit => Abstract!Init
<1> SUFFICES ASSUME HistInit PROVE Pending = <<>> /\ date[prodhistp] = 0
  BY DEF Abstract!Init
<1>1. QueueIsRing /\ numhist = 0
  BY ShapeInit, PendingEntries DEF HistInit
<1>2. Pending = <<>>
  BY <1>1, EmptySeq DEF QueueIsRing
<1>3. date[prodhistp] = 0
  BY RingSize DEF HistInit, Slots
<1> QED BY <1>2, <1>3

\* The history, with arrivals at most one entry late, is the bounded queue of
\* pending dates: histput and histremove lose, repeat and reorder none, and
\* only a full queue gives up its oldest one (misclib.c).
THEOREM Implements == Late <= 1 => (HistSpec => ImplementsQueue)
<1> SUFFICES ASSUME Late <= 1 PROVE HistSpec => ImplementsQueue
  OBVIOUS
<1>1. RingShape /\ RingShape' /\ RingContents /\ [HistNext]_hvars
        => [Abstract!Next]_(Abstract!vars)
  BY QueueStep
<1> QED
  BY <1>1, QueueInit, ContentsInvariant, PTL
  DEF HistSpec, ImplementsQueue, Abstract!Spec
=============================================================================
