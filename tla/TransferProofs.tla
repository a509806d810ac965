--------------------------- MODULE TransferProofs ---------------------------
(***************************************************************************)
(* The theorems of Upload, and those of the three ways of sending together *)
(* (Transfer), which are never in use at the same time.                    *)
(***************************************************************************)
EXTENDS Transfer, SenderProofs, LockedMoveProofs, FiniteSetTheorems

-----------------------------------------------------------------------------
(* Induction.  A set of numbers has a least member: the sets 0..(n - 1) are *)
(* finite, and strict inclusion of finite sets is well founded.            *)

\* A set of natural numbers that is not empty has a least member.
LEMMA LeastMember ==
  ASSUME NEW T, T \subseteq Nat, T # {}
  PROVE  \E n \in T : \A m \in T : n <= m
<1> DEFINE Smaller(n) == 0..(n - 1)
           U == {Smaller(n) : n \in T}
<1>1. IsWellFoundedOn(StrictSubsetOrdering(Nat), FiniteSubsetsOf(Nat))
  BY FS_StrictSubsetOrderingWellFounded
<1>2. \A n \in T : Smaller(n) \in FiniteSubsetsOf(Nat)
  <2> TAKE n \in T
  <2>1. IsFiniteSet(0..(n - 1))
    BY FS_Interval
  <2> QED
    BY <2>1 DEF FiniteSubsetsOf
<1>3. U \subseteq FiniteSubsetsOf(Nat) /\ U # {}
  BY <1>2
<1>4. \E x \in U : \A y \in U :
        ~ (<<y, x>> \in StrictSubsetOrdering(Nat))
  BY <1>1, <1>3, WFMin, Zenon
<1>5. PICK n \in T : \A y \in U :
        ~ (<<y, Smaller(n)>> \in StrictSubsetOrdering(Nat))
  BY <1>4
<1>6. ASSUME NEW m \in T, m < n
      PROVE  FALSE
  <2>1. Smaller(m) \in U /\ Smaller(n) \in U
    OBVIOUS
  <2>2. /\ Smaller(m) \subseteq Smaller(n)
        /\ m \in Smaller(n) /\ m \notin Smaller(m)
    BY <1>6
  <2>3. <<Smaller(m), Smaller(n)>> \in StrictSubsetOrdering(Nat)
    BY <2>2 DEF StrictSubsetOrdering
  <2> QED
    BY <2>1, <2>3, <1>5
<1> QED
  BY <1>6

\* What FlattenSeq computes, up to the m-th sequence of s.
Flattens(g, s, m) ==
  g = [i \in 1..m |-> IF i = 1 THEN s[i] ELSE g[i - 1] \o s[i]]

\* There is such a function: a smallest m without one would have one, from
\* that of m - 1.
LEMMA FlattensExists ==
  ASSUME NEW s, NEW k \in Nat
  PROVE  \E g : Flattens(g, s, k)
<1> DEFINE T == {m \in Nat : ~ \E g : Flattens(g, s, m)}
<1>1. SUFFICES ASSUME T # {} PROVE FALSE
  OBVIOUS
<1>2. PICK m \in T : \A j \in T : m <= j
  BY <1>1, LeastMember
<1>3. CASE m = 0
  <2> DEFINE g == [i \in 1..m |-> s[i]]
  <2>1. Flattens(g, s, m)
    BY <1>3 DEF Flattens
  <2> QED
    BY <2>1
<1>4. CASE m # 0
  <2>1. m - 1 \in Nat /\ m - 1 \notin T
    BY <1>2, <1>4
  <2>2. PICK g : Flattens(g, s, m - 1)
    BY <2>1
  <2> DEFINE h == [i \in 1..m |-> IF i < m THEN g[i]
                                  ELSE IF i = 1 THEN s[i] ELSE g[i - 1] \o s[i]]
  <2>3. ASSUME NEW i \in 1..m
        PROVE  h[i] = IF i = 1 THEN s[i] ELSE h[i - 1] \o s[i]
    <3>1. CASE i < m
      <4>1. i \in 1..(m - 1) /\ (i # 1 => i - 1 < m)
        BY <3>1, <1>2
      <4>2. g[i] = IF i = 1 THEN s[i] ELSE g[i - 1] \o s[i]
        BY <2>2, <4>1 DEF Flattens
      <4>3. h[i] = g[i] /\ (i # 1 => h[i - 1] = g[i - 1])
        BY <4>1, <3>1
      <4> QED
        BY <4>2, <4>3
    <3>2. CASE i = m
      BY <3>2
    <3> QED
      BY <3>1, <3>2
  <2>4. h = [i \in 1..m |-> IF i = 1 THEN s[i] ELSE h[i - 1] \o s[i]]
    BY <2>3
  <2>5. Flattens(h, s, m)
    BY <2>4 DEF Flattens
  <2> QED
    BY <2>5
<1> QED
  BY <1>3, <1>4

\* FlattenSeq of a sequence that is not empty.
LEMMA FlattenIs ==
  ASSUME NEW s, NEW n \in Nat \ {0}, n = Len(s)
  PROVE  FlattenSeq(s) = (CHOOSE f : Flattens(f, s, n))[n]
  BY DEF FlattenSeq, Flattens

\* The sequences in s put one behind the other: nothing is in the result that
\* is in none of them, and it begins with the first.
LEMMA FlattenFacts ==
  ASSUME NEW S, NEW s \in Seq(Seq(S)), Len(s) > 0
  PROVE  /\ FlattenSeq(s) \in Seq(S)
         /\ Len(s[1]) <= Len(FlattenSeq(s))
         /\ \A i \in 1..Len(s[1]) : FlattenSeq(s)[i] = s[1][i]
<1>1. PICK n \in Nat \ {0} : n = Len(s)
  OBVIOUS
<1> DEFINE g == CHOOSE f : Flattens(f, s, n)
           Good(q) == /\ q \in Seq(S) /\ Len(s[1]) <= Len(q)
                      /\ \A i \in 1..Len(s[1]) : q[i] = s[1][i]
           T == {j \in 1..n : ~Good(g[j])}
<1>2. Flattens(g, s, n)
  BY FlattensExists
<1>3. FlattenSeq(s) = g[n]
  BY <1>1, FlattenIs, Zenon
<1>4. \A j \in 1..n : g[j] = IF j = 1 THEN s[j] ELSE g[j - 1] \o s[j]
  BY <1>2, Zenon DEF Flattens
<1> HIDE DEF g
<1>5. ASSUME T # {} PROVE FALSE
  <2>0. T \subseteq Nat
    OBVIOUS
  <2> HIDE DEF T
  <2>1. PICK j \in T : \A k \in T : j <= k
    BY <1>5, <2>0, LeastMember
  <2> USE DEF T
  <2>2. s[1] \in Seq(S) /\ s[j] \in Seq(S)
    BY <1>1
  <2>3. CASE j = 1
    BY <2>2, <2>3, <1>4
  <2>4. CASE j # 1
    <3>1. j - 1 \in 1..n /\ j - 1 \notin T
      BY <2>1, <2>4
    <3>2. Good(g[j - 1])
      BY <3>1
    <3>3. g[j] = g[j - 1] \o s[j]
      BY <1>4, <2>4
    <3>4. PICK q \in Seq(S) : q = g[j - 1] /\ Good(q)
      BY <3>2
    <3> HIDE DEF Good
    <3>5. Good(q \o s[j])
      <4>1. PICK p \in Seq(S), r \in Seq(S) : p = s[1] /\ r = s[j]
        BY <2>2
      <4>2. Len(p) <= Len(q) /\ \A i \in 1..Len(p) : q[i] = p[i]
        BY <3>4, <4>1 DEF Good
      <4>3. PICK a \in Nat, b \in Nat, c \in Nat :
              a = Len(q) /\ b = Len(r) /\ c = Len(p)
        BY <3>4, <4>1
      <4>4. q \o r \in Seq(S) /\ Len(q \o r) = a + b
        BY <3>4, <4>1, <4>3
      <4>5. ASSUME NEW i \in 1..Len(p)
            PROVE  (q \o r)[i] = p[i]
        <5>1. i \in 1..a
          BY <4>2, <4>3
        <5>2. (q \o r)[i] = q[i]
          BY <4>3, <5>1
        <5> QED
          BY <5>2, <4>2
      <4> QED
        BY <4>1, <4>2, <4>3, <4>4, <4>5 DEF Good
    <3>6. Good(g[j])
      BY <3>3, <3>4, <3>5
    <3> QED
      BY <3>6
  <2> QED
    BY <2>3, <2>4
<1>6. Good(g[n])
  <2>1. n \in 1..n
    BY <1>1
  <2> HIDE DEF Good
  <2> QED
    BY <1>5, <2>1, Zenon DEF T
<1> QED
  BY <1>6, <1>3

-----------------------------------------------------------------------------
(* What is written to a file.                                              *)

\* t has the cells 1 to c of file f, each of them first seen
\* before the next ones, and nothing else.
Holds(t, f, c) ==
  /\ t \in Seq({f} \X (1..c))
  /\ \A i \in 1..c : \E p \in 1..Len(t) :
       /\ t[p] = <<f, i>>
       /\ \A q \in 1..p : t[q][2] <= i

\* The loop of fwrite writes the chunk, and then only parts of it.
LEMMA FwriteFacts ==
  ASSUME NEW f, NEW c \in Nat, NEW n \in Nat \ {0}
  PROVE  LET w == Fwrite([i \in 1..n |-> <<f, c + i>>])
         IN  /\ w \in Seq({f} \X ((c + 1)..(c + n))) /\ n <= Len(w)
             /\ \A i \in 1..n : w[i] = <<f, c + i>>
<1> DEFINE S == {f} \X ((c + 1)..(c + n))
           data == [i \in 1..n |-> <<f, c + i>>]
           s == [j \in 1..n |-> SubSeq(data, 1, n + 1 - j)]
<1>1. data \in Seq(S) /\ Len(data) = n
  OBVIOUS
<1>2. \A i \in 1..n : data[i] = <<f, c + i>>
  OBVIOUS
<1> HIDE DEF data, S
<1>3. ASSUME NEW j \in 1..n
      PROVE  SubSeq(data, 1, n + 1 - j) \in Seq(S)
  <2>1. n + 1 - j \in 1..n
    OBVIOUS
  <2>2. PICK m \in 1..n : m = n + 1 - j
    BY <2>1
  <2>3. \A k \in 1..m : data[k] \in S
    BY <1>1
  <2> QED
    BY <2>2, <2>3, <1>1
<1>4. s \in Seq(Seq(S)) /\ Len(s) = n
  BY <1>3
<1>5. /\ Len(s[1]) = n
      /\ \A i \in 1..n : s[1][i] = data[i]
  <2>1. s[1] = SubSeq(data, 1, n)
    OBVIOUS
  <2> QED
    BY <2>1, <1>1
<1>6. Fwrite(data) = FlattenSeq(s)
  BY <1>1 DEF Fwrite
<1> HIDE DEF s
<1>7. /\ FlattenSeq(s) \in Seq(S)
      /\ Len(s[1]) <= Len(FlattenSeq(s))
      /\ \A i \in 1..Len(s[1]) : FlattenSeq(s)[i] = s[1][i]
  BY <1>4, FlattenFacts
<1>8. /\ Fwrite(data) \in Seq(S) /\ n <= Len(Fwrite(data))
      /\ \A i \in 1..n : Fwrite(data)[i] = <<f, c + i>>
  BY <1>2, <1>5, <1>6, <1>7
<1> QED
  BY <1>8 DEF data, S

\* The next n cells, however often they are repeated, keep the order.
LEMMA HoldsMore ==
  ASSUME NEW f, NEW c \in Nat, NEW n \in Nat \ {0}, NEW t, Holds(t, f, c)
  PROVE  Holds(t \o Fwrite([i \in 1..n |-> <<f, c + i>>]), f, c + n)
<1> DEFINE w == Fwrite([i \in 1..n |-> <<f, c + i>>])
           S == {f} \X (1..(c + n))
<1>1. /\ w \in Seq({f} \X ((c + 1)..(c + n))) /\ n <= Len(w)
      /\ \A i \in 1..n : w[i] = <<f, c + i>>
  BY FwriteFacts
<1> HIDE DEF w
<1>2. t \in Seq(S) /\ w \in Seq(S)
  <2>1. /\ {f} \X ((c + 1)..(c + n)) \subseteq S
        /\ {f} \X (1..c) \subseteq S
    OBVIOUS
  <2> QED
    BY <2>1, <1>1 DEF Holds
<1> DEFINE v == t \o w
<1> HIDE DEF S
<1>3. PICK a \in Nat, b \in Nat : a = Len(t) /\ b = Len(w)
  BY <1>2
<1>4. /\ v \in Seq(S) /\ Len(v) = a + b
      /\ \A i \in 1..(a + b) : v[i] = IF i <= a THEN t[i] ELSE w[i - a]
  BY <1>2, <1>3, ConcatProperties
<1> HIDE DEF v
<1>5. ASSUME NEW i \in 1..(c + n)
      PROVE  \E p \in 1..Len(v) : /\ v[p] = <<f, i>>
                                  /\ \A q \in 1..p : v[q][2] <= i
  <2>1. CASE i <= c
    <3>1. i \in 1..c
      BY <2>1
    <3>2. PICK p \in 1..Len(t) : /\ t[p] = <<f, i>>
                                 /\ \A q \in 1..p : t[q][2] <= i
      BY <3>1 DEF Holds
    <3>3. \A q \in 1..p : q \in 1..(a + b) /\ q <= a
      BY <3>2, <1>3
    <3>4. p \in 1..Len(v) /\ \A q \in 1..p : v[q] = t[q]
      BY <3>2, <3>3, <1>3, <1>4
    <3>5. p \in 1..p
      BY <3>2
    <3> QED
      BY <3>2, <3>4, <3>5, Zenon
  <2>2. CASE i > c
    <3>1. PICK k \in 1..n : i = c + k
      BY <2>2
    <3>2. a + k \in 1..(a + b) /\ a + k - a = k /\ ~(a + k <= a)
      BY <3>1, <1>1, <1>3
    <3>3. v[a + k] = <<f, i>>
      <4>1. PICK p \in 1..(a + b) : p = a + k
        BY <3>2
      <4>2. p - a = k /\ ~(p <= a)
        BY <4>1, <3>1
      <4>3. v[p] = w[k]
        BY <4>2, <1>4
      <4> QED
        BY <4>1, <4>3, <3>1, <1>1
    <3>4. ASSUME NEW q \in 1..(a + k)
          PROVE  v[q][2] <= i
      <4>1. CASE q <= a
        <5>1. q \in 1..Len(t) /\ q \in 1..(a + b)
          BY <4>1, <3>2, <1>3
        <5>2. v[q] = t[q]
          BY <4>1, <5>1, <1>4
        <5>3. t \in Seq({f} \X (1..c))
          BY DEF Holds
        <5>4. t[q] \in {f} \X (1..c)
          BY <5>1, <5>3
        <5>5. t[q][2] \in 1..c
          BY <5>4
        <5> QED
          BY <5>2, <5>5, <2>2
      <4>2. CASE q > a
        <5>1. PICK j \in 1..k : j = q - a
          BY <4>2, <3>1
        <5>2. q \in 1..(a + b) /\ ~(q <= a) /\ j \in 1..n
          BY <4>2, <5>1, <3>1, <3>2
        <5>3. v[q] = <<f, c + j>>
          BY <5>1, <5>2, <1>1, <1>4
        <5> QED
          BY <5>1, <5>3, <3>1
      <4> QED
        BY <4>1, <4>2
    <3>5. a + k \in 1..Len(v)
      BY <3>2, <1>4
    <3> QED
      BY <3>3, <3>4, <3>5
  <2> QED
    BY <2>1, <2>2
<1> QED
  BY <1>4, <1>5 DEF Holds, v, w, S

-----------------------------------------------------------------------------
(* Upload: what holds of every request, and of one that was not refused.   *)

Cell == FilesSent \X (1..Cells)

UploadType ==
  /\ httpd \in {"runs", "loops", "broken"}
  /\ conn \in [Uploads -> {"new", "open", "done", "gone"}]
  /\ sent \in [Uploads -> Nat \X Nat]
  /\ \A u \in Uploads :
       sent[u] \in (1..(Len(Form[u]) + 1)) \X (0..(Cells - 1))
  /\ fp \in [Uploads -> FilesSent \cup {NotOpen, Stale}]
  /\ stopped \in [Uploads -> BOOLEAN]
  /\ stored \in [FilesSent -> Seq(Cell)]
  /\ closed \in [FilesSent -> {"not yet", "all written", "cut short"}]

AllConnected == \A u \in Uploads : Connected(u)

\* A context has a file of its own request open, from the first call of the
\* handler until the end of the form; an upload given up keeps it.
HoldsOwn ==
  \A u \in Uploads :
    fp[u] \in FilesSent =>
      fp[u] \in Range(Form[u]) /\ conn[u] \in {"open", "gone"}

LEMMA OwnHeld == UploadType /\ AllConnected => HoldsOwn
  BY UploadAssumption DEF UploadType, AllConnected, Connected, HoldsOwn

\* So few requests have been made that they can be counted.
FewBegun == IsFiniteSet({u \in Uploads : conn[u] # "new"})

\* Where a request is that has sent c cells of its one file.
At(c) == IF c = Cells THEN <<2, 0>> ELSE <<1, c>>

\* f was closed with its cells in it, or when the flush failed the first of
\* them.
Preserved(f) ==
  \E t : /\ Holds(t, f, Cells)
         /\ \/ stored[f] = t /\ closed[f] = "all written"
            \/ /\ closed[f] = "cut short"
               /\ \E k \in 0..Len(t) : stored[f] = SubSeq(t, 1, k)

\* A form with one file that was not refused: what has come is in the file.
Intact(u) ==
  /\ conn[u] = "new" => sent[u] = <<1, 0>> /\ fp[u] = NotOpen
  /\ conn[u] = "open" =>
       \/ sent[u] = <<1, 0>> /\ fp[u] = NotOpen
       \/ /\ fp[u] = Form[u][1]
          /\ \E c \in 1..Cells : /\ sent[u] = At(c)
                                 /\ Holds(stored[Form[u][1]], Form[u][1], c)
  /\ conn[u] = "done" => Preserved(Form[u][1])

AllIntact ==
  \A u \in Uploads : Len(Form[u]) = 1 /\ ~stopped[u] => Intact(u)

\* The file a chunk is for is one of its request's.
LEMMA CurrentFacts ==
  ASSUME NEW u \in Uploads, UploadType, sent[u][1] <= Len(Form[u])
  PROVE  /\ Current(u) \in Range(Form[u]) /\ Current(u) \in FilesSent
         /\ sent[u][1] \in 1..Len(Form[u]) /\ sent[u][2] \in 0..(Cells - 1)
         /\ sent[u] = <<sent[u][1], sent[u][2]>>
<1>1. sent[u] \in (1..(Len(Form[u]) + 1)) \X (0..(Cells - 1))
  BY DEF UploadType
<1>2. Form[u] \in Seq(FilesSent)
  BY UploadAssumption
<1>3. PICK m \in Nat : m = Len(Form[u])
  BY <1>2
<1>4. sent[u][1] \in 1..m
  BY <1>1, <1>3
<1>5. Form[u][sent[u][1]] \in Range(Form[u])
  BY <1>2, <1>3, <1>4 DEF Range
<1> QED
  BY <1>1, <1>3, <1>4, <1>5 DEF Current, FilesSent

\* What a chunk adds to a file are cells.
LEMMA ChunkFacts ==
  ASSUME NEW u \in Uploads, NEW n \in Nat \ {0}, UploadType,
         sent[u][1] <= Len(Form[u]), sent[u][2] + n <= Cells
  PROVE  Fwrite(Chunk(u, n)) \in Seq(Cell)
<1> DEFINE f == Current(u)
           c == sent[u][2]
<1>1. f \in FilesSent /\ c \in Nat /\ Cells \in Nat
  BY CurrentFacts, UploadAssumption
<1>2. Fwrite([i \in 1..n |-> <<f, c + i>>])
        \in Seq({f} \X ((c + 1)..(c + n)))
  BY <1>1, FwriteFacts
<1>3. {f} \X ((c + 1)..(c + n)) \subseteq Cell
  BY <1>1 DEF Cell
<1>4. Fwrite(Chunk(u, n)) \in Seq({f} \X ((c + 1)..(c + n)))
  BY <1>2 DEF Chunk
<1> QED
  BY <1>3, <1>4

\* A failing flush leaves sequences of cells, and the other files alone.
LEMMA FlushFacts ==
  ASSUME UploadType, NEW f \in FilesSent, FlushFails(f)
  PROVE  /\ stored' \in [FilesSent -> Seq(Cell)]
         /\ closed' \in [FilesSent -> {"not yet", "all written", "cut short"}]
         /\ closed'[f] = "cut short"
         /\ \E k \in 0..Len(stored[f]) : stored'[f] = SubSeq(stored[f], 1, k)
         /\ \A g \in FilesSent \ {f} : /\ stored'[g] = stored[g]
                                      /\ closed'[g] = closed[g]
<1>1. PICK t \in Seq(Cell) : t = stored[f]
  BY DEF UploadType
<1>2. PICK k \in 0..(Len(t) - 1) :
        stored' = [stored EXCEPT ![f] = SubSeq(@, 1, k)]
  BY <1>1 DEF FlushFails
<1>3. k \in 0..Len(t)
  BY <1>2
<1>4. SubSeq(t, 1, k) \in Seq(Cell)
  <2>1. \A i \in 1..k : t[i] \in Cell
    BY <1>3
  <2> QED
    BY <2>1, <1>3
<1>5. stored' = [stored EXCEPT ![f] = SubSeq(t, 1, k)]
  BY <1>1, <1>2
<1>6. closed' = [closed EXCEPT ![f] = "cut short"]
  BY DEF FlushFails
<1> QED
  BY <1>1, <1>3, <1>4, <1>5, <1>6 DEF UploadType

LEMMA UploadTypeInit ==
  UInit => UploadType /\ AllConnected /\ FewBegun /\ AllIntact
<1> SUFFICES ASSUME UInit
             PROVE  UploadType /\ AllConnected /\ FewBegun /\ AllIntact
  OBVIOUS
<1>1. UploadType
  <2>1. \A u \in Uploads : Len(Form[u]) \in Nat
    BY UploadAssumption
  <2>2. \A u \in Uploads :
          <<1, 0>> \in (1..(Len(Form[u]) + 1)) \X (0..(Cells - 1))
    BY <2>1, UploadAssumption
  <2>3. <<>> \in Seq(Cell)
    OBVIOUS
  <2> QED
    BY <2>2, <2>3 DEF UInit, UploadType
<1>2. AllConnected
  BY UploadAssumption DEF UInit, AllConnected, Connected, NotOpen, Stale
<1>3. FewBegun
  <2>1. {u \in Uploads : conn[u] # "new"} = {}
    BY DEF UInit
  <2> QED
    BY <2>1, FS_EmptySet DEF FewBegun
<1>4. AllIntact
  BY DEF UInit, AllIntact, Intact
<1> QED
  BY <1>1, <1>2, <1>3, <1>4

LEMMA UploadTypeStep == UploadType /\ [UNext]_uvars => UploadType'
<1> SUFFICES ASSUME UploadType, [UNext]_uvars
             PROVE  UploadType'
  OBVIOUS
<1>1. CASE UNCHANGED uvars
  BY <1>1 DEF UploadType, uvars
<1>2. ASSUME NEW u \in Uploads, uploadfile_first(u)
      PROVE  UploadType'
  BY <1>2 DEF UploadType, uploadfile_first
<1>3. ASSUME NEW u \in Uploads, uploadfile_end(u)
      PROVE  UploadType'
  <2>1. /\ stored' \in [FilesSent -> Seq(Cell)]
        /\ closed' \in [FilesSent -> {"not yet", "all written", "cut short"}]
    <3>1. CASE fp[u] \in FilesSent /\ FlushFails(fp[u])
      BY <3>1, FlushFacts
    <3>2. CASE /\ stored' = stored
               /\ closed' = [f \in FilesSent |->
                               IF f = fp[u] THEN "all written" ELSE closed[f]]
      BY <3>2 DEF UploadType
    <3> QED
      BY <1>3, <3>1, <3>2, Zenon DEF uploadfile_end, Context
  <2>2. /\ sent' = sent /\ stopped' = stopped
        /\ conn' \in [Uploads -> {"new", "open", "done", "gone"}]
        /\ httpd' \in {"runs", "loops", "broken"}
        /\ fp' \in [Uploads -> FilesSent \cup {NotOpen, Stale}]
    BY <1>3 DEF UploadType, uploadfile_end, Context
  <2> QED
    BY <2>1, <2>2 DEF UploadType
<1>4. ASSUME NEW u \in Uploads, disk_full(u)
      PROVE  UploadType'
  BY <1>4 DEF UploadType, disk_full
<1>5. ASSUME NEW u \in Uploads, reqcomplete_aborted(u)
      PROVE  UploadType'
  BY <1>5 DEF UploadType, reqcomplete_aborted
<1>6. ASSUME NEW u \in Uploads, NEW n \in 1..MaxChunk, uploadfile_data(u, n)
      PROVE  UploadType'
  <2>1. /\ Current(u) \in FilesSent
        /\ sent[u][1] \in 1..Len(Form[u]) /\ sent[u][2] \in 0..(Cells - 1)
        /\ Len(Form[u]) \in Nat /\ Cells \in Nat \ {0} /\ n \in Nat \ {0}
    BY <1>6, CurrentFacts, UploadAssumption DEF uploadfile_data
  <2>2. Fwrite(Chunk(u, n)) \in Seq(Cell)
    BY <1>6, <2>1, ChunkFacts DEF uploadfile_data
  <2>3. /\ sent' \in [Uploads -> Nat \X Nat]
        /\ \A v \in Uploads :
             sent'[v] \in (1..(Len(Form[v]) + 1)) \X (0..(Cells - 1))
    <3> DEFINE next == IF sent[u][2] + n = Cells
                       THEN <<sent[u][1] + 1, 0>>
                       ELSE <<sent[u][1], sent[u][2] + n>>
    <3>1. next \in (1..(Len(Form[u]) + 1)) \X (0..(Cells - 1))
      <4>1. PICK k \in Nat, c \in Nat, l \in Nat :
              k = sent[u][1] /\ c = sent[u][2] /\ l = Len(Form[u])
        BY <2>1
      <4>2. k \in 1..l /\ c + n <= Cells
        BY <1>6, <2>1, <4>1 DEF uploadfile_data
      <4>3. /\ k + 1 \in 1..(l + 1) /\ 0 \in 0..(Cells - 1) /\ k \in 1..(l + 1)
            /\ c + n # Cells => c + n \in 0..(Cells - 1)
        BY <2>1, <4>2
      <4> QED
        BY <4>1, <4>3
    <3>2. sent' = [sent EXCEPT ![u] = next]
      BY <1>6, Zenon DEF uploadfile_data
    <3> HIDE DEF next
    <3>3. next \in Nat \X Nat
      BY <2>1, <3>1
    <3> QED
      BY <3>1, <3>2, <3>3 DEF UploadType
  <2>4. /\ fp' \in [Uploads -> FilesSent \cup {NotOpen, Stale}]
        /\ stopped' \in [Uploads -> BOOLEAN]
        /\ stored' \in [FilesSent -> Seq(Cell)]
        /\ closed' \in [FilesSent -> {"not yet", "all written", "cut short"}]
    <3>1. CASE stopped[u]
      BY <1>6, <3>1 DEF uploadfile_data, UploadType
    <3>2. CASE FirstFile(u, n)
      BY <3>2, <2>1, <2>2 DEF FirstFile, UploadType
    <3>3. CASE NoFirstFile(u, n)
      BY <3>3 DEF NoFirstFile, UploadType
    <3>4. CASE NextFile(u, n)
      BY <3>4, <2>1, <2>2 DEF NextFile, UploadType, Context
    <3>5. CASE NoNextFile(u, n)
      <4>1. /\ fp' \in [Uploads -> FilesSent \cup {NotOpen, Stale}]
            /\ stopped' \in [Uploads -> BOOLEAN] /\ fp[u] \in FilesSent
        BY <3>5 DEF NoNextFile, UploadType, Context
      <4>2. CASE FlushFails(fp[u])
        BY <4>1, <4>2, FlushFacts
      <4>3. CASE /\ closed' = [closed EXCEPT ![fp[u]] = "all written"]
                 /\ UNCHANGED stored
        BY <4>1, <4>3 DEF UploadType
      <4> QED
        BY <3>5, <4>2, <4>3 DEF NoNextFile, Context
    <3>6. CASE SameFile(u, n)
      <4>1. fp[u] \in FilesSent /\ stored[fp[u]] \in Seq(Cell)
        BY <3>6 DEF SameFile, Context, UploadType
      <4>2. stored[fp[u]] \o Fwrite(Chunk(u, n)) \in Seq(Cell)
        BY <4>1, <2>2
      <4> QED
        BY <3>6, <4>1, <4>2 DEF SameFile, Context, UploadType
    <3> QED
      BY <1>6, <3>1, <3>2, <3>3, <3>4, <3>5, <3>6
      DEF uploadfile_data, post_progress
  <2> QED
    BY <1>6, <2>3, <2>4 DEF UploadType, uploadfile_data
<1> QED
  BY <1>1, <1>2, <1>3, <1>4, <1>5, <1>6 DEF UNext

\* What a chunk does to the contexts.
LEMMA ContextStep ==
  ASSUME UploadType, NEW u \in Uploads, NEW n \in 1..MaxChunk,
         uploadfile_data(u, n)
  PROVE  /\ \A v \in Uploads \ {u} : fp'[v] = fp[v] /\ stopped'[v] = stopped[v]
         /\ fp'[u] \in {fp[u], Current(u), Stale}
         /\ stopped[u] => fp'[u] = fp[u] /\ stopped'[u]
         /\ fp'[u] = Stale => stopped'[u] \/ fp[u] = Stale
<1>1. Current(u) \in FilesSent /\ Stale \notin FilesSent
  BY CurrentFacts, UploadAssumption DEF uploadfile_data
<1>2. CASE stopped[u]
  BY <1>2 DEF uploadfile_data
<1>3. CASE FirstFile(u, n) \/ NextFile(u, n)
  BY <1>1, <1>3 DEF uploadfile_data, FirstFile, NextFile, Context, UploadType
<1>4. CASE NoFirstFile(u, n) \/ NoNextFile(u, n)
  BY <1>4 DEF uploadfile_data, NoFirstFile, NoNextFile, Context, UploadType
<1>5. CASE SameFile(u, n)
  BY <1>5 DEF uploadfile_data, SameFile
<1> QED
  BY <1>2, <1>3, <1>4, <1>5 DEF uploadfile_data, post_progress

LEMMA ConnectedStep ==
  UploadType /\ AllConnected /\ [UNext]_uvars => AllConnected'
<1> SUFFICES ASSUME UploadType, AllConnected, [UNext]_uvars,
                    NEW v \in Uploads
             PROVE  Connected(v)'
  BY DEF AllConnected
<1>0. Connected(v)
  BY DEF AllConnected
<1>1. CASE UNCHANGED uvars
  BY <1>0, <1>1 DEF Connected, uvars
<1>2. ASSUME NEW u \in Uploads, uploadfile_first(u)
      PROVE  Connected(v)'
  BY <1>0, <1>2 DEF Connected, UploadType, uploadfile_first
<1>3. ASSUME NEW u \in Uploads, uploadfile_end(u)
      PROVE  Connected(v)'
  <2>1. /\ conn' = [conn EXCEPT ![u] = "done"] /\ sent' = sent
        /\ fp' = [fp EXCEPT ![u] = NotOpen] /\ stopped' = stopped
        /\ sent[u][1] > Len(Form[u])
    BY <1>3 DEF uploadfile_end, Context
  <2>2. NotOpen \notin FilesSent /\ NotOpen # Stale
    BY UploadAssumption DEF NotOpen, Stale
  <2>3. CASE v # u
    BY <1>0, <2>1, <2>3 DEF Connected, UploadType
  <2>4. CASE v = u
    <3>1. conn'[v] = "done" /\ fp'[v] = NotOpen
      BY <2>1, <2>4 DEF UploadType
    <3> QED
      BY <2>1, <2>2, <2>4, <3>1 DEF Connected
  <2> QED
    BY <2>3, <2>4
<1>4. ASSUME NEW u \in Uploads, disk_full(u)
      PROVE  Connected(v)'
  BY <1>0, <1>4 DEF Connected, disk_full
<1>5. ASSUME NEW u \in Uploads, reqcomplete_aborted(u)
      PROVE  Connected(v)'
  BY <1>0, <1>5 DEF Connected, UploadType, reqcomplete_aborted
<1>6. ASSUME NEW u \in Uploads, NEW n \in 1..MaxChunk, uploadfile_data(u, n)
      PROVE  Connected(v)'
  <2>1. /\ Current(u) \in Range(Form[u]) /\ Current(u) \in FilesSent
        /\ conn' = conn /\ conn[u] = "open"
        /\ sent[u][1] \in Nat \ {0} /\ sent[u][2] \in Nat
    BY <1>6, CurrentFacts DEF uploadfile_data
  <2>2. CASE v # u
    <3>1. fp'[v] = fp[v] /\ stopped'[v] = stopped[v] /\ sent'[v] = sent[v]
      BY <1>6, <2>2, ContextStep DEF uploadfile_data, UploadType
    <3> QED
      BY <1>0, <2>1, <3>1 DEF Connected
  <2>3. CASE v = u
    <3>1. sent'[u] # <<1, 0>>
      <4>1. sent'[u] = IF sent[u][2] + n = Cells
                       THEN <<sent[u][1] + 1, 0>>
                       ELSE <<sent[u][1], sent[u][2] + n>>
        BY <1>6 DEF uploadfile_data, UploadType
      <4> QED
        BY <2>1, <4>1
    <3>2. /\ fp'[u] \in {fp[u], Current(u), Stale}
          /\ stopped[u] => stopped'[u]
          /\ fp'[u] = Stale => stopped'[u] \/ fp[u] = Stale
      BY <1>6, ContextStep
    <3>3. Stale \notin FilesSent
      BY UploadAssumption
    <3> QED
      BY <1>0, <2>1, <2>3, <3>1, <3>2, <3>3 DEF Connected
  <2> QED
    BY <2>2, <2>3
<1> QED
  BY <1>1, <1>2, <1>3, <1>4, <1>5, <1>6 DEF UNext

LEMMA FewBegunStep ==
  UploadType /\ FewBegun /\ [UNext]_uvars => FewBegun'
<1> SUFFICES ASSUME UploadType, FewBegun, [UNext]_uvars
             PROVE  FewBegun'
  OBVIOUS
<1>1. CASE UNCHANGED uvars
  BY <1>1 DEF FewBegun, uvars
<1>2. CASE UNext
  <2>1. PICK u \in Uploads :
          \/ uploadfile_first(u) \/ uploadfile_end(u) \/ disk_full(u)
          \/ reqcomplete_aborted(u)
          \/ \E n \in 1..MaxChunk : uploadfile_data(u, n)
    BY <1>2 DEF UNext
  <2>2. \A v \in Uploads \ {u} : conn'[v] = conn[v]
    BY <2>1 DEF uploadfile_first, uploadfile_end, disk_full,
                reqcomplete_aborted, uploadfile_data, UploadType
  <2>3. {v \in Uploads : conn'[v] # "new"}
          \subseteq {v \in Uploads : conn[v] # "new"} \cup {u}
    BY <2>2
  <2>4. IsFiniteSet({v \in Uploads : conn[v] # "new"} \cup {u})
    BY FS_AddElement DEF FewBegun
  <2> QED
    BY <2>3, <2>4, FS_Subset DEF FewBegun
<1> QED
  BY <1>1, <1>2

\* One request acts.
Acts(u) ==
  \/ uploadfile_first(u) \/ uploadfile_end(u) \/ disk_full(u)
  \/ reqcomplete_aborted(u)
  \/ \E n \in 1..MaxChunk : uploadfile_data(u, n)

\* It leaves the others, and their files, alone.
LEMMA OthersKept ==
  ASSUME UploadType, HoldsOwn, NEW u \in Uploads, Acts(u),
         NEW v \in Uploads \ {u}
  PROVE  /\ conn'[v] = conn[v] /\ sent'[v] = sent[v] /\ fp'[v] = fp[v]
         /\ stopped'[v] = stopped[v]
         /\ \A f \in Range(Form[v]) : /\ stored'[f] = stored[f]
                                      /\ closed'[f] = closed[f]
<1>1. Range(Form[u]) \cap Range(Form[v]) = {}
  BY UploadAssumption
<1>2. Range(Form[v]) \subseteq FilesSent
  BY DEF FilesSent
<1> DEFINE Alone == \A f \in Range(Form[v]) : /\ stored'[f] = stored[f]
                                              /\ closed'[f] = closed[f]
<1>a. fp[u] \in FilesSent => fp[u] \notin Range(Form[v])
  BY <1>1 DEF HoldsOwn
<1>b. ASSUME fp[u] \in FilesSent, FlushFails(fp[u])
      PROVE  Alone
  BY <1>2, <1>a, <1>b, FlushFacts
<1>c. ASSUME stored' = stored,
             closed' = [f \in FilesSent |->
                          IF f = fp[u] THEN "all written" ELSE closed[f]]
      PROVE  Alone
  BY <1>2, <1>a, <1>c
<1>d. ASSUME fp[u] \in FilesSent, stored' = stored,
             closed' = [closed EXCEPT ![fp[u]] = "all written"]
      PROVE  Alone
  BY <1>2, <1>a, <1>d DEF UploadType
<1>3. CASE uploadfile_first(u) \/ disk_full(u) \/ reqcomplete_aborted(u)
  BY <1>3 DEF uploadfile_first, disk_full, reqcomplete_aborted, UploadType
<1>5. CASE uploadfile_end(u)
  <2>1. Alone
    BY <1>5, <1>b, <1>c DEF uploadfile_end, Context
  <2> HIDE DEF Alone
  <2>2. /\ conn'[v] = conn[v] /\ sent'[v] = sent[v] /\ fp'[v] = fp[v]
        /\ stopped'[v] = stopped[v]
    BY <1>5 DEF uploadfile_end, Context, UploadType
  <2> QED
    BY <2>1, <2>2 DEF Alone
<1>4. ASSUME NEW n \in 1..MaxChunk, uploadfile_data(u, n)
      PROVE  /\ conn'[v] = conn[v] /\ sent'[v] = sent[v] /\ fp'[v] = fp[v]
             /\ stopped'[v] = stopped[v] /\ Alone
  <2>1. Current(u) \in Range(Form[u]) /\ Current(u) \notin Range(Form[v])
    BY <1>1, <1>4, CurrentFacts DEF uploadfile_data
  <2>2. /\ conn'[v] = conn[v] /\ sent'[v] = sent[v] /\ fp'[v] = fp[v]
        /\ stopped'[v] = stopped[v]
    BY <1>4, ContextStep DEF uploadfile_data, UploadType
  <2>3. ASSUME UNCHANGED <<stored, closed>> PROVE Alone
    BY <2>3
  <2>4. ASSUME FirstFile(u, n) PROVE Alone
    BY <1>2, <2>1, <2>4 DEF FirstFile, UploadType
  <2>5. ASSUME NextFile(u, n) PROVE Alone
    BY <1>2, <1>a, <2>1, <2>5 DEF NextFile, Context, UploadType
  <2>6. ASSUME NoNextFile(u, n) PROVE Alone
    BY <2>6, <1>b, <1>d DEF NoNextFile, Context
  <2>7. ASSUME SameFile(u, n) PROVE Alone
    BY <1>2, <1>a, <2>7 DEF SameFile, Context, UploadType
  <2>8. Alone
    BY <1>4, <2>3, <2>4, <2>5, <2>6, <2>7
    DEF uploadfile_data, post_progress, NoFirstFile
  <2> HIDE DEF Alone
  <2> QED
    BY <2>2, <2>8
<1> QED
  BY <1>3, <1>4, <1>5 DEF Acts

\* The first chunk of a file, and one that follows.
LEMMA FirstChunkHolds ==
  ASSUME NEW f, NEW n \in Nat \ {0}
  PROVE  Holds(Fwrite([i \in 1..n |-> <<f, 0 + i>>]), f, n)
<1> DEFINE w == Fwrite([i \in 1..n |-> <<f, 0 + i>>])
<1>1. w \in Seq({f} \X ((0 + 1)..(0 + n)))
  BY FwriteFacts
<1>2. Holds(<<>>, f, 0)
  BY DEF Holds
<1>3. Holds(<<>> \o w, f, 0 + n)
  BY <1>2, HoldsMore
<1> HIDE DEF w
<1>4. <<>> \o w = w
  BY <1>1, ConcatEmptySeq
<1>5. 0 + n = n
  OBVIOUS
<1>6. Holds(w, f, n)
  BY <1>3, <1>4, <1>5
<1> QED
  BY <1>6 DEF w

LEMMA IntactData ==
  ASSUME UploadType, NEW u \in Uploads, NEW n \in 1..MaxChunk,
         uploadfile_data(u, n), Len(Form[u]) = 1, ~stopped[u], ~stopped'[u],
         Intact(u)
  PROVE  Intact(u)'
<1> DEFINE f == Form[u][1]
           c == sent[u][2]
<1>1. /\ conn[u] = "open" /\ conn' = conn /\ c + n <= Cells
      /\ sent[u][1] <= Len(Form[u]) /\ post_progress(u, n)
  BY DEF uploadfile_data
<1>2. /\ sent[u][1] \in 1..1 /\ c \in 0..(Cells - 1)
      /\ sent[u] = <<sent[u][1], c>> /\ Current(u) \in FilesSent
  BY <1>1, CurrentFacts
<1>3. /\ sent[u] = <<1, c>> /\ Current(u) = f /\ f \in FilesSent
      /\ c \in Nat /\ n \in Nat \ {0} /\ Cells \in Nat \ {0}
  BY <1>2, UploadAssumption DEF Current
<1>4. sent'[u] = At(c + n) /\ c + n \in 1..Cells
  <2>1. sent'[u] = IF c + n = Cells THEN <<sent[u][1] + 1, 0>>
                   ELSE <<sent[u][1], c + n>>
    BY DEF uploadfile_data, UploadType
  <2>2. sent[u][1] = 1 /\ c + n \in 1..Cells
    BY <1>1, <1>2, <1>3
  <2> QED
    BY <2>1, <2>2 DEF At
<1>5. Chunk(u, n) = [i \in 1..n |-> <<f, c + i>>]
  BY <1>3 DEF Chunk
<1>6. fp'[u] = f /\ Holds(stored'[f], f, c + n)
  <2>1. CASE sent[u] = <<1, 0>> /\ fp[u] = NotOpen
    <3>1. c = 0
      BY <2>1
    <3>2. NotOpen \notin FilesSent
      BY UploadAssumption
    <3>3. FirstFile(u, n)
      BY <1>1, <2>1, <3>2 DEF post_progress, NoFirstFile, NextFile, NoNextFile,
                              SameFile, Context, UploadType
    <3>4. fp'[u] = f /\ stored'[f] = Fwrite(Chunk(u, n))
      BY <1>3, <3>3 DEF FirstFile, Context, UploadType
    <3>5. Holds(Fwrite([i \in 1..n |-> <<f, 0 + i>>]), f, n)
      BY <1>3, FirstChunkHolds
    <3>6. Chunk(u, n) = [i \in 1..n |-> <<f, 0 + i>>] /\ c + n = n
      BY <1>3, <3>1 DEF Chunk
    <3> QED
      BY <3>4, <3>5, <3>6
  <2>2. CASE fp[u] = f /\ \E d \in 1..Cells : /\ sent[u] = At(d)
                                              /\ Holds(stored[f], f, d)
    <3>1. PICK d \in 1..Cells : sent[u] = At(d) /\ Holds(stored[f], f, d)
      BY <2>2
    <3>2. d = c
      BY <1>3, <3>1 DEF At
    <3>3. f # NotOpen
      BY <1>3, UploadAssumption
    <3>4. SameFile(u, n)
      <4>1. sent[u][1] = 1 /\ fp[u] # NotOpen
        BY <1>3, <2>2, <3>3
      <4>2. ~NextFile(u, n) /\ ~NoNextFile(u, n)
        BY <4>1 DEF NextFile, NoNextFile
      <4>3. ~FirstFile(u, n) /\ ~NoFirstFile(u, n)
        BY <4>1 DEF FirstFile, NoFirstFile, Context
      <4> QED
        BY <1>1, <4>2, <4>3 DEF post_progress
    <3>5. fp'[u] = f /\ stored'[f] = stored[f] \o Fwrite(Chunk(u, n))
      BY <1>3, <2>2, <3>4 DEF SameFile, Context, UploadType
    <3>6. Holds(stored[f] \o Fwrite([i \in 1..n |-> <<f, c + i>>]), f, c + n)
      BY <1>3, <3>1, <3>2, HoldsMore
    <3> QED
      BY <1>5, <3>5, <3>6
  <2> QED
    BY <1>1, <2>1, <2>2 DEF Intact
<1> QED
  BY <1>1, <1>4, <1>6 DEF Intact

LEMMA AllIntactStep ==
  UploadType /\ HoldsOwn /\ AllIntact /\ [UNext]_uvars => AllIntact'
<1> SUFFICES ASSUME UploadType, HoldsOwn, AllIntact, [UNext]_uvars
             PROVE  AllIntact'
  OBVIOUS
<1>1. CASE UNCHANGED uvars
  BY <1>1 DEF AllIntact, Intact, Preserved, uvars
<1>2. CASE UNext
  <2>1. PICK u \in Uploads : Acts(u)
    BY <1>2 DEF UNext, Acts
  <2>2. SUFFICES ASSUME NEW v \in Uploads, Len(Form[v]) = 1, ~stopped'[v]
                 PROVE  Intact(v)'
    BY DEF AllIntact
  <2>3. CASE v # u
    <3>1. /\ conn'[v] = conn[v] /\ sent'[v] = sent[v] /\ fp'[v] = fp[v]
          /\ stopped'[v] = stopped[v]
          /\ \A f \in Range(Form[v]) : /\ stored'[f] = stored[f]
                                       /\ closed'[f] = closed[f]
      BY <2>1, <2>3, OthersKept
    <3>2. Form[v][1] \in Range(Form[v])
      BY <2>2, UploadAssumption DEF Range
    <3>3. Intact(v)
      BY <2>2, <3>1 DEF AllIntact
    <3> QED
      <4>1. /\ stored'[Form[v][1]] = stored[Form[v][1]]
            /\ closed'[Form[v][1]] = closed[Form[v][1]]
        BY <3>1, <3>2
      <4>2. Preserved(Form[v][1]) => Preserved(Form[v][1])'
        BY <4>1, Zenon DEF Preserved
      <4> QED
        BY <3>1, <3>3, <4>1, <4>2 DEF Intact
  <2>4. CASE v = u
    <3>1. ~stopped[u] /\ Len(Form[u]) = 1
      BY <2>1, <2>2, <2>4
      DEF Acts, uploadfile_first, uploadfile_end, disk_full,
          reqcomplete_aborted, uploadfile_data
    <3>2. Intact(u)
      BY <3>1 DEF AllIntact
    <3>3. CASE uploadfile_first(u)
      BY <3>2, <3>3, <2>4 DEF uploadfile_first, Intact, UploadType, Preserved
    <3>4. CASE disk_full(u)
      BY <3>2, <3>4, <2>4 DEF disk_full, Intact, Preserved
    <3>5. CASE reqcomplete_aborted(u)
      BY <3>2, <3>5, <2>4 DEF reqcomplete_aborted, Intact, UploadType, Preserved
    <3>6. CASE uploadfile_end(u)
      <4>1. sent[u][1] # 1 /\ conn[u] = "open"
        <5>1. sent[u][1] > Len(Form[u]) /\ conn[u] = "open"
          BY <3>6, Zenon DEF uploadfile_end
        <5> QED
          BY <3>1, <5>1
      <4>2. PICK c \in 1..Cells : /\ sent[u] = At(c)
                                  /\ Holds(stored[Form[u][1]], Form[u][1], c)
                                  /\ fp[u] = Form[u][1]
        BY <3>2, <4>1 DEF Intact
      <4>3. c = Cells
        BY <4>1, <4>2 DEF At
      <4>4. Form[u][1] \in FilesSent
        <5>1. Form[u] \in Seq(FilesSent) /\ 1 \in 1..Len(Form[u])
          BY <3>1, UploadAssumption
        <5> QED
          BY <5>1
      <4> DEFINE f == Form[u][1]
      <4>5. PICK t : t = stored[f] /\ Holds(t, f, Cells)
        BY <4>2, <4>3
      <4>6. ASSUME FlushFails(f) PROVE Preserved(f)'
        <5>1. /\ closed'[f] = "cut short"
              /\ \E k \in 0..Len(t) : stored'[f] = SubSeq(t, 1, k)
          BY <4>4, <4>5, <4>6, FlushFacts
        <5> QED
          BY <4>5, <5>1 DEF Preserved
      <4>7. ASSUME stored' = stored, closed'[f] = "all written"
            PROVE  Preserved(f)'
        BY <4>5, <4>7 DEF Preserved
      <4>8. Preserved(f)'
        BY <3>6, <4>2, <4>4, <4>6, <4>7 DEF uploadfile_end, Context
      <4>9. conn'[u] = "done"
        BY <3>6 DEF uploadfile_end, UploadType
      <4> QED
        BY <2>4, <4>8, <4>9 DEF Intact
    <3>7. ASSUME NEW n \in 1..MaxChunk, uploadfile_data(u, n)
          PROVE  Intact(v)'
      BY <2>2, <2>4, <3>1, <3>2, <3>7, IntactData
    <3> QED
      BY <2>1, <3>3, <3>4, <3>5, <3>6, <3>7 DEF Acts
  <2> QED
    BY <2>3, <2>4
<1> QED
  BY <1>1, <1>2

-----------------------------------------------------------------------------
(* The theorems of Upload.                                                 *)

UploadInv == UploadType /\ AllConnected /\ FewBegun /\ AllIntact

LEMMA UploadInvStep == UploadInv /\ [UNext]_uvars => UploadInv'
  BY UploadTypeStep, ConnectedStep, FewBegunStep, OwnHeld, AllIntactStep
  DEF UploadInv

LEMMA UploadInvariant == USpec => []UploadInv
<1>1. UInit => UploadInv
  BY UploadTypeInit DEF UploadInv
<1> QED
  BY <1>1, UploadInvStep, PTL DEF USpec

\* The types of the upload server's state, and what connection, context and
\* file have to do with each other (http_daemon.c, uploadfile): no file before
\* the first cell and none after the answer, only one of the own form between,
\* and no write to a file closed too early.  For any requests, any length of
\* files, chunks and buffers, and any number of descriptors.
THEOREM UploadTypeCorrect == USpec => []UTypeOK
<1>1. ASSUME NEW S, NEW t \in Seq(S)
      PROVE  Range(t) \subseteq S
  BY DEF Range
<1>2. UploadInv => UTypeOK
  BY <1>1 DEF UploadInv, UploadType, AllConnected, UTypeOK, Cell
<1> QED
  BY <1>2, UploadInvariant, PTL

\* In a file with cells 1 to c, or in its beginning, none is before one that
\* belongs in front of it.
LEMMA HoldsInOrder ==
  ASSUME NEW f \in FilesSent, NEW t, NEW c \in Nat, Holds(t, f, c),
         NEW k \in 0..Len(t), stored[f] = SubSeq(t, 1, k)
  PROVE  InOrder(f)
<1>1. t \in Seq({f} \X (1..c))
  BY DEF Holds
<1>2. PICK l \in Nat : l = Len(t)
  BY <1>1
<1>3. k \in Nat /\ k <= l
  BY <1>2
<1>4. /\ DOMAIN stored[f] = 1..k
      /\ \A q \in 1..k : stored[f][q] = t[q]
  BY <1>1, <1>3
<1>5. ASSUME NEW p \in 1..k
      PROVE  /\ t[p][1] = f
             /\ \A i \in 1..t[p][2] : \E q \in 1..p : t[q] = <<f, i>>
  <2>1. p \in 1..l
    BY <1>3
  <2>2. PICK m \in 1..c : t[p] = <<f, m>>
    <3>1. t[p] \in {f} \X (1..c)
      BY <1>1, <1>2, <2>1
    <3> QED
      BY <3>1
  <2>3. ASSUME NEW i \in 1..m
        PROVE  \E q \in 1..p : t[q] = <<f, i>>
    <3>1. i \in 1..c
      OBVIOUS
    <3>2. PICK q \in 1..l : /\ t[q] = <<f, i>>
                            /\ \A j \in 1..q : t[j][2] <= i
      BY <1>2, <3>1 DEF Holds
    <3>3. CASE q <= p
      BY <3>2, <3>3
    <3>4. CASE q > p
      <4>1. p \in 1..q
        BY <3>4
      <4>2. t[p][2] <= i
        BY <3>2, <4>1
      <4>3. i = m
        BY <2>2, <4>2
      <4>4. p \in 1..p
        OBVIOUS
      <4> QED
        BY <2>2, <4>3, <4>4
    <3> QED
      BY <3>3, <3>4
  <2>4. t[p][1] = f /\ t[p][2] = m
    BY <2>2
  <2> QED
    BY <2>3, <2>4, Zenon
<1>6. ASSUME NEW p \in 1..k
      PROVE  /\ stored[f][p][1] = f
             /\ \A i \in 1..stored[f][p][2] :
                  \E q \in 1..p : stored[f][q] = <<f, i>>
  <2>1. stored[f][p] = t[p] /\ \A q \in 1..p : stored[f][q] = t[q]
    BY <1>3, <1>4
  <2> QED
    BY <1>5, <2>1
<1> QED
  BY <1>4, <1>6, Zenon DEF InOrder

\* A file that was answered OK is closed, holds its own cells in their order
\* and nothing of other requests (http_daemon.c, post_progress): the loop
\* around fwrite begins with the whole chunk and only repeats parts of it,
\* whatever the length of the chunk, and the context keeps the requests apart.
\* Only the end can be missing, when fclose could not write the last buffer
\* (http_daemon.c, uploadfile): that is answered OK as well.
THEOREM OkIsStored == USpec => []RepliedIsStored
<1>1. UploadInv => RepliedIsStored
  <2> SUFFICES ASSUME UploadInv, NEW u \in Uploads, Stored(u)
               PROVE  /\ closed[Form[u][1]] # "not yet" /\ InOrder(Form[u][1])
                      /\ closed[Form[u][1]] = "all written" => Whole(Form[u][1])
    BY DEF RepliedIsStored
  <2> DEFINE f == Form[u][1]
  <2>1. Preserved(f)
    BY DEF UploadInv, AllIntact, Intact, Stored
  <2>2. f \in FilesSent
    <3>1. Form[u] \in Seq(FilesSent) /\ 1 \in 1..Len(Form[u])
      BY UploadAssumption DEF Stored
    <3> QED
      BY <3>1
  <2> HIDE DEF f
  <2>3. PICK t : /\ Holds(t, f, Cells)
                 /\ \/ stored[f] = t /\ closed[f] = "all written"
                    \/ /\ closed[f] = "cut short"
                       /\ \E k \in 0..Len(t) : stored[f] = SubSeq(t, 1, k)
    BY <2>1 DEF Preserved
  <2>4. t \in Seq({f} \X (1..Cells)) /\ Cells \in Nat
    BY <2>3, UploadAssumption DEF Holds
  <2>5. CASE stored[f] = t /\ closed[f] = "all written"
    <3>1. PICK l \in Nat : l = Len(t)
      BY <2>4
    <3>2. t = SubSeq(t, 1, l) /\ l \in 0..Len(t)
      BY <2>4, <3>1
    <3>3. InOrder(f)
      BY <2>2, <2>3, <2>4, <2>5, <3>2, HoldsInOrder
    <3>4. \A i \in 1..Cells : \E p \in DOMAIN t : t[p] = <<f, i>>
      <4>1. DOMAIN t = 1..Len(t)
        BY <2>4
      <4> QED
        BY <2>3, <4>1, Zenon DEF Holds
    <3>5. Whole(f)
      BY <2>5, <3>4 DEF Whole, Range
    <3> QED
      BY <2>5, <3>3, <3>5 DEF f
  <2>6. CASE /\ closed[f] = "cut short"
             /\ \E k \in 0..Len(t) : stored[f] = SubSeq(t, 1, k)
    <3>1. InOrder(f)
      BY <2>2, <2>3, <2>4, <2>6, HoldsInOrder
    <3> QED
      BY <2>6, <3>1 DEF f
  <2> QED
    BY <2>3, <2>5, <2>6
<1> QED
  BY <1>1, UploadInvariant, PTL

\* fopen fails for a first file only when MaxOpen other requests, under way or
\* given up by their client, hold a descriptor: each file open belongs to one
\* of them, since the end of a form closes its file (http_daemon.c,
\* uploadfile).
THEOREM OnlyFullRefuses == USpec => RefusedWhenFull
<1>1. UploadInv /\ [UNext]_uvars =>
        [\A u \in Uploads :
           stopped'[u] /\ ~stopped[u] /\ sent[u][1] = 1 =>
             Cardinality({v \in Uploads \ {u} : conn[v] \in {"open", "gone"}})
               >= MaxOpen]_uvars
  <2> SUFFICES ASSUME UploadInv, UNext, NEW u \in Uploads,
                      stopped'[u], ~stopped[u], sent[u][1] = 1
               PROVE  Cardinality({v \in Uploads \ {u} :
                                     conn[v] \in {"open", "gone"}}) >= MaxOpen
    BY Zenon
  <2> DEFINE Others == {v \in Uploads \ {u} : conn[v] \in {"open", "gone"}}
             Begun == {v \in Uploads : conn[v] # "new"}
  <2>1. PICK v \in Uploads : Acts(v)
    BY DEF UNext, Acts
  <2>2. PICK n \in 1..MaxChunk : uploadfile_data(v, n)
    BY <2>1 DEF Acts, uploadfile_first, uploadfile_end, disk_full,
                reqcomplete_aborted
  <2>3. post_progress(v, n)
    BY <2>2 DEF uploadfile_data
  <2>4. v = u
    BY <2>3 DEF post_progress, FirstFile, NoFirstFile, NextFile, NoNextFile,
                SameFile, Context, UploadInv, UploadType
  <2>5. NoFirstFile(u, n)
    <3>1. ~FirstFile(u, n) /\ ~SameFile(u, n)
      BY DEF FirstFile, SameFile
    <3>2. ~NextFile(u, n) /\ ~NoNextFile(u, n)
      BY DEF NextFile, NoNextFile
    <3> QED
      BY <2>3, <2>4, <3>1, <3>2 DEF post_progress
  <2>6. fp[u] = NotOpen /\ NotOpen \notin FilesSent
    BY <2>5, UploadAssumption DEF NoFirstFile, Context
  <2>7. Cardinality(Open) >= MaxOpen
    BY <2>5 DEF NoFirstFile
  <2>8. Open \subseteq Others
    BY <2>6, OwnHeld DEF Open, UploadInv, HoldsOwn
  <2>9. IsFiniteSet(Others)
    <3>1. Others \subseteq Begun
      OBVIOUS
    <3>2. IsFiniteSet(Begun)
      BY DEF UploadInv, FewBegun
    <3> QED
      BY <3>1, <3>2, FS_Subset
  <2> HIDE DEF Others
  <2>10. /\ Cardinality(Open) <= Cardinality(Others)
         /\ Cardinality(Open) \in Nat /\ Cardinality(Others) \in Nat
    BY <2>8, <2>9, FS_Subset, FS_CardinalityType
  <2>11. Cardinality(Others) >= MaxOpen
    BY <2>7, <2>10, UploadAssumption
  <2> QED
    BY <2>11 DEF Others
<1> QED
  BY <1>1, UploadInvariant, PTL DEF USpec, RefusedWhenFull

-----------------------------------------------------------------------------
(* The ways of sending together.                                           *)

\* Whatever the URL, a behaviour of watch_and_transfer and http_put is one of
\* each way of sending: the ways that were not chosen stand still.
LEMMA TransferIsEach == TSpec => SSpec /\ LMSpec /\ USpec
<1>1. TInit => SInit /\ LMInit /\ UInit
  BY DEF TInit
<1>2. [TNext]_tvars =>
        [SNext]_svvars /\ [LMNext]_lmvars /\ [UNext]_uvars
  <2>1. CASE UNCHANGED tvars
    BY <2>1 DEF tvars
  <2>2. CASE TNext
    BY <2>2 DEF TNext, by_sftp, by_lock, by_http_put
  <2> QED
    BY <2>1, <2>2
<1> QED
  BY <1>1, <1>2, PTL DEF TSpec, SSpec, LMSpec, USpec

\* The types of all three.
THEOREM TransferTypeCorrect == TSpec => []TTypeOK
<1>1. STypeOK /\ LMTypeOK /\ UTypeOK => TTypeOK
  BY DEF TTypeOK
<1> QED
  BY <1>1, TransferIsEach, SenderTypeCorrect, LockedMoveTypeCorrect,
     UploadTypeCorrect, PTL

\* Whichever way is chosen (watch_and_transfer.c, trans_type) its promises
\* hold: by sftp a notification names a file that is there, by lock no file is
\* lost and only whole files are named, by http what was answered OK is stored
\* but for the end of a file whose last flush failed, and a file is refused
\* only for want of descriptors.
THEOREM TransferKeepsPromises ==
  TSpec => /\ []NamedIsThere /\ []NothingLost /\ []NamedIsWhole
           /\ []RepliedIsStored /\ RefusedWhenFull
  BY TransferIsEach, NotifiedIsThere, MovedNotLost, NamesWhole, OkIsStored,
     OnlyFullRefuses, PTL

\* By sftp, with kwatcher at most F_VERSION_M notifications behind, files are
\* also taken in their order, and each is told of.
THEOREM TransferInOrder ==
  MaxBehind <= F_VERSION_M => (TSpec => []GotInOrder /\ []EachIsTold)
  BY TransferIsEach, TakenInOrder, EachTold, PTL
=============================================================================
