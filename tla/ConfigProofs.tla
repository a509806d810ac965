---------------------------- MODULE ConfigProofs ----------------------------
(***************************************************************************)
(* The theorems of Config: readconf stays within its tables whatever it is *)
(* given, and reads a file written by the grammar as it was meant.         *)
(*                                                                         *)
(* The second needs what FlattenSeq computes for sequences of any length.  *)
(* Induction is by sets here: a set that has 0, and n + 1 with n, has all  *)
(* the numbers, since what it lacked would have a least one.               *)
(***************************************************************************)
EXTENDS Config, FiniteSetTheorems, SequenceTheorems, WellFoundedInduction,
        TLAPS

\* A list, of whatever strings.
IsList(s) == \E S : s \in Seq(S)

\* Of the text nothing is said: the tables hold against any sequence of tokens.
TablesInv ==
  /\ at \in {"top", "region", "sync", "regcomp", "runs", "exit", "crashed"}
  /\ cent \in 0..MAX_CONF /\ confent \in 0..cent
  /\ at = "region" => cent < MAX_CONF
  /\ conf = [i \in 0..MAX_CONF |-> conf[i]] /\ conf[MAX_CONF] = Empty
  /\ IsList(synctype) /\ Len(synctype) \in 0..MAX_SYNCFILES
  /\ syncent \in 0..Len(synctype)

LEMMA AppendList ==
  ASSUME NEW s, IsList(s), NEW e
  PROVE  IsList(Append(s, e)) /\ Len(Append(s, e)) = Len(s) + 1
<1>1. PICK S : s \in Seq(S)
  BY DEF IsList
<1> DEFINE T == S \cup {e}
<1>2. s \in Seq(T) /\ e \in T
  BY <1>1
<1> HIDE DEF T
<1>3. Append(s, e) \in Seq(T) /\ Len(Append(s, e)) = Len(s) + 1
  BY <1>2
<1> QED
  BY <1>3 DEF IsList

\* No pattern is compiled for the entry that ends the table.
LEMMA EmptyStays ==
  ASSUME NEW b, b = FALSE
  PROVE  [Empty EXCEPT !.preg = b] = Empty
<1>1. /\ Empty = [k \in {"area", "items", "preg"} |-> Empty[k]]
      /\ Empty["preg"] = FALSE
  BY DEF Empty
<1>2. [Empty EXCEPT !["preg"] = b]
        = [k \in {"area", "items", "preg"} |->
             IF k = "preg" THEN b ELSE Empty[k]]
  BY <1>1
<1> QED
  BY <1>1, <1>2

LEMMA TablesStep == TablesInv /\ [CNext]_cvars => TablesInv'
<1> SUFFICES ASSUME TablesInv, [CNext]_cvars
             PROVE  TablesInv'
  OBVIOUS
<1>1. MAX_CONF \in Nat \ {0} /\ MAX_SYNCFILES \in Nat \ {0}
  BY ConfigAssumption
<1>2. CASE UNCHANGED cvars
  BY <1>2 DEF TablesInv, cvars
<1>3. ASSUME cent < MAX_CONF, UNCHANGED <<cent, confent, synctype, syncent>>,
             at' = "region",
             \A i \in 0..MAX_CONF : i # cent => conf'[i] = conf[i],
             conf' = [i \in 0..MAX_CONF |-> conf'[i]]
      PROVE  TablesInv'
  BY <1>1, <1>3 DEF TablesInv
<1>4. CASE open_region
  BY <1>1, <1>3, <1>4 DEF open_region, TablesInv
<1>5. CASE region_item
  BY <1>1, <1>3, <1>5 DEF region_item, TablesInv
<1>6. CASE close_region
  <2>1. cent' \in 0..MAX_CONF /\ confent' \in 0..cent' /\ at' = "top"
    <3>1. PICK c \in Nat, e \in Nat : c = cent /\ e = confent /\ e <= c
      <4>1. cent \in Nat /\ confent \in 0..cent
        BY <1>1 DEF TablesInv
      <4> QED
        BY <4>1
    <3>2. c < MAX_CONF /\ cent' = c + 1 /\ confent' = e /\ at' = "top"
      BY <1>6, <3>1 DEF close_region, TablesInv
    <3> QED
      BY <1>1, <3>1, <3>2
  <2> QED
    BY <2>1, <1>6 DEF close_region, TablesInv
<1>7. CASE open_sync
  BY <1>7 DEF open_sync, TablesInv
<1>8. CASE sync_item
  <2>1. synctype' = Append(synctype, Buf(3)) /\ Len(synctype) < MAX_SYNCFILES
    BY <1>8 DEF sync_item
  <2>2. IsList(synctype') /\ Len(synctype') = Len(synctype) + 1
    BY <2>1, AppendList DEF TablesInv
  <2>3. /\ Len(synctype') \in 0..MAX_SYNCFILES
        /\ syncent \in 0..Len(synctype')
    BY <1>1, <2>1, <2>2 DEF TablesInv
  <2> QED
    BY <1>8, <2>2, <2>3 DEF sync_item, TablesInv
<1>9. CASE close_sync
  BY <1>9 DEF close_sync, TablesInv
<1>10. CASE cut_block
  BY <1>10 DEF cut_block, TablesInv
<1>11. CASE end_of_file
  BY <1>1, <1>11 DEF end_of_file, TablesInv
<1>12. CASE format_error
  BY <1>12 DEF format_error, TablesInv
<1>13. CASE regex_init
  <2>1. conf' = [i \in 0..MAX_CONF |->
                   [conf[i] EXCEPT !.preg =
                      i < confent
                        /\ conf[i].items["pattern"] \notin BadPatterns]]
    BY <1>13 DEF regex_init
  <2>2. ~(MAX_CONF < confent) /\ MAX_CONF \in 0..MAX_CONF
    BY <1>1 DEF TablesInv
  <2>3. conf'[MAX_CONF] =
          [Empty EXCEPT !.preg = MAX_CONF < confent
                          /\ Empty.items["pattern"] \notin BadPatterns]
    BY <2>1, <2>2 DEF TablesInv
  <2>4. conf'[MAX_CONF] = Empty
    BY <2>2, <2>3, EmptyStays
  <2>5. conf' = [i \in 0..MAX_CONF |-> conf'[i]]
    BY <2>1
  <2> QED
    BY <1>13, <2>4, <2>5 DEF regex_init, TablesInv
<1>14. CASE regex_match
  <2>1. at' \in {"crashed", "runs"}
    BY <1>14 DEF regex_match
  <2> QED
    BY <1>14, <2>1 DEF regex_match, TablesInv
<1> QED
  BY <1>2, <1>4, <1>5, <1>6, <1>7, <1>8, <1>9, <1>10, <1>11, <1>12, <1>13,
     <1>14 DEF CNext

LEMMA TablesInit == CInit => TablesInv
<1> SUFFICES ASSUME CInit
             PROVE  TablesInv
  OBVIOUS
<1>1. MAX_CONF \in Nat /\ MAX_SYNCFILES \in Nat
  BY ConfigAssumption
<1>2. IsList(<<>>) /\ Len(<<>>) = 0
  BY DEF IsList
<1>3. conf = [i \in 0..MAX_CONF |-> conf[i]] /\ conf[MAX_CONF] = Empty
  <2>1. MAX_CONF \in 0..MAX_CONF
    BY <1>1
  <2>2. conf = [i \in 0..MAX_CONF |-> Empty]
    BY DEF CInit
  <2> QED
    BY <2>1, <2>2
<1>4. cent \in 0..MAX_CONF /\ confent \in 0..cent /\ at = "top"
  <2>1. cent = 0 /\ confent = 0 /\ at = "top"
    BY DEF CInit
  <2> QED
    BY <1>1, <2>1
<1>5. /\ IsList(synctype) /\ Len(synctype) \in 0..MAX_SYNCFILES
      /\ syncent \in 0..Len(synctype)
  <2>1. synctype = <<>> /\ syncent = 0
    BY DEF CInit
  <2>2. IsList(synctype) /\ Len(synctype) = 0
    BY <1>2, <2>1
  <2> QED
    BY <1>1, <2>1, <2>2
<1> QED
  BY <1>3, <1>4, <1>5 DEF TablesInv

\* Whatever tokens the file has, those of the grammar in any order or others,
\* readconf leaves the last entry of conf empty, so that the walk of regex_match
\* ends, and never writes behind synctype (regexplib.c:54-57, 163, 198).  Texts
\* may be any set of sequences of tokens.
THEOREM TablesHold == CSpec => []CTypeOK
<1>1. TablesInv => CTypeOK
  BY ConfigAssumption DEF TablesInv, CTypeOK
<1> QED
  BY <1>1, TablesInit, TablesStep, PTL DEF CSpec

-----------------------------------------------------------------------------
(* Induction                                                               *)

\* A set of numbers has a least one: that strict inclusion is well-founded on
\* finite sets gives induction without an operator as parameter.
LEMMA LeastMember ==
  ASSUME NEW T, T \subseteq Nat, T # {}
  PROVE  \E n \in T : \A m \in T : n <= m
<1> DEFINE Smaller(n) == 0..(n - 1)
           U == {Smaller(n) : n \in T}
<1>1. IsWellFoundedOn(StrictSubsetOrdering(Nat), FiniteSubsetsOf(Nat))
  BY FS_StrictSubsetOrderingWellFounded
<1>2. \A n \in T : Smaller(n) \in FiniteSubsetsOf(Nat)
  <2> TAKE n \in T
  <2>1. IsFiniteSet(0..(n - 1))
    BY FS_Interval
  <2> QED
    BY <2>1 DEF FiniteSubsetsOf
<1>3. U \subseteq FiniteSubsetsOf(Nat) /\ U # {}
  BY <1>2
<1>4. \E x \in U : \A y \in U :
        ~ (<<y, x>> \in StrictSubsetOrdering(Nat))
  BY <1>1, <1>3, WFMin, Zenon
<1>5. PICK n \in T : \A y \in U :
        ~ (<<y, Smaller(n)>> \in StrictSubsetOrdering(Nat))
  BY <1>4
<1>6. ASSUME NEW m \in T, m < n
      PROVE  FALSE
  <2>1. Smaller(m) \in U /\ Smaller(n) \in U
    OBVIOUS
  <2>2. /\ Smaller(m) \subseteq Smaller(n)
        /\ m \in Smaller(n) /\ m \notin Smaller(m)
    BY <1>6
  <2>3. <<Smaller(m), Smaller(n)>> \in StrictSubsetOrdering(Nat)
    BY <2>2 DEF StrictSubsetOrdering
  <2> QED
    BY <2>1, <2>3, <1>5
<1> QED
  BY <1>6

\* Induction over numbers, and over sequences, for a set that stands for what
\* is to be shown.
LEMMA AllNumbers ==
  ASSUME NEW T, 0 \in T, \A n \in Nat : n \in T => n + 1 \in T
  PROVE  Nat \subseteq T
<1> SUFFICES ASSUME Nat \ T # {}
             PROVE  FALSE
  OBVIOUS
<1>1. PICK n \in Nat \ T : \A m \in Nat \ T : n <= m
  <2> DEFINE U == Nat \ T
  <2>1. U \subseteq Nat /\ U # {}
    OBVIOUS
  <2> HIDE DEF U
  <2>2. \E n \in U : \A m \in U : n <= m
    BY <2>1, LeastMember
  <2> QED
    BY <2>2 DEF U
<1>2. n - 1 \in Nat /\ n - 1 \in T
  BY <1>1
<1> QED
  BY <1>1, <1>2

LEMMA AllSequences ==
  ASSUME NEW S, NEW Q, <<>> \in Q,
         \A s \in Seq(S) : \A x \in S : s \in Q => Append(s, x) \in Q
  PROVE  Seq(S) \subseteq Q
<1> DEFINE T == {n \in Nat : \A s \in Seq(S) : Len(s) = n => s \in Q}
<1>1. 0 \in T
  <2>1. \A s \in Seq(S) : Len(s) = 0 => s = <<>>
    OBVIOUS
  <2> QED
    BY <2>1
<1>2. ASSUME NEW n \in Nat, n \in T
      PROVE  n + 1 \in T
  <2> SUFFICES ASSUME NEW s \in Seq(S), Len(s) = n + 1
               PROVE  s \in Q
    OBVIOUS
  <2> DEFINE front == [i \in 1..n |-> s[i]]
  <2>1. front \in Seq(S) /\ Len(front) = n /\ s[n + 1] \in S
    OBVIOUS
  <2>2. s = Append(front, s[n + 1])
    OBVIOUS
  <2>3. front \in Q
    BY <1>2, <2>1
  <2> HIDE DEF front
  <2> QED
    BY <2>1, <2>2, <2>3
<1> HIDE DEF T
<1>3. Nat \subseteq T
  BY <1>1, <1>2, AllNumbers
<1> USE DEF T
<1> QED
  BY <1>3

-----------------------------------------------------------------------------
(* Sequences put one behind the other                                      *)

\* What FlattenSeq computes, up to the m-th sequence of s.
Flattens(g, s, m) ==
  g = [i \in 1..m |-> IF i = 1 THEN s[i] ELSE g[i - 1] \o s[i]]

Joins(T) == \A a, b \in T : a \o b \in T

\* There is such a function, and its values are in a set closed under \o.
LEMMA FlattensExists ==
  ASSUME NEW T, Joins(T), NEW s \in Seq(T), NEW n \in Nat, n <= Len(s)
  PROVE  \E g \in [1..n -> T] : Flattens(g, s, n)
<1> DEFINE Q == {m \in Nat : m <= Len(s) =>
                   \E g \in [1..m -> T] : Flattens(g, s, m)}
<1>1. 0 \in Q
  <2>1. Flattens(<<>>, s, 0) /\ <<>> \in [1..0 -> T]
    BY DEF Flattens
  <2> QED
    BY <2>1
<1>2. ASSUME NEW m \in Nat, m \in Q
      PROVE  m + 1 \in Q
  <2> SUFFICES ASSUME m + 1 <= Len(s)
               PROVE  \E g \in [1..(m + 1) -> T] : Flattens(g, s, m + 1)
    OBVIOUS
  <2>1. PICK g \in [1..m -> T] : Flattens(g, s, m)
    BY <1>2
  <2>2. PICK last \in T : last = IF m = 0 THEN s[1] ELSE g[m] \o s[m + 1]
    <3>1. s[m + 1] \in T /\ (m = 0 => s[1] \in T) /\ (m # 0 => g[m] \in T)
      OBVIOUS
    <3> QED
      BY <3>1 DEF Joins
  <2> DEFINE h == [i \in 1..(m + 1) |-> IF i <= m THEN g[i] ELSE last]
  <2>3. h \in [1..(m + 1) -> T]
    OBVIOUS
  <2>4. ASSUME NEW i \in 1..(m + 1)
        PROVE  h[i] = IF i = 1 THEN s[i] ELSE h[i - 1] \o s[i]
    <3>1. CASE i <= m
      <4>1. i \in 1..m /\ (i # 1 => i - 1 \in 1..m)
        BY <3>1
      <4>2. g[i] = IF i = 1 THEN s[i] ELSE g[i - 1] \o s[i]
        BY <2>1, <4>1 DEF Flattens
      <4>3. h[i] = g[i] /\ (i # 1 => h[i - 1] = g[i - 1])
        BY <4>1
      <4> QED
        BY <4>2, <4>3
    <3>2. CASE i = m + 1
      <4>1. h[i] = last /\ (m # 0 => h[m] = g[m])
        BY <3>2
      <4> QED
        BY <3>2, <4>1, <2>2
    <3> QED
      BY <3>1, <3>2
  <2> HIDE DEF h
  <2>5. h = [i \in 1..(m + 1) |-> IF i = 1 THEN s[i] ELSE h[i - 1] \o s[i]]
    BY <2>3, <2>4
  <2> QED
    BY <2>3, <2>5 DEF Flattens
<1> HIDE DEF Q
<1>3. n \in Q
  BY <1>1, <1>2, AllNumbers
<1> USE DEF Q
<1> QED
  BY <1>3

\* There is one only, and it says the same of a longer sequence.
LEMMA FlattensSame ==
  ASSUME NEW s, NEW t, NEW n \in Nat, NEW k \in Nat, n <= k,
         \A i \in 1..n : s[i] = t[i],
         NEW g, Flattens(g, s, n), NEW h, Flattens(h, t, k)
  PROVE  \A i \in 1..n : g[i] = h[i]
<1>1. /\ \A j \in 1..n : g[j] = IF j = 1 THEN s[j] ELSE g[j - 1] \o s[j]
      /\ \A j \in 1..n : h[j] = IF j = 1 THEN t[j] ELSE h[j - 1] \o t[j]
  <2>1. \A j \in 1..n : g[j] = IF j = 1 THEN s[j] ELSE g[j - 1] \o s[j]
    BY DEF Flattens
  <2>2. \A j \in 1..k : h[j] = IF j = 1 THEN t[j] ELSE h[j - 1] \o t[j]
    BY DEF Flattens
  <2> QED
    BY <2>1, <2>2
<1> DEFINE Q == {m \in Nat : m \in 1..n => g[m] = h[m]}
<1>2. 0 \in Q
  OBVIOUS
<1>3. ASSUME NEW m \in Nat, m \in Q
      PROVE  m + 1 \in Q
  <2> SUFFICES ASSUME m + 1 \in 1..n
               PROVE  g[m + 1] = h[m + 1]
    OBVIOUS
  <2>1. CASE m = 0
    BY <1>1, <2>1
  <2>2. CASE m # 0
    <3>1. m \in 1..n /\ g[m] = h[m] /\ (m + 1) - 1 = m /\ m + 1 # 1
      BY <1>3, <2>2
    <3> QED
      BY <1>1, <3>1
  <2> QED
    BY <2>1, <2>2
<1> HIDE DEF Q
<1>4. Nat \subseteq Q
  BY <1>2, <1>3, AllNumbers
<1> USE DEF Q
<1> QED
  BY <1>4

LEMMA FlattenIs ==
  ASSUME NEW s, NEW n \in Nat \ {0}, n = Len(s), NEW g, Flattens(g, s, n)
  PROVE  FlattenSeq(s) = g[n]
<1> DEFINE f == CHOOSE f : Flattens(f, s, n)
<1>1. Flattens(f, s, n)
  OBVIOUS
<1>2. FlattenSeq(s) = f[n]
  BY DEF FlattenSeq, Flattens
<1> HIDE DEF f
<1>3. \A i \in 1..n : f[i] = g[i]
  BY <1>1, FlattensSame
<1> QED
  BY <1>2, <1>3

LEMMA FlattenEmpty == FlattenSeq(<<>>) = <<>>
  BY DEF FlattenSeq

LEMMA FlattenAppend ==
  ASSUME NEW T, Joins(T), NEW s \in Seq(T), NEW x \in T
  PROVE  FlattenSeq(Append(s, x))
           = IF s = <<>> THEN x ELSE FlattenSeq(s) \o x
<1>1. PICK n \in Nat : n = Len(s)
  OBVIOUS
<1>2. PICK t \in Seq(T) : t = Append(s, x)
  <2>1. Append(s, x) \in Seq(T)
    OBVIOUS
  <2> QED
    BY <2>1
<1>3. /\ Len(t) = n + 1 /\ t[n + 1] = x
      /\ \A i \in 1..n : s[i] = t[i]
  BY <1>1, <1>2
<1>4. PICK g \in [1..(n + 1) -> T] : Flattens(g, t, n + 1)
  BY <1>3, FlattensExists
<1>5. FlattenSeq(t) = g[n + 1]
  BY <1>3, <1>4, FlattenIs
<1>6. g[n + 1] = IF n = 0 THEN x ELSE g[n] \o x
  <2>1. \A i \in 1..(n + 1) : g[i] = IF i = 1 THEN t[i] ELSE g[i - 1] \o t[i]
    BY <1>4, Zenon DEF Flattens
  <2>2. n + 1 \in 1..(n + 1) /\ (n + 1) - 1 = n /\ (n + 1 = 1 <=> n = 0)
    OBVIOUS
  <2> QED
    BY <1>3, <2>1, <2>2, Zenon
<1>7. n # 0 => FlattenSeq(s) = g[n]
  <2> SUFFICES ASSUME n # 0
               PROVE  FlattenSeq(s) = g[n]
    OBVIOUS
  <2> DEFINE h == [i \in 1..n |-> g[i]]
  <2>1. \A i \in 1..n : h[i] = IF i = 1 THEN s[i] ELSE h[i - 1] \o s[i]
    <3>1. \A i \in 1..(n + 1) :
            g[i] = IF i = 1 THEN t[i] ELSE g[i - 1] \o t[i]
      BY <1>4, Zenon DEF Flattens
    <3> TAKE i \in 1..n
    <3>2. i \in 1..(n + 1) /\ h[i] = g[i] /\ (i # 1 => h[i - 1] = g[i - 1])
      OBVIOUS
    <3>3. g[i] = IF i = 1 THEN t[i] ELSE g[i - 1] \o t[i]
      BY <3>1, <3>2, Zenon
    <3>4. s[i] = t[i]
      BY <1>3
    <3> QED
      BY <3>2, <3>3, <3>4, Zenon
  <2>2. h = [i \in 1..n |-> h[i]]
    OBVIOUS
  <2> HIDE DEF h
  <2>3. Flattens(h, s, n)
    BY <2>1, <2>2 DEF Flattens
  <2>4. FlattenSeq(s) = h[n]
    BY <1>1, <2>3, FlattenIs
  <2> USE DEF h
  <2> QED
    BY <2>4
<1>8. n = 0 <=> s = <<>>
  BY <1>1
<1> QED
  BY <1>2, <1>5, <1>6, <1>7, <1>8

LEMMA FlattenType ==
  ASSUME NEW T, Joins(T), NEW s \in Seq(T), s # <<>>
  PROVE  FlattenSeq(s) \in T
<1>1. PICK n \in Nat \ {0} : n = Len(s)
  OBVIOUS
<1>2. PICK g \in [1..n -> T] : Flattens(g, s, n)
  BY <1>1, FlattensExists
<1>3. FlattenSeq(s) = g[n]
  BY <1>1, <1>2, FlattenIs
<1> QED
  BY <1>3

-----------------------------------------------------------------------------
(* The same, of sequences that a function gives for the elements of another. *)

Flat(f, s) == FlattenSeq([i \in 1..Len(s) |-> f[s[i]]])

LEMMA FlatAppend ==
  ASSUME NEW A, NEW S, NEW f \in [A -> Seq(S)], NEW s \in Seq(A), NEW x \in A
  PROVE  Flat(f, Append(s, x)) = Flat(f, s) \o f[x]
<1> DEFINE g == [i \in 1..Len(s) |-> f[s[i]]]
           h == [i \in 1..Len(Append(s, x)) |-> f[Append(s, x)[i]]]
<1>1. g \in Seq(Seq(S)) /\ f[x] \in Seq(S)
  <2>1. \A i \in 1..Len(s) : f[s[i]] \in Seq(S)
    OBVIOUS
  <2> QED
    BY <2>1
<1>2. h = Append(g, f[x])
  <2>1. PICK n \in Nat : n = Len(s)
    OBVIOUS
  <2>2. /\ Len(Append(s, x)) = n + 1 /\ Append(s, x)[n + 1] = x
        /\ \A i \in 1..n : Append(s, x)[i] = s[i]
    BY <2>1
  <2>3. /\ Len(g) = n /\ \A i \in 1..n : g[i] = f[s[i]]
    BY <2>1
  <2>4. h = [i \in 1..(n + 1) |-> IF i = n + 1 THEN f[x] ELSE f[s[i]]]
    BY <2>2
  <2> HIDE DEF g, h
  <2>5. Append(g, f[x])
          = [i \in 1..(n + 1) |-> IF i = n + 1 THEN f[x] ELSE g[i]]
    BY <1>1, <2>3
  <2> QED
    BY <2>3, <2>4, <2>5
<1> QED
  <2> HIDE DEF g, h
  <2>1. FlattenSeq(Append(g, f[x])) = FlattenSeq(g) \o f[x]
    <3>1. Joins(Seq(S))
      BY DEF Joins
    <3>2. <<>> \o f[x] = f[x]
      BY <1>1
    <3>3. FlattenSeq(Append(g, f[x]))
            = IF g = <<>> THEN f[x] ELSE FlattenSeq(g) \o f[x]
      BY <1>1, <3>1, FlattenAppend, Zenon
    <3>4. g = <<>> => FlattenSeq(g) = <<>>
      BY FlattenEmpty, Zenon
    <3> QED
      BY <3>2, <3>3, <3>4, Zenon
  <2>2. Flat(f, s) = FlattenSeq(g) /\ Flat(f, Append(s, x)) = FlattenSeq(h)
    BY Zenon DEF Flat, g, h
  <2> QED
    BY <1>2, <2>1, <2>2, Zenon

\* Named, so that the provers match the sequences with the names' parameters.
InOrder3(a, b, c) == (a \o b) \o c = a \o (b \o c)
InOrder4(u, v, w, x) == ((u \o v) \o w) \o x = u \o ((v \o w) \o x)

LEMMA ThreeInOrder ==
  ASSUME NEW S, NEW a \in Seq(S), NEW b \in Seq(S), NEW c \in Seq(S)
  PROVE  InOrder3(a, b, c)
  BY ConcatAssociative DEF InOrder3

LEMMA FourInOrder ==
  ASSUME NEW S, NEW u \in Seq(S), NEW v \in Seq(S), NEW w \in Seq(S),
         NEW x \in Seq(S)
  PROVE  InOrder4(u, v, w, x)
<1>1. PICK p \in Seq(S) : p = v \o w
  <2>1. v \o w \in Seq(S)
    OBVIOUS
  <2> QED
    BY <2>1, Zenon
<1>2. InOrder3(u, v, w) /\ InOrder3(u, p, x)
  BY ThreeInOrder, Zenon
<1> QED
  BY <1>1, <1>2, Zenon DEF InOrder3, InOrder4

LEMMA FlatType ==
  ASSUME NEW A, NEW S, NEW f \in [A -> Seq(S)], NEW s \in Seq(A)
  PROVE  Flat(f, s) \in Seq(S)
<1> DEFINE g == [i \in 1..Len(s) |-> f[s[i]]]
<1>1. g \in Seq(Seq(S))
  <2>1. \A i \in 1..Len(s) : f[s[i]] \in Seq(S)
    OBVIOUS
  <2> QED
    BY <2>1
<1>2. <<>> \in Seq(S) /\ Joins(Seq(S))
  BY DEF Joins
<1> HIDE DEF g
<1>3. FlattenSeq(g) \in Seq(S)
  BY <1>1, <1>2, FlattenEmpty, FlattenType, Zenon
<1> QED
  BY <1>3, Zenon DEF Flat, g

LEMMA FlatEmpty == ASSUME NEW f PROVE Flat(f, <<>>) = <<>>
<1>1. [i \in 1..Len(<<>>) |-> f[<<>>[i]]] = <<>>
  OBVIOUS
<1> QED
  BY <1>1, FlattenEmpty, Zenon DEF Flat

LEMMA FlatOne ==
  ASSUME NEW A, NEW S, NEW f \in [A -> Seq(S)], NEW x \in A
  PROVE  Flat(f, <<x>>) = f[x]
<1>1. <<>> \in Seq(A) /\ Append(<<>>, x) = <<x>>
  OBVIOUS
<1>2. f[x] \in Seq(S) /\ <<>> \o f[x] = f[x]
  OBVIOUS
<1>3. Flat(f, Append(<<>>, x)) = Flat(f, <<>>) \o f[x]
  BY <1>1, FlatAppend, Zenon
<1> QED
  BY <1>1, <1>2, <1>3, FlatEmpty, Zenon

Splits(f, s, t) == Flat(f, s \o t) = Flat(f, s) \o Flat(f, t)

LEMMA FlatConcat ==
  ASSUME NEW A, NEW S, NEW f \in [A -> Seq(S)],
         NEW s \in Seq(A), NEW t \in Seq(A)
  PROVE  Splits(f, s, t)
<1> DEFINE Q == {u \in Seq(A) : Flat(f, s \o u) = Flat(f, s) \o Flat(f, u)}
<1>0. Flat(f, s) \in Seq(S)
  BY FlatType, Zenon
<1>1. <<>> \in Q
  <2>1. s \o <<>> = s /\ Flat(f, s) \o <<>> = Flat(f, s) /\ <<>> \in Seq(A)
    BY <1>0
  <2> QED
    BY <2>1, FlatEmpty, Zenon
<1>2. ASSUME NEW u \in Seq(A), NEW x \in A, u \in Q
      PROVE  Append(u, x) \in Q
  <2>1. /\ s \o u \in Seq(A) /\ Append(u, x) \in Seq(A)
        /\ s \o Append(u, x) = Append(s \o u, x)
    OBVIOUS
  <2>2. Flat(f, Append(s \o u, x)) = Flat(f, s \o u) \o f[x]
    BY <2>1, FlatAppend, Zenon
  <2>3. Flat(f, Append(u, x)) = Flat(f, u) \o f[x] /\ Flat(f, u) \in Seq(S)
    BY FlatAppend, FlatType, Zenon
  <2>4. Flat(f, s \o u) = Flat(f, s) \o Flat(f, u)
    BY <1>2
  <2>5. f[x] \in Seq(S)
    OBVIOUS
  <2>6. PICK a \in Seq(S), b \in Seq(S), c \in Seq(S) :
          a = Flat(f, s) /\ b = Flat(f, u) /\ c = f[x]
    BY <1>0, <2>3, <2>5, Zenon
  <2>7. (a \o b) \o c = a \o (b \o c)
    <3>1. InOrder3(a, b, c)
      BY ThreeInOrder, Zenon
    <3> QED
      BY <3>1, Zenon DEF InOrder3
  <2>8. Flat(f, s \o Append(u, x)) = Flat(f, s) \o Flat(f, Append(u, x))
    BY <2>1, <2>2, <2>3, <2>4, <2>6, <2>7, Zenon
  <2> QED
    BY <2>1, <2>8
<1> HIDE DEF Q
<1>3. t \in Q
  BY <1>1, <1>2, AllSequences
<1> USE DEF Q
<1> QED
  BY <1>3 DEF Splits

LEMMA Single == ASSUME NEW S, NEW a \in S PROVE <<a>> \in Seq(S)
  OBVIOUS

\* In terms of Cons, since the provers do not match tuples of bound variables.
LEMMA ConsFacts ==
  ASSUME NEW S, NEW x \in S, NEW s \in Seq(S)
  PROVE  /\ Cons(x, s) \in Seq(S) /\ Cons(x, s) = <<x>> \o s
         /\ Len(Cons(x, s)) = Len(s) + 1 /\ Cons(x, s)[1] = x
<1>1. PICK one \in Seq(S) : one = <<x>> /\ Len(one) = 1 /\ one[1] = x
  <2>1. Len(<<x>>) = 1 /\ <<x>>[1] = x
    OBVIOUS
  <2> QED
    BY <2>1, Single, Zenon
<1>2. one \o s \in Seq(S) /\ Len(one \o s) = 1 + Len(s) /\ (one \o s)[1] = x
  BY <1>1
<1>3. Cons(x, s) = one \o s
  BY <1>1, Zenon DEF Cons
<1> QED
  BY <1>1, <1>2, <1>3

LEMMA FlatCons ==
  ASSUME NEW A, NEW S, NEW f \in [A -> Seq(S)], NEW x \in A, NEW s \in Seq(A)
  PROVE  Flat(f, Cons(x, s)) = f[x] \o Flat(f, s)
<1>1. PICK one \in Seq(A) : one = <<x>>
  BY Single, Zenon
<1>2. Splits(f, one, s)
  BY FlatConcat, Zenon
<1>3. Flat(f, <<x>>) = f[x]
  BY FlatOne
<1> QED
  BY <1>1, <1>2, <1>3, Zenon DEF Cons, Splits

-----------------------------------------------------------------------------
(* What is printed, and what gettoken makes of it                          *)

Words == STRING \cup Items
           \cup {"region", "sync", "string", "=", ";", "{", "}", Unset}
Token == Words \X Words
Shown == {t \in Token : t[1] # ";"}
Skip == [t \in Token |-> IF t[1] = ";" THEN <<>> ELSE <<t>>]

LEMMA TokenFacts ==
  /\ \A w \in Words : Key(w) \in Token /\ (w # ";" => Key(w) \in Shown)
  /\ \A s \in STRING : Str(s) \in Shown /\ Str(s) \in Token
  /\ Shown \subseteq Token
  /\ Items \subseteq Words /\ ";" \notin Items
<1>1. Unset \in Words /\ "string" \in Words /\ STRING \subseteq Words
      /\ Items \subseteq Words
  BY Zenon DEF Words
<1>2. \A w \in Words : Key(w) \in Token /\ Key(w)[1] = w
  BY <1>1 DEF Key, Token
<1>3. \A s \in STRING : Str(s) \in Token /\ Str(s)[1] = "string"
  BY <1>1 DEF Str, Token
<1>4. "string" # ";" /\ ";" \notin Items
  BY DEF Items
<1> QED
  BY <1>1, <1>2, <1>3, <1>4 DEF Shown

LEMMA Triple ==
  ASSUME NEW S, NEW a \in S, NEW b \in S, NEW c \in S
  PROVE  /\ <<a, b, c>> \in Seq(S) /\ Len(<<a, b, c>>) = 3
         /\ <<a, b, c>> \o <<>> = <<a, b, c>>
  OBVIOUS

LEMMA Four ==
  ASSUME NEW S, NEW a \in S, NEW b \in S, NEW c \in S, NEW d \in S
  PROVE  <<a, b, c, d>> \in Seq(S)
  OBVIOUS

LEMMA Quadruple ==
  ASSUME NEW a, NEW b, NEW c, NEW d
  PROVE  <<a, b, c>> \o <<d>> = <<a, b, c, d>>
<1> DEFINE S == {a, b, c, d}
<1>1. <<a, b, c, d>> \in Seq(S)
  OBVIOUS
<1> DEFINE s == <<a, b, c>>
           t == <<d>>
<1>2. /\ s \in Seq(S) /\ Len(s) = 3 /\ s[1] = a /\ s[2] = b /\ s[3] = c
      /\ t \in Seq(S) /\ Len(t) = 1 /\ t[1] = d
  OBVIOUS
<1> HIDE DEF S, s, t
<1>3. /\ s \o t \in Seq(S) /\ Len(s \o t) = 4
      /\ \A i \in 1..4 : (s \o t)[i] = IF i <= 3 THEN s[i] ELSE t[i - 3]
  <2>1. /\ s \o t \in Seq(S) /\ Len(s \o t) = Len(s) + Len(t)
        /\ \A i \in 1..(Len(s) + Len(t)) :
             (s \o t)[i] = IF i <= Len(s) THEN s[i] ELSE t[i - Len(s)]
    BY <1>2, ConcatProperties, Zenon
  <2>2. Len(s) = 3 /\ Len(t) = 1 /\ 3 + 1 = 4
    BY <1>2
  <2> QED
    BY <2>1, <2>2, Zenon
<1> DEFINE u == <<a, b, c, d>>
<1>4. /\ Len(u) = 4 /\ u[1] = a /\ u[2] = b /\ u[3] = c /\ u[4] = d
  OBVIOUS
<1> HIDE DEF u
<1>5. \A i \in 1..4 : (s \o t)[i] = u[i]
  <2> TAKE i \in 1..4
  <2>1. i = 1 \/ i = 2 \/ i = 3 \/ i = 4
    OBVIOUS
  <2> QED
    BY <1>2, <1>3, <1>4, <2>1
<1>6. s \o t = u
  BY <1>1, <1>3, <1>4, <1>5, SeqEqual DEF u
<1> QED
  BY <1>1, <1>6 DEF s, t, u

LEMMA SkipType == Skip \in [Token -> Seq(Shown)]
<1>1. ASSUME NEW t \in Token
      PROVE  (IF t[1] = ";" THEN <<>> ELSE <<t>>) \in Seq(Shown)
  <2>1. CASE t[1] = ";"
    <3>1. <<>> \in Seq(Shown)
      OBVIOUS
    <3> QED
      BY <2>1, <3>1
  <2>2. CASE t[1] # ";"
    <3>1. t \in Shown
      BY <2>2 DEF Shown
    <3>2. <<t>> \in Seq(Shown)
      BY <3>1, Single
    <3> QED
      BY <2>2, <3>2
  <2> QED
    BY <2>1, <2>2
<1> QED
  BY <1>1, Zenon DEF Skip

LEMMA SkippedFlat ==
  ASSUME NEW s \in Seq(Token)
  PROVE  Skipped(s) = Flat(Skip, s)
<1>1. \A i \in 1..Len(s) :
        Skip[s[i]] = IF s[i][1] = ";" THEN <<>> ELSE <<s[i]>>
  <2> TAKE i \in 1..Len(s)
  <2>1. s[i] \in Token
    OBVIOUS
  <2> QED
    BY <2>1 DEF Skip
<1>2. [i \in 1..Len(s) |-> Skip[s[i]]]
        = [i \in 1..Len(s) |-> IF s[i][1] = ";" THEN <<>> ELSE <<s[i]>>]
  BY <1>1, Zenon
<1> QED
  BY <1>2, Zenon DEF Skipped, Flat

LEMMA SkippedConcat ==
  ASSUME NEW s \in Seq(Token), NEW t \in Seq(Token)
  PROVE  /\ Skipped(s) \in Seq(Shown)
         /\ Skipped(s \o t) = Skipped(s) \o Skipped(t)
<1>1. s \o t \in Seq(Token)
  OBVIOUS
<1>2. /\ Skipped(s \o t) = Flat(Skip, s \o t)
      /\ Skipped(s) = Flat(Skip, s) /\ Skipped(t) = Flat(Skip, t)
  BY <1>1, SkippedFlat, Zenon
<1>3. Flat(Skip, s) \in Seq(Shown)
  BY SkipType, FlatType, Zenon
<1>4. Splits(Skip, s, t)
  BY SkipType, FlatConcat, Zenon
<1> QED
  BY <1>2, <1>3, <1>4, Zenon DEF Splits

\* Once skipped, nothing is left to skip.
LEMMA SkippedShown ==
  ASSUME NEW s \in Seq(Shown)
  PROVE  Skipped(s) = s /\ s \in Seq(Token)
<1> DEFINE Q == {u \in Seq(Shown) : Flat(Skip, u) = u}
<1>0. \A u \in Seq(Shown) : u \in Seq(Token)
  <2>1. Shown \subseteq Token
    BY DEF Shown
  <2> QED
    BY <2>1
<1>1. <<>> \in Q
  <2>1. <<>> \in Seq(Shown)
    OBVIOUS
  <2> QED
    BY <2>1, FlatEmpty
<1>2. ASSUME NEW u \in Seq(Shown), NEW x \in Shown, u \in Q
      PROVE  Append(u, x) \in Q
  <2>1. x \in Token /\ Skip[x] = <<x>>
    BY DEF Shown, Skip
  <2>2. Flat(Skip, Append(u, x)) = Flat(Skip, u) \o Skip[x]
    BY <1>0, <2>1, SkipType, FlatAppend, Zenon
  <2>3. Append(u, x) \in Seq(Shown) /\ u \o <<x>> = Append(u, x)
    OBVIOUS
  <2> QED
    BY <1>2, <2>1, <2>2, <2>3
<1> HIDE DEF Q
<1>3. s \in Q
  BY <1>1, <1>2, AllSequences
<1> USE DEF Q
<1> QED
  BY <1>0, <1>3, SkippedFlat

ItemsText(items) ==
  FlattenSeq([i \in 1..Len(items) |-> Assignment(items[i][1], items[i][2])])
TypesText(types) ==
  FlattenSeq([i \in 1..Len(types) |-> Assignment("type", types[i])])

LEMMA AssignmentText ==
  ASSUME NEW w \in Words, w # ";", NEW s \in STRING
  PROVE  /\ Assignment(w, s) \in Seq(Token)
         /\ <<Key(w), Key("="), Str(s)>> \in Seq(Shown)
         /\ Skipped(Assignment(w, s)) = <<Key(w), Key("="), Str(s)>>
<1>1. "=" \in Words /\ ";" \in Words /\ "=" # ";"
  BY DEF Words
<1>2. PICK a \in Shown, b \in Shown, c \in Shown :
        a = Key(w) /\ b = Key("=") /\ c = Str(s)
  BY <1>1, TokenFacts
<1>3. PICK d \in Token : d = Key(";") /\ d[1] = ";"
  BY <1>1, TokenFacts DEF Key
<1>4. <<a, b, c>> \in Seq(Shown) /\ <<d>> \in Seq(Token)
  BY Single, Triple, Zenon
<1>5. /\ <<a, b, c>> \in Seq(Token) /\ Skipped(<<a, b, c>>) = <<a, b, c>>
  BY <1>4, SkippedShown, Zenon
<1>6. Skipped(<<d>>) = <<>>
  <2>1. Skip[d] = <<>>
    BY <1>3 DEF Skip
  <2> QED
    BY <1>4, <2>1, SkippedFlat, SkipType, FlatOne, Zenon
<1>7. <<a, b, c>> \o <<d>> = <<a, b, c, d>> /\ <<a, b, c, d>> \in Seq(Token)
  <2>1. a \in Token /\ b \in Token /\ c \in Token
    BY Zenon DEF Shown
  <2> QED
    BY <2>1, Four, Quadruple, Zenon
<1>8. Skipped(<<a, b, c, d>>) = <<a, b, c>> \o <<>>
  BY <1>4, <1>5, <1>6, <1>7, SkippedConcat, Zenon
<1>9. <<a, b, c>> \o <<>> = <<a, b, c>>
  BY Triple, Zenon
<1> QED
  BY <1>2, <1>3, <1>4, <1>7, <1>8, <1>9, Zenon DEF Assignment

Item == Items \X STRING

LEMMA ItemsTextFacts ==
  ASSUME NEW items \in Seq(Item)
  PROVE  /\ ItemsText(items) \in Seq(Token)
         /\ ItemsText(<<>>) = <<>>
         /\ \A item \in Item :
              Skipped(ItemsText(Cons(item, items)))
                = <<Key(item[1]), Key("="), Str(item[2])>>
                  \o Skipped(ItemsText(items))
<1> DEFINE f == [item \in Item |-> Assignment(item[1], item[2])]
<1>1. \A item \in Item :
        /\ Assignment(item[1], item[2]) \in Seq(Token)
        /\ Skipped(Assignment(item[1], item[2]))
             = <<Key(item[1]), Key("="), Str(item[2])>>
  <2> TAKE item \in Item
  <2>1. /\ item[1] \in Items /\ item[2] \in STRING
        /\ item[1] \in Words /\ item[1] # ";"
    BY TokenFacts DEF Item
  <2> QED
    BY <2>1, AssignmentText, Zenon
<1>2. f \in [Item -> Seq(Token)]
  BY <1>1, Zenon
<1>3. \A s \in Seq(Item) : ItemsText(s) = Flat(f, s)
  <2> TAKE s \in Seq(Item)
  <2>1. \A i \in 1..Len(s) : f[s[i]] = Assignment(s[i][1], s[i][2])
    <3> TAKE i \in 1..Len(s)
    <3>1. s[i] \in Item
      OBVIOUS
    <3> QED
      BY <3>1, Zenon
  <2> HIDE DEF f
  <2>2. [i \in 1..Len(s) |-> f[s[i]]]
          = [i \in 1..Len(s) |-> Assignment(s[i][1], s[i][2])]
    BY <2>1, Zenon
  <2> QED
    BY <2>2, Zenon DEF ItemsText, Flat
<1>4. \A item \in Item : f[item] = Assignment(item[1], item[2])
  BY Zenon
<1> HIDE DEF f
<1>0. \A s \in Seq(Item) : Flat(f, s) \in Seq(Token)
  BY <1>2, FlatType
<1>5. ItemsText(items) \in Seq(Token)
  BY <1>0, <1>3, Zenon
<1>6. ItemsText(<<>>) = <<>>
  <2>1. <<>> \in Seq(Item)
    OBVIOUS
  <2> QED
    BY <1>3, <2>1, FlatEmpty, Zenon
<1>7. ASSUME NEW item \in Item
      PROVE  Skipped(ItemsText(Cons(item, items)))
               = <<Key(item[1]), Key("="), Str(item[2])>>
                 \o Skipped(ItemsText(items))
  <2>1. Cons(item, items) \in Seq(Item)
    BY ConsFacts
  <2>2. Flat(f, Cons(item, items)) = f[item] \o Flat(f, items)
    BY <1>2, FlatCons
  <2>3. f[item] = Assignment(item[1], item[2])
    BY <1>4, Zenon
  <2>4. ItemsText(Cons(item, items))
          = Assignment(item[1], item[2]) \o ItemsText(items)
    BY <1>3, <2>1, <2>2, <2>3, Zenon
  <2>5. Assignment(item[1], item[2]) \in Seq(Token)
    BY <1>1, Zenon
  <2>6. Skipped(Assignment(item[1], item[2]) \o ItemsText(items))
          = Skipped(Assignment(item[1], item[2])) \o Skipped(ItemsText(items))
    BY <1>5, <2>5, SkippedConcat, Zenon
  <2> QED
    BY <1>1, <2>4, <2>6, Zenon
<1> QED
  BY <1>5, <1>6, <1>7, Zenon

LEMMA TypesTextFacts ==
  ASSUME NEW types \in Seq(STRING)
  PROVE  /\ TypesText(types) \in Seq(Token)
         /\ TypesText(<<>>) = <<>>
         /\ \A type \in STRING :
              Skipped(TypesText(Cons(type, types)))
                = <<Key("type"), Key("="), Str(type)>>
                  \o Skipped(TypesText(types))
<1> DEFINE f == [type \in STRING |-> Assignment("type", type)]
<1>1. \A type \in STRING :
        /\ Assignment("type", type) \in Seq(Token)
        /\ Skipped(Assignment("type", type))
             = <<Key("type"), Key("="), Str(type)>>
  <2>1. "type" \in Words /\ "type" # ";"
    BY TokenFacts DEF Items
  <2> QED
    BY <2>1, AssignmentText, Zenon
<1>2. f \in [STRING -> Seq(Token)]
  BY <1>1, Zenon
<1>3. \A s \in Seq(STRING) : TypesText(s) = Flat(f, s)
  <2> TAKE s \in Seq(STRING)
  <2>1. \A i \in 1..Len(s) : f[s[i]] = Assignment("type", s[i])
    <3> TAKE i \in 1..Len(s)
    <3>1. s[i] \in STRING
      OBVIOUS
    <3> QED
      BY <3>1, Zenon
  <2> HIDE DEF f
  <2>2. [i \in 1..Len(s) |-> f[s[i]]]
          = [i \in 1..Len(s) |-> Assignment("type", s[i])]
    BY <2>1, Zenon
  <2> QED
    BY <2>2, Zenon DEF TypesText, Flat
<1>4. \A type \in STRING : f[type] = Assignment("type", type)
  BY Zenon
<1> HIDE DEF f
<1>5. \A s \in Seq(STRING) : Flat(f, s) \in Seq(Token)
  BY <1>2, FlatType
<1>6. TypesText(types) \in Seq(Token)
  BY <1>3, <1>5, Zenon
<1>7. TypesText(<<>>) = <<>>
  <2>1. <<>> \in Seq(STRING)
    OBVIOUS
  <2> QED
    BY <1>3, <2>1, FlatEmpty, Zenon
<1>8. ASSUME NEW type \in STRING
      PROVE  Skipped(TypesText(Cons(type, types)))
               = <<Key("type"), Key("="), Str(type)>>
                 \o Skipped(TypesText(types))
  <2>1. Cons(type, types) \in Seq(STRING)
    BY ConsFacts
  <2>2. Flat(f, Cons(type, types)) = f[type] \o Flat(f, types)
    BY <1>2, FlatCons
  <2>3. TypesText(Cons(type, types))
          = Assignment("type", type) \o TypesText(types)
    BY <1>3, <1>4, <2>1, <2>2, Zenon
  <2>4. Assignment("type", type) \in Seq(Token)
    BY <1>1, Zenon
  <2>5. Skipped(Assignment("type", type) \o TypesText(types))
          = Skipped(Assignment("type", type)) \o Skipped(TypesText(types))
    BY <1>6, <2>4, SkippedConcat, Zenon
  <2> QED
    BY <1>1, <2>3, <2>5, Zenon
<1> QED
  BY <1>6, <1>7, <1>8, Zenon

\* A block is what is between its braces, with tokens before and behind that
\* are not skipped.
LEMMA Framed ==
  ASSUME NEW a \in Seq(Shown), NEW s \in Seq(Token), NEW b \in Seq(Shown)
  PROVE  /\ a \o s \o b \in Seq(Token)
         /\ Skipped(a \o s \o b) = a \o Skipped(s) \o b
<1>1. /\ a \in Seq(Token) /\ b \in Seq(Token)
      /\ Skipped(a) = a /\ Skipped(b) = b
  BY SkippedShown
<1>2. PICK t \in Seq(Token) : t = a \o s
  <2>1. a \o s \in Seq(Token)
    BY <1>1
  <2> QED
    BY <2>1
<1>3. Skipped(t) = a \o Skipped(s)
  BY <1>1, <1>2, SkippedConcat
<1>4. Skipped(t \o b) = Skipped(t) \o b /\ t \o b \in Seq(Token)
  <2>1. Skipped(t \o b) = Skipped(t) \o Skipped(b)
    BY <1>1, SkippedConcat
  <2>2. t \o b \in Seq(Token)
    BY <1>1
  <2> QED
    BY <1>1, <2>1, <2>2, Zenon
<1> QED
  BY <1>2, <1>3, <1>4, Zenon

\* The blocks that are read as they are meant: the name is one string token.
PlainName == {name \in Name : Plain(name)}
RegionBlock == {"region"} \X PlainName \X Seq(Item)
SyncBlock == {"sync"} \X Seq(STRING)
Clear == RegionBlock \cup SyncBlock

LEMMA NameFacts ==
  ASSUME NEW name \in PlainName
  PROVE  name[3] \in STRING /\ Lexed(name) = <<Str(name[3])>>
<1>1. name \in Name /\ Plain(name)
  BY Zenon DEF PlainName
<1>2. name[3] \in STRING
  BY <1>1 DEF Name
<1> QED
  BY <1>1, <1>2, Zenon DEF Plain

\* Three tokens joined.
LEMMA Joined ==
  ASSUME NEW a, NEW b, NEW c
  PROVE  <<a>> \o <<b>> \o <<c>> = <<a, b, c>>
<1> DEFINE S == {a, b, c}
           s == <<a>>
           t == <<b>>
           u == <<c>>
           v == <<a, b, c>>
<1>1. /\ s \in Seq(S) /\ Len(s) = 1 /\ s[1] = a
      /\ t \in Seq(S) /\ Len(t) = 1 /\ t[1] = b
      /\ u \in Seq(S) /\ Len(u) = 1 /\ u[1] = c
  OBVIOUS
<1>2. v \in Seq(S) /\ Len(v) = 3 /\ v[1] = a /\ v[2] = b /\ v[3] = c
  OBVIOUS
<1> HIDE DEF S, s, t, u, v
<1>3. PICK w \in Seq(S) : w = s \o t
  BY <1>1, ConcatProperties, Zenon
<1>a. Len(w) = 2 /\ w[1] = a /\ w[2] = b
  <2>1. /\ Len(w) = Len(s) + Len(t)
        /\ \A i \in 1..(Len(s) + Len(t)) :
             w[i] = IF i <= Len(s) THEN s[i] ELSE t[i - Len(s)]
    BY <1>1, <1>3, ConcatProperties, Zenon
  <2>2. Len(s) = 1 /\ Len(t) = 1
    BY <1>1
  <2>3. Len(w) = 2 /\ \A i \in 1..2 : w[i] = IF i <= 1 THEN s[i] ELSE t[i - 1]
    BY <2>1, <2>2
  <2> QED
    BY <1>1, <2>3
<1>4. /\ w \o u \in Seq(S) /\ Len(w \o u) = 3
      /\ \A i \in 1..3 : (w \o u)[i] = IF i <= 2 THEN w[i] ELSE u[i - 2]
  <2>1. /\ w \o u \in Seq(S) /\ Len(w \o u) = Len(w) + Len(u)
        /\ \A i \in 1..(Len(w) + Len(u)) :
             (w \o u)[i] = IF i <= Len(w) THEN w[i] ELSE u[i - Len(w)]
    BY <1>1, ConcatProperties, Zenon
  <2>2. Len(w) = 2 /\ Len(u) = 1
    BY <1>1, <1>a
  <2> QED
    BY <2>1, <2>2
<1>5. \A i \in 1..3 : (w \o u)[i] = v[i]
  <2> TAKE i \in 1..3
  <2>1. i = 1 \/ i = 2 \/ i = 3
    OBVIOUS
  <2> QED
    BY <1>1, <1>2, <1>a, <1>4, <2>1
<1>6. w \o u = v
  BY <1>2, <1>4, <1>5, SeqEqual
<1> QED
  BY <1>3, <1>6, Zenon DEF s, t, u, v

LEMMA BlockFacts ==
  /\ Clear = RegionBlock \cup SyncBlock
  /\ \A b \in RegionBlock : /\ Region(b) /\ b[2] \in PlainName
                            /\ b[3] \in Seq(Item)
                            /\ b = <<"region", b[2], b[3]>>
  /\ \A b \in SyncBlock : /\ ~Region(b) /\ b[2] \in Seq(STRING)
                          /\ b = <<"sync", b[2]>>
<1>1. Clear = RegionBlock \cup SyncBlock
  BY Zenon DEF Clear
<1>2. \A b \in RegionBlock : /\ Region(b) /\ b[2] \in PlainName
                             /\ b[3] \in Seq(Item)
                             /\ b = <<"region", b[2], b[3]>>
  BY DEF RegionBlock, Region
<1>3. \A b \in SyncBlock : /\ ~Region(b) /\ b[2] \in Seq(STRING)
                           /\ b = <<"sync", b[2]>>
  BY DEF SyncBlock, Region
<1> QED
  BY <1>1, <1>2, <1>3

RegionHead(name) == <<Key("region"), Str(name[3]), Key("{")>>
SyncHead == <<Key("sync"), Key("{")>>
BlockEnd == <<Key("}")>>

LEMMA HeadFacts ==
  /\ \A name \in PlainName : RegionHead(name) \in Seq(Shown)
  /\ SyncHead \in Seq(Shown) /\ BlockEnd \in Seq(Shown)
<1>1. /\ Key("region") \in Shown /\ Key("sync") \in Shown
      /\ Key("{") \in Shown /\ Key("}") \in Shown
      /\ \A name \in STRING : Str(name) \in Shown
  BY TokenFacts DEF Words
<1>2. SyncHead \in Seq(Shown)
  <2>1. \A a, b \in Shown : <<a, b>> \in Seq(Shown)
    OBVIOUS
  <2> QED
    BY <1>1, <2>1, Zenon DEF SyncHead
<1> QED
  BY <1>1, <1>2, NameFacts, Single, Triple, Zenon DEF RegionHead, BlockEnd

LEMMA BlockText ==
  ASSUME NEW b \in Clear
  PROVE  /\ PrintedBlock(b) \in Seq(Token)
         /\ b \in RegionBlock =>
              Skipped(PrintedBlock(b))
                = RegionHead(b[2]) \o Skipped(ItemsText(b[3])) \o BlockEnd
         /\ b \in SyncBlock =>
              Skipped(PrintedBlock(b))
                = SyncHead \o Skipped(TypesText(b[2])) \o BlockEnd
<1>1. CASE b \in RegionBlock
  <2>1. /\ Region(b) /\ b[2] \in PlainName /\ b[3] \in Seq(Item)
        /\ b \notin SyncBlock
    BY <1>1, BlockFacts, Zenon
  <2>2. PrintedBlock(b) = RegionHead(b[2]) \o ItemsText(b[3]) \o BlockEnd
    <3>1. <<Key("region")>> \o Lexed(b[2]) \o <<Key("{")>> = RegionHead(b[2])
      BY <2>1, NameFacts, Joined, Zenon DEF RegionHead
    <3> QED
      BY <2>1, <3>1, Zenon DEF PrintedBlock, ItemsText, BlockEnd
  <2>3. /\ RegionHead(b[2]) \in Seq(Shown) /\ BlockEnd \in Seq(Shown)
        /\ ItemsText(b[3]) \in Seq(Token)
    BY <2>1, HeadFacts, ItemsTextFacts, Zenon
  <2> QED
    <3>1. /\ RegionHead(b[2]) \o ItemsText(b[3]) \o BlockEnd \in Seq(Token)
          /\ Skipped(RegionHead(b[2]) \o ItemsText(b[3]) \o BlockEnd)
               = RegionHead(b[2]) \o Skipped(ItemsText(b[3])) \o BlockEnd
      BY <2>3, Framed, Zenon
    <3> QED
      BY <2>1, <2>2, <3>1, Zenon
<1>2. CASE b \in SyncBlock
  <2>1. ~Region(b) /\ b[2] \in Seq(STRING) /\ b \notin RegionBlock
    BY <1>2, BlockFacts, Zenon
  <2>2. PrintedBlock(b) = SyncHead \o TypesText(b[2]) \o BlockEnd
    BY <2>1, Zenon DEF PrintedBlock, SyncHead, TypesText, BlockEnd
  <2>3. /\ SyncHead \in Seq(Shown) /\ BlockEnd \in Seq(Shown)
        /\ TypesText(b[2]) \in Seq(Token)
    BY <2>1, HeadFacts, TypesTextFacts, Zenon
  <2> QED
    <3>1. /\ SyncHead \o TypesText(b[2]) \o BlockEnd \in Seq(Token)
          /\ Skipped(SyncHead \o TypesText(b[2]) \o BlockEnd)
               = SyncHead \o Skipped(TypesText(b[2])) \o BlockEnd
      BY <2>3, Framed, Zenon
    <3> QED
      BY <2>1, <2>2, <3>1, Zenon
<1> QED
  BY <1>1, <1>2, BlockFacts

LEMMA PrintedFacts ==
  /\ Printed(<<>>) = <<>>
  /\ \A blocks \in Seq(Clear) : Printed(blocks) \in Seq(Token)
  /\ \A b \in Clear, blocks \in Seq(Clear) :
       Skipped(Printed(Cons(b, blocks)))
         = Skipped(PrintedBlock(b)) \o Skipped(Printed(blocks))
<1> DEFINE f == [b \in Clear |-> PrintedBlock(b)]
<1>1. f \in [Clear -> Seq(Token)]
  BY BlockText, Zenon
<1>2. \A s \in Seq(Clear) : Printed(s) = Flat(f, s)
  <2> TAKE s \in Seq(Clear)
  <2>1. \A i \in 1..Len(s) : f[s[i]] = PrintedBlock(s[i])
    <3> TAKE i \in 1..Len(s)
    <3>1. s[i] \in Clear
      OBVIOUS
    <3> QED
      BY <3>1, Zenon
  <2> HIDE DEF f
  <2>2. [i \in 1..Len(s) |-> f[s[i]]] = [i \in 1..Len(s) |-> PrintedBlock(s[i])]
    BY <2>1, Zenon
  <2> QED
    BY <2>2, Zenon DEF Printed, Flat
<1>3. \A b \in Clear : f[b] = PrintedBlock(b)
  BY Zenon
<1> HIDE DEF f
<1>4. \A s \in Seq(Clear) : Flat(f, s) \in Seq(Token)
  BY <1>1, FlatType
<1>5. Printed(<<>>) = <<>>
  <2>1. <<>> \in Seq(Clear)
    OBVIOUS
  <2> QED
    BY <1>2, <2>1, FlatEmpty, Zenon
<1>6. ASSUME NEW b \in Clear, NEW blocks \in Seq(Clear)
      PROVE  Skipped(Printed(Cons(b, blocks)))
               = Skipped(PrintedBlock(b)) \o Skipped(Printed(blocks))
  <2>1. Cons(b, blocks) \in Seq(Clear)
    BY ConsFacts
  <2>2. Flat(f, Cons(b, blocks)) = f[b] \o Flat(f, blocks)
    BY <1>1, FlatCons
  <2>3. Printed(Cons(b, blocks)) = PrintedBlock(b) \o Printed(blocks)
    BY <1>2, <1>3, <2>1, <2>2, Zenon
  <2>4. PrintedBlock(b) \in Seq(Token) /\ Printed(blocks) \in Seq(Token)
    BY <1>2, <1>4, BlockText, Zenon
  <2>5. Skipped(PrintedBlock(b) \o Printed(blocks))
          = Skipped(PrintedBlock(b)) \o Skipped(Printed(blocks))
    BY <2>4, SkippedConcat, Zenon
  <2> QED
    BY <2>3, <2>5, Zenon
<1> QED
  BY <1>2, <1>4, <1>5, <1>6, Zenon

\* What readconf still has to read: at the top, in a region and in a sync block.
TopRest(blocks) == Skipped(Printed(blocks))
RegionRest(items, blocks) ==
  (Skipped(ItemsText(items)) \o BlockEnd) \o TopRest(blocks)
SyncRest(types, blocks) ==
  (Skipped(TypesText(types)) \o BlockEnd) \o TopRest(blocks)

LEMMA RestTypes ==
  ASSUME NEW blocks \in Seq(Clear)
  PROVE  /\ TopRest(blocks) \in Seq(Shown)
         /\ \A items \in Seq(Item) : RegionRest(items, blocks) \in Seq(Shown)
         /\ \A types \in Seq(STRING) : SyncRest(types, blocks) \in Seq(Shown)
<1>1. Printed(blocks) \in Seq(Token)
  BY PrintedFacts, Zenon
<1>2. TopRest(blocks) \in Seq(Shown)
  BY <1>1, SkippedConcat, Zenon DEF TopRest
<1>3. \A s \in Seq(Shown) : (s \o BlockEnd) \o TopRest(blocks) \in Seq(Shown)
  BY <1>2, HeadFacts
<1>4. \A items \in Seq(Item) : Skipped(ItemsText(items)) \in Seq(Shown)
  BY ItemsTextFacts, SkippedConcat
<1>5. \A types \in Seq(STRING) : Skipped(TypesText(types)) \in Seq(Shown)
  BY TypesTextFacts, SkippedConcat
<1> QED
  BY <1>2, <1>3, <1>4, <1>5, Zenon DEF RegionRest, SyncRest

LEMMA NoneBefore == ASSUME NEW S, NEW a \in Seq(S) PROVE <<>> \o a = a
  OBVIOUS

LEMMA TopText ==
  ASSUME NEW b \in Clear, NEW blocks \in Seq(Clear)
  PROVE  /\ b \in RegionBlock =>
              TopRest(Cons(b, blocks))
                = RegionHead(b[2]) \o RegionRest(b[3], blocks)
         /\ b \in SyncBlock =>
              TopRest(Cons(b, blocks)) = SyncHead \o SyncRest(b[2], blocks)
<1>1. TopRest(Cons(b, blocks)) = Skipped(PrintedBlock(b)) \o TopRest(blocks)
  BY PrintedFacts, Zenon DEF TopRest
<1>2. /\ TopRest(blocks) \in Seq(Shown) /\ BlockEnd \in Seq(Shown)
      /\ SyncHead \in Seq(Shown)
  BY RestTypes, HeadFacts, Zenon
<1>3. ASSUME b \in RegionBlock
      PROVE  TopRest(Cons(b, blocks))
               = RegionHead(b[2]) \o RegionRest(b[3], blocks)
  <2>1. b[2] \in PlainName /\ b[3] \in Seq(Item)
    BY <1>3, BlockFacts, Zenon
  <2>2. ItemsText(b[3]) \in Seq(Token) /\ RegionHead(b[2]) \in Seq(Shown)
    BY <2>1, ItemsTextFacts, HeadFacts, Zenon
  <2>3. Skipped(ItemsText(b[3])) \in Seq(Shown)
    BY <2>2, SkippedConcat, Zenon
  <2>4. ((RegionHead(b[2]) \o Skipped(ItemsText(b[3]))) \o BlockEnd)
           \o TopRest(blocks)
          = RegionHead(b[2]) \o RegionRest(b[3], blocks)
    <3>1. PICK u \in Seq(Shown), v \in Seq(Shown), w \in Seq(Shown),
               x \in Seq(Shown) :
                 /\ u = RegionHead(b[2]) /\ v = Skipped(ItemsText(b[3]))
                 /\ w = BlockEnd /\ x = TopRest(blocks)
      BY <1>2, <2>2, <2>3, Zenon
    <3>2. ((u \o v) \o w) \o x = u \o ((v \o w) \o x)
      <4>1. InOrder4(u, v, w, x)
        BY FourInOrder, Zenon
      <4> QED
        BY <4>1, Zenon DEF InOrder4
    <3>3. RegionRest(b[3], blocks) = (v \o w) \o x
      BY <3>1, Zenon DEF RegionRest
    <3> QED
      BY <3>1, <3>2, <3>3, Zenon
  <2> QED
    BY <1>1, <1>3, <2>4, BlockText, Zenon
<1>4. ASSUME b \in SyncBlock
      PROVE  TopRest(Cons(b, blocks)) = SyncHead \o SyncRest(b[2], blocks)
  <2>1. b[2] \in Seq(STRING)
    BY <1>4, BlockFacts, Zenon
  <2>2. TypesText(b[2]) \in Seq(Token)
    BY <2>1, TypesTextFacts, Zenon
  <2>3. Skipped(TypesText(b[2])) \in Seq(Shown)
    BY <2>2, SkippedConcat, Zenon
  <2>4. ((SyncHead \o Skipped(TypesText(b[2]))) \o BlockEnd) \o TopRest(blocks)
          = SyncHead \o SyncRest(b[2], blocks)
    <3>1. PICK u \in Seq(Shown), v \in Seq(Shown), w \in Seq(Shown),
               x \in Seq(Shown) :
                 /\ u = SyncHead /\ v = Skipped(TypesText(b[2]))
                 /\ w = BlockEnd /\ x = TopRest(blocks)
      BY <1>2, <2>3, Zenon
    <3>2. ((u \o v) \o w) \o x = u \o ((v \o w) \o x)
      <4>1. InOrder4(u, v, w, x)
        BY FourInOrder, Zenon
      <4> QED
        BY <4>1, Zenon DEF InOrder4
    <3>3. SyncRest(b[2], blocks) = (v \o w) \o x
      BY <3>1, Zenon DEF SyncRest
    <3> QED
      BY <3>1, <3>2, <3>3, Zenon
  <2> QED
    BY <1>1, <1>4, <2>4, BlockText, Zenon
<1> QED
  BY <1>3, <1>4

\* The three tokens of an assignment.
Triplet(word, s) == <<Key(word), Key("="), Str(s)>>

LEMMA InnerText ==
  ASSUME NEW blocks \in Seq(Clear)
  PROVE  /\ \A item \in Item, items \in Seq(Item) :
              RegionRest(Cons(item, items), blocks)
                = Triplet(item[1], item[2]) \o RegionRest(items, blocks)
         /\ \A type \in STRING, types \in Seq(STRING) :
              SyncRest(Cons(type, types), blocks)
                = Triplet("type", type) \o SyncRest(types, blocks)
         /\ RegionRest(<<>>, blocks) = BlockEnd \o TopRest(blocks)
         /\ SyncRest(<<>>, blocks) = BlockEnd \o TopRest(blocks)
<1>1. TopRest(blocks) \in Seq(Shown) /\ BlockEnd \in Seq(Shown)
  BY RestTypes, HeadFacts, Zenon
<1>2. \A word \in Items, s \in STRING : Triplet(word, s) \in Seq(Shown)
  <2> TAKE word \in Items, s \in STRING
  <2>1. word \in Words /\ word # ";"
    BY TokenFacts
  <2> QED
    BY <2>1, AssignmentText, Zenon DEF Triplet
<1>3. ASSUME NEW item \in Item, NEW items \in Seq(Item)
      PROVE  RegionRest(Cons(item, items), blocks)
               = Triplet(item[1], item[2]) \o RegionRest(items, blocks)
  <2>1. item[1] \in Items /\ item[2] \in STRING
    BY DEF Item
  <2>2. ItemsText(items) \in Seq(Token)
    BY ItemsTextFacts, Zenon
  <2>3. /\ Skipped(ItemsText(items)) \in Seq(Shown)
        /\ Triplet(item[1], item[2]) \in Seq(Shown)
    BY <1>2, <2>1, <2>2, SkippedConcat, Zenon
  <2>4. ((Triplet(item[1], item[2]) \o Skipped(ItemsText(items))) \o BlockEnd)
           \o TopRest(blocks)
          = Triplet(item[1], item[2]) \o RegionRest(items, blocks)
    <3>1. PICK u \in Seq(Shown), v \in Seq(Shown), w \in Seq(Shown),
               x \in Seq(Shown) :
                 /\ u = Triplet(item[1], item[2])
                 /\ v = Skipped(ItemsText(items))
                 /\ w = BlockEnd /\ x = TopRest(blocks)
      BY <1>1, <2>3, Zenon
    <3>2. ((u \o v) \o w) \o x = u \o ((v \o w) \o x)
      <4>1. InOrder4(u, v, w, x)
        BY FourInOrder, Zenon
      <4> QED
        BY <4>1, Zenon DEF InOrder4
    <3>3. RegionRest(items, blocks) = (v \o w) \o x
      BY <3>1, Zenon DEF RegionRest
    <3> QED
      BY <3>1, <3>2, <3>3, Zenon
  <2>5. Skipped(ItemsText(Cons(item, items)))
          = Triplet(item[1], item[2]) \o Skipped(ItemsText(items))
    BY ItemsTextFacts, Zenon DEF Triplet
  <2> QED
    BY <2>4, <2>5, Zenon DEF RegionRest
<1>4. ASSUME NEW type \in STRING, NEW types \in Seq(STRING)
      PROVE  SyncRest(Cons(type, types), blocks)
               = Triplet("type", type) \o SyncRest(types, blocks)
  <2>1. "type" \in Items
    BY DEF Items
  <2>2. TypesText(types) \in Seq(Token)
    BY TypesTextFacts, Zenon
  <2>3. /\ Skipped(TypesText(types)) \in Seq(Shown)
        /\ Triplet("type", type) \in Seq(Shown)
    BY <1>2, <2>1, <2>2, SkippedConcat, Zenon
  <2>4. ((Triplet("type", type) \o Skipped(TypesText(types))) \o BlockEnd)
           \o TopRest(blocks)
          = Triplet("type", type) \o SyncRest(types, blocks)
    <3>1. PICK u \in Seq(Shown), v \in Seq(Shown), w \in Seq(Shown),
               x \in Seq(Shown) :
                 /\ u = Triplet("type", type) /\ v = Skipped(TypesText(types))
                 /\ w = BlockEnd /\ x = TopRest(blocks)
      BY <1>1, <2>3, Zenon
    <3>2. ((u \o v) \o w) \o x = u \o ((v \o w) \o x)
      <4>1. InOrder4(u, v, w, x)
        BY FourInOrder, Zenon
      <4> QED
        BY <4>1, Zenon DEF InOrder4
    <3>3. SyncRest(types, blocks) = (v \o w) \o x
      BY <3>1, Zenon DEF SyncRest
    <3> QED
      BY <3>1, <3>2, <3>3, Zenon
  <2>5. Skipped(TypesText(Cons(type, types)))
          = Triplet("type", type) \o Skipped(TypesText(types))
    BY TypesTextFacts, Zenon DEF Triplet
  <2> QED
    BY <2>4, <2>5, Zenon DEF SyncRest
<1>5. Skipped(<<>>) = <<>>
  <2>1. <<>> \in Seq(Shown)
    OBVIOUS
  <2> QED
    BY <2>1, SkippedShown, Zenon
<1>6. <<>> \o BlockEnd = BlockEnd
  BY <1>1, NoneBefore, Zenon
<1>7. /\ ItemsText(<<>>) = <<>> /\ TypesText(<<>>) = <<>>
  <2>1. <<>> \in Seq(Item) /\ <<>> \in Seq(STRING)
    OBVIOUS
  <2> QED
    BY <2>1, ItemsTextFacts, TypesTextFacts, Zenon
<1>8. /\ RegionRest(<<>>, blocks) = BlockEnd \o TopRest(blocks)
      /\ SyncRest(<<>>, blocks) = BlockEnd \o TopRest(blocks)
  BY <1>5, <1>6, <1>7, Zenon DEF RegionRest, SyncRest
<1> QED
  BY <1>3, <1>4, <1>8, Zenon

-----------------------------------------------------------------------------
(* What is meant                                                           *)

RegionOf(name, items) == <<"region", name, items>>
SyncOf(types) == <<"sync", types>>

LEMMA OfFacts ==
  /\ \A name \in PlainName, items \in Seq(Item) :
       /\ RegionOf(name, items) \in RegionBlock
       /\ RegionOf(name, items)[2] = name /\ RegionOf(name, items)[3] = items
  /\ \A types \in Seq(STRING) :
       SyncOf(types) \in SyncBlock /\ SyncOf(types)[2] = types
  /\ \A b \in RegionBlock : b = RegionOf(b[2], b[3])
  /\ \A b \in SyncBlock : b = SyncOf(b[2])
<1>1. \A b \in RegionBlock : b = RegionOf(b[2], b[3])
  BY BlockFacts, Zenon DEF RegionOf
<1>2. \A b \in SyncBlock : b = SyncOf(b[2])
  BY BlockFacts, Zenon DEF SyncOf
<1>3. \A name \in PlainName, items \in Seq(Item) :
        /\ RegionOf(name, items) \in RegionBlock
        /\ RegionOf(name, items)[2] = name /\ RegionOf(name, items)[3] = items
  BY DEF RegionOf, RegionBlock
<1>4. \A types \in Seq(STRING) :
        SyncOf(types) \in SyncBlock /\ SyncOf(types)[2] = types
  BY DEF SyncOf, SyncBlock
<1> QED
  BY <1>1, <1>2, <1>3, <1>4

ItsRegion == [b \in Clear |-> IF Region(b) THEN <<b>> ELSE <<>>]
ItsTypes == [b \in Clear |-> IF Region(b) THEN <<>> ELSE b[2]]

LEMMA ItsFacts ==
  /\ ItsRegion \in [Clear -> Seq(RegionBlock)]
  /\ ItsTypes \in [Clear -> Seq(STRING)]
  /\ \A s \in Seq(Clear) : RegionsOf(s) = Flat(ItsRegion, s)
  /\ \A s \in Seq(Clear) : SyncedOf(s) = Flat(ItsTypes, s)
  /\ \A b \in RegionBlock : ItsRegion[b] = <<b>> /\ ItsTypes[b] = <<>>
  /\ \A b \in SyncBlock : ItsRegion[b] = <<>> /\ ItsTypes[b] = b[2]
<1>1. \A b \in RegionBlock : ItsRegion[b] = <<b>> /\ ItsTypes[b] = <<>>
  BY BlockFacts DEF ItsRegion, ItsTypes
<1>2. \A b \in SyncBlock : ItsRegion[b] = <<>> /\ ItsTypes[b] = b[2]
  BY BlockFacts DEF ItsRegion, ItsTypes
<1>3. \A b \in Clear : /\ ItsRegion[b] = IF Region(b) THEN <<b>> ELSE <<>>
                       /\ ItsTypes[b] = IF Region(b) THEN <<>> ELSE b[2]
  BY Zenon DEF ItsRegion, ItsTypes
<1>4. /\ \A b \in RegionBlock : <<b>> \in Seq(RegionBlock)
      /\ <<>> \in Seq(RegionBlock) /\ <<>> \in Seq(STRING)
  OBVIOUS
<1>5. /\ \A b \in RegionBlock : ItsRegion[b] \in Seq(RegionBlock)
      /\ \A b \in SyncBlock : ItsRegion[b] \in Seq(RegionBlock)
      /\ \A b \in RegionBlock : ItsTypes[b] \in Seq(STRING)
      /\ \A b \in SyncBlock : ItsTypes[b] \in Seq(STRING)
  <2>1. /\ \A b \in RegionBlock : ItsRegion[b] \in Seq(RegionBlock)
        /\ \A b \in RegionBlock : ItsTypes[b] \in Seq(STRING)
    BY <1>1, <1>4, Zenon
  <2>2. \A b \in SyncBlock : b[2] \in Seq(STRING)
    BY BlockFacts, Zenon
  <2>3. /\ \A b \in SyncBlock : ItsRegion[b] \in Seq(RegionBlock)
        /\ \A b \in SyncBlock : ItsTypes[b] \in Seq(STRING)
    BY <1>2, <1>4, <2>2, Zenon
  <2> QED
    BY <2>1, <2>3, Zenon
<1>6. \A b \in Clear : b \in RegionBlock \/ b \in SyncBlock
  BY BlockFacts, Zenon
<1>7. /\ ItsRegion \in [Clear -> Seq(RegionBlock)]
      /\ ItsTypes \in [Clear -> Seq(STRING)]
  <2>1. /\ ItsRegion = [b \in Clear |-> ItsRegion[b]]
        /\ ItsTypes = [b \in Clear |-> ItsTypes[b]]
    BY Zenon DEF ItsRegion, ItsTypes
  <2> QED
    BY <1>5, <1>6, <2>1, Zenon
<1>8. ASSUME NEW s \in Seq(Clear)
      PROVE  /\ RegionsOf(s) = Flat(ItsRegion, s)
             /\ SyncedOf(s) = Flat(ItsTypes, s)
  <2>1. \A i \in 1..Len(s) :
          /\ ItsRegion[s[i]] = IF Region(s[i]) THEN <<s[i]>> ELSE <<>>
          /\ ItsTypes[s[i]] = IF Region(s[i]) THEN <<>> ELSE s[i][2]
    <3> TAKE i \in 1..Len(s)
    <3>1. s[i] \in Clear
      OBVIOUS
    <3> QED
      BY <1>3, <3>1, Zenon
  <2>2. [i \in 1..Len(s) |-> ItsRegion[s[i]]]
          = [i \in 1..Len(s) |-> IF Region(s[i]) THEN <<s[i]>> ELSE <<>>]
    BY <2>1, Zenon
  <2>3. [i \in 1..Len(s) |-> ItsTypes[s[i]]]
          = [i \in 1..Len(s) |-> IF Region(s[i]) THEN <<>> ELSE s[i][2]]
    BY <2>1, Zenon
  <2> QED
    BY <2>2, <2>3, Zenon DEF RegionsOf, SyncedOf, Flat
<1> QED
  BY <1>1, <1>2, <1>7, <1>8, Zenon

LEMMA MeantTypes ==
  ASSUME NEW s \in Seq(Clear)
  PROVE  RegionsOf(s) \in Seq(RegionBlock) /\ SyncedOf(s) \in Seq(STRING)
<1>1. Flat(ItsRegion, s) \in Seq(RegionBlock)
  BY ItsFacts, FlatType
<1>2. Flat(ItsTypes, s) \in Seq(STRING)
  BY ItsFacts, FlatType
<1> QED
  BY <1>1, <1>2, ItsFacts, Zenon

LEMMA MeantConcat ==
  ASSUME NEW s \in Seq(Clear), NEW t \in Seq(Clear)
  PROVE  /\ RegionsOf(s \o t) = RegionsOf(s) \o RegionsOf(t)
         /\ SyncedOf(s \o t) = SyncedOf(s) \o SyncedOf(t)
<1>0. /\ ItsRegion \in [Clear -> Seq(RegionBlock)]
      /\ ItsTypes \in [Clear -> Seq(STRING)]
  BY ItsFacts, Zenon
<1>1. s \o t \in Seq(Clear)
  OBVIOUS
<1>2. Splits(ItsRegion, s, t) /\ Splits(ItsTypes, s, t)
  BY <1>0, FlatConcat, Zenon
<1> QED
  BY <1>1, <1>2, ItsFacts, Zenon DEF Splits

LEMMA MeantEmpty == RegionsOf(<<>>) = <<>> /\ SyncedOf(<<>>) = <<>>
<1>1. <<>> \in Seq(Clear)
  OBVIOUS
<1> QED
  BY <1>1, ItsFacts, FlatEmpty, Zenon

RegionBehind(s, b) ==
  /\ RegionsOf(Append(s, b)) = Append(RegionsOf(s), b)
  /\ SyncedOf(Append(s, b)) = SyncedOf(s)

SyncBehind(s, b) ==
  /\ RegionsOf(Append(s, b)) = RegionsOf(s)
  /\ SyncedOf(Append(s, b)) = SyncedOf(s) \o b[2]

LEMMA MeantAppend ==
  ASSUME NEW s \in Seq(Clear), NEW b \in Clear
  PROVE  /\ Append(s, b) \in Seq(Clear)
         /\ b \in RegionBlock => RegionBehind(s, b)
         /\ b \in SyncBlock => SyncBehind(s, b)
<1>0. /\ ItsRegion \in [Clear -> Seq(RegionBlock)]
      /\ ItsTypes \in [Clear -> Seq(STRING)]
  BY ItsFacts, Zenon
<1>1. Append(s, b) \in Seq(Clear)
  OBVIOUS
<1>2. Flat(ItsRegion, Append(s, b)) = Flat(ItsRegion, s) \o ItsRegion[b]
  BY <1>0, FlatAppend
<1>3. Flat(ItsTypes, Append(s, b)) = Flat(ItsTypes, s) \o ItsTypes[b]
  BY <1>0, FlatAppend
<1>4. /\ RegionsOf(Append(s, b)) = RegionsOf(s) \o ItsRegion[b]
      /\ SyncedOf(Append(s, b)) = SyncedOf(s) \o ItsTypes[b]
  BY <1>1, <1>2, <1>3, ItsFacts, Zenon
<1>5. /\ RegionsOf(s) \o <<b>> = Append(RegionsOf(s), b)
      /\ RegionsOf(s) \o <<>> = RegionsOf(s)
      /\ SyncedOf(s) \o <<>> = SyncedOf(s)
  <2>1. \A S, u, x : u \in Seq(S) => u \o <<>> = u /\ u \o <<x>> = Append(u, x)
    OBVIOUS
  <2> QED
    BY <2>1, MeantTypes, Zenon
<1> QED
  BY <1>1, <1>4, <1>5, ItsFacts, Zenon DEF RegionBehind, SyncBehind

\* A block is read: it goes from what is to come to what is behind.
MovesOn(s, x, t) == s \o Cons(x, t) = Append(s, x) \o t

LEMMA MoveOn ==
  ASSUME NEW S, NEW s \in Seq(S), NEW x \in S, NEW t \in Seq(S)
  PROVE  MovesOn(s, x, t)
<1>1. PICK one \in Seq(S) : one = <<x>>
  BY Single, Zenon
<1>2. s \o one = Append(s, x)
  BY <1>1
<1>3. InOrder3(s, one, t)
  BY ThreeInOrder, Zenon
<1> QED
  BY <1>1, <1>2, <1>3, Zenon DEF Cons, InOrder3, MovesOn

LEMMA NextOne ==
  ASSUME NEW S, NEW s \in Seq(S), s # <<>>
  PROVE  \E x \in S, t \in Seq(S) : s = Cons(x, t)
<1>1. Head(s) \in S /\ Tail(s) \in Seq(S)
  OBVIOUS
<1>2. s = Cons(Head(s), Tail(s))
  <2> DEFINE u == Cons(Head(s), Tail(s))
  <2>1. /\ u \in Seq(S) /\ u = <<Head(s)>> \o Tail(s)
        /\ Len(u) = Len(Tail(s)) + 1 /\ u[1] = Head(s)
    BY <1>1, ConsFacts
  <2>2. PICK one \in Seq(S) : one = <<Head(s)>> /\ Len(one) = 1
    <3>1. Len(<<Head(s)>>) = 1
      OBVIOUS
    <3> QED
      BY <1>1, <3>1, Single, Zenon
  <2>3. \A i \in 1..(Len(one) + Len(Tail(s))) :
          (one \o Tail(s))[i] = IF i <= Len(one) THEN one[i]
                                 ELSE Tail(s)[i - Len(one)]
    BY <1>1, <2>2, ConcatProperties
  <2> HIDE DEF u
  <2>4. PICK n \in Nat : n = Len(s) - 1 /\ Len(s) = n + 1 /\ Len(Tail(s)) = n
    OBVIOUS
  <2>5. \A i \in 1..n : Tail(s)[i] = s[i + 1]
    BY <2>4
  <2>6. \A i \in 1..(n + 1) : u[i] = s[i]
    <3> TAKE i \in 1..(n + 1)
    <3>1. CASE i = 1
      BY <2>1, <3>1
    <3>2. CASE i # 1
      <4>1. i - 1 \in 1..n /\ (i - 1) + 1 = i /\ ~(i <= 1) /\ i \in 1..(1 + n)
        BY <3>2
      <4>2. u[i] = Tail(s)[i - 1]
        BY <2>1, <2>2, <2>3, <2>4, <4>1, Zenon
      <4> QED
        BY <2>5, <4>1, <4>2, Zenon
    <3> QED
      BY <3>1, <3>2
  <2>7. Len(u) = Len(s)
    BY <2>1, <2>4
  <2> QED
    BY <2>1, <2>4, <2>6, <2>7, SeqEqual DEF u
<1> QED
  BY <1>1, <1>2

LEMMA MaxIs ==
  ASSUME NEW I, I \subseteq Nat, NEW m \in I, \A y \in I : m >= y
  PROVE  Max(I) = m
<1>1. \A x \in I : (\A y \in I : x >= y) => x = m
  <2> TAKE x \in I
  <2> HAVE \A y \in I : x >= y
  <2> QED
    OBVIOUS
<1>2. Max(I) \in I /\ \A y \in I : Max(I) >= y
  BY Zenon DEF Max
<1> QED
  BY <1>1, <1>2

LEMMA MinIs ==
  ASSUME NEW I, I \subseteq Nat, NEW m \in I, \A y \in I : m <= y
  PROVE  Min(I) = m
<1>1. \A x \in I : (\A y \in I : x <= y) => x = m
  <2> TAKE x \in I
  <2> HAVE \A y \in I : x <= y
  <2> QED
    OBVIOUS
<1>2. Min(I) \in I /\ \A y \in I : Min(I) <= y
  BY Zenon DEF Min
<1> QED
  BY <1>1, <1>2

\* An item not given is empty, and of one given twice the last holds.
LEMMA ValueEmpty == ASSUME NEW k PROVE Value(<<>>, k) = Unset
<1>1. {i \in 1..Len(<<>>) : <<>>[i][1] = k} = {}
  OBVIOUS
<1> QED
  BY <1>1 DEF Value, SelectLastInSeq

LEMMA ValueAppend ==
  ASSUME NEW items \in Seq(Item), NEW item \in Item, NEW k
  PROVE  Value(Append(items, item), k)
           = IF item[1] = k THEN item[2] ELSE Value(items, k)
<1> DEFINE I == {i \in 1..Len(items) : items[i][1] = k}
<1>1. PICK n \in Nat : n = Len(items)
  OBVIOUS
<1>2. PICK more \in Seq(Item) :
        /\ more = Append(items, item) /\ Len(more) = n + 1
        /\ more[n + 1] = item /\ \A i \in 1..n : more[i] = items[i]
  <2>1. /\ Append(items, item) \in Seq(Item)
        /\ Len(Append(items, item)) = n + 1
        /\ Append(items, item)[n + 1] = item
        /\ \A i \in 1..n : Append(items, item)[i] = items[i]
    BY <1>1
  <2> QED
    BY <2>1
<1> DEFINE J == {i \in 1..Len(more) : more[i][1] = k}
<1>3. CASE item[1] = k
  <2>1. J \subseteq Nat /\ n + 1 \in J /\ \A i \in J : n + 1 >= i
    BY <1>2, <1>3
  <2> HIDE DEF J
  <2>2. Max(J) = n + 1 /\ J # {} /\ n + 1 # 0
    <3>1. Max(J) = n + 1
      BY <2>1, MaxIs, Zenon
    <3> QED
      BY <2>1, <3>1
  <2>3. Value(more, k) =
          IF J # {} THEN (IF Max(J) = 0 THEN Unset ELSE more[Max(J)][2])
          ELSE Unset
    BY DEF Value, SelectLastInSeq, J
  <2> QED
    BY <1>2, <1>3, <2>2, <2>3, Zenon
<1>4. CASE item[1] # k
  <2>1. I = J
    BY <1>1, <1>2, <1>4
  <2>2. \A i \in I : i \in 1..n
    BY <1>1
  <2>3. I # {} => Max(I) \in I
    <3> SUFFICES ASSUME I # {}
                 PROVE  Max(I) \in I
      OBVIOUS
    <3> DEFINE T == {n - i : i \in I}
    <3>1. T \subseteq Nat /\ T # {}
      BY <1>1
    <3>2. PICK l \in T : \A x \in T : l <= x
      BY <3>1, LeastMember
    <3>3. PICK m \in I : l = n - m
      OBVIOUS
    <3>4. I \subseteq Nat /\ \A y \in I : m >= y
      <4>1. I \subseteq Nat
        OBVIOUS
      <4>2. \A y \in I : n - m <= n - y
        BY <3>2, <3>3
      <4>3. \A y \in I : m >= y
        BY <4>1, <4>2
      <4> QED
        BY <4>1, <4>3
    <3> HIDE DEF I
    <3> QED
      BY <3>4, MaxIs
  <2>4. Value(items, k) =
          IF I # {} THEN (IF Max(I) = 0 THEN Unset ELSE items[Max(I)][2])
          ELSE Unset
    BY DEF Value, SelectLastInSeq
  <2>5. Value(more, k) =
          IF J # {} THEN (IF Max(J) = 0 THEN Unset ELSE more[Max(J)][2])
          ELSE Unset
    BY DEF Value, SelectLastInSeq
  <2> HIDE DEF I, J
  <2> QED
    BY <1>2, <1>4, <2>1, <2>2, <2>3, <2>4, <2>5
<1> QED
  BY <1>2, <1>3, <1>4

-----------------------------------------------------------------------------
(* Reading                                                                 *)

\* What readconf has before it, if it is a sequence of tokens and more.
LEMMA TokensAre ==
  ASSUME NEW a \in Seq(Shown), NEW b \in Seq(Shown), Rest = a \o b
  PROVE  /\ \A i \in 1..Len(a) : gettoken(i) = a[i]
         /\ Len(Rest) = Len(a) + Len(b)
<1>1. /\ Len(a \o b) = Len(a) + Len(b)
      /\ \A i \in 1..Len(a) : (a \o b)[i] = a[i]
  OBVIOUS
<1>2. \A i \in 1..Len(a) : i <= Len(Rest)
  BY <1>1
<1> QED
  BY <1>1, <1>2 DEF gettoken

LEMMA ReadOn ==
  ASSUME NEW a \in Seq(Shown), NEW b \in Seq(Shown), Rest = a \o b,
         NEW n, n = Len(a), Read(n)
  PROVE  Rest' = b /\ buf' = Buf(n)
<1>1. text' = SubSeq(Rest, n + 1, Len(Rest)) /\ buf' = Buf(n)
  BY DEF Read
<1>2. Len(Rest) = Len(a) + Len(b)
  BY TokensAre, Zenon
<1>3. SubSeq(a \o b, Len(a) + 1, Len(a) + Len(b)) = b
  <2>1. SubSeq(a \o b, Len(a) + 1, Len(a) + Len(b)) = SubSeq(b, 1, Len(b))
    BY SubSeqOfConcat2
  <2> QED
    BY <2>1, SubSeqFull
<1>4. text' = b
  BY <1>1, <1>2, <1>3, Zenon
<1>5. Skipped(b) = b
  BY SkippedShown, Zenon
<1>6. Rest' = Skipped(text')
  BY Zenon DEF Rest, Skipped
<1> QED
  BY <1>1, <1>4, <1>5, <1>6, Zenon

\* buf holds the last string that was read.
LEMMA BufIs ==
  ASSUME NEW n \in Nat, NEW m \in 1..n, gettoken(m)[1] = "string",
         \A j \in 1..n : j > m => gettoken(j)[1] # "string"
  PROVE  Buf(n) = gettoken(m)[2]
<1> DEFINE s == [i \in 1..n |-> gettoken(i)]
           I == {i \in 1..Len(s) : s[i][1] = "string"}
<1>1. Len(s) = n /\ \A i \in 1..n : s[i] = gettoken(i)
  OBVIOUS
<1> HIDE DEF s
<1>2. I \subseteq Nat /\ m \in I /\ \A y \in I : m >= y
  BY <1>1
<1> HIDE DEF I
<1>3. Max(I) = m /\ I # {} /\ m # 0
  <2>1. Max(I) = m
    BY <1>2, MaxIs, Zenon
  <2> QED
    BY <1>2, <2>1
<1>4. Buf(n) = IF I # {} THEN (IF Max(I) = 0 THEN buf ELSE gettoken(Max(I))[2])
               ELSE buf
  BY DEF Buf, SelectLastInSeq, I, s
<1> QED
  BY <1>3, <1>4, Zenon

\* The tokens of a list of three, and of two.
LEMMA ThreeTokens ==
  ASSUME NEW x \in Shown, NEW y \in Shown, NEW z \in Shown,
         NEW b \in Seq(Shown), Rest = <<x, y, z>> \o b
  PROVE  /\ gettoken(1) = x /\ gettoken(2) = y /\ gettoken(3) = z
         /\ Read(3) => Rest' = b
<1>1. PICK a \in Seq(Shown) :
        a = <<x, y, z>> /\ Len(a) = 3 /\ a[1] = x /\ a[2] = y /\ a[3] = z
  <2>1. /\ <<x, y, z>> \in Seq(Shown) /\ Len(<<x, y, z>>) = 3
        /\ <<x, y, z>>[1] = x /\ <<x, y, z>>[2] = y /\ <<x, y, z>>[3] = z
    OBVIOUS
  <2> QED
    BY <2>1, Zenon
<1>2. Rest = a \o b
  BY <1>1, Zenon
<1>3. \A i \in 1..Len(a) : gettoken(i) = a[i]
  BY <1>2, TokensAre, Zenon
<1>4. Read(3) => Rest' = b
  BY <1>1, <1>2, ReadOn, Zenon
<1>5. 1 \in 1..Len(a) /\ 2 \in 1..Len(a) /\ 3 \in 1..Len(a)
  BY <1>1
<1> QED
  BY <1>1, <1>3, <1>4, <1>5, Zenon

LEMMA TwoTokens ==
  ASSUME NEW x \in Shown, NEW y \in Shown,
         NEW b \in Seq(Shown), Rest = <<x, y>> \o b
  PROVE  /\ gettoken(1) = x /\ gettoken(2) = y
         /\ Read(2) => Rest' = b
<1>1. PICK a \in Seq(Shown) :
        a = <<x, y>> /\ Len(a) = 2 /\ a[1] = x /\ a[2] = y
  <2>1. /\ <<x, y>> \in Seq(Shown) /\ Len(<<x, y>>) = 2
        /\ <<x, y>>[1] = x /\ <<x, y>>[2] = y
    OBVIOUS
  <2> QED
    BY <2>1, Zenon
<1>2. Rest = a \o b
  BY <1>1, Zenon
<1>3. \A i \in 1..Len(a) : gettoken(i) = a[i]
  BY <1>2, TokensAre, Zenon
<1>4. Read(2) => Rest' = b
  BY <1>1, <1>2, ReadOn, Zenon
<1>5. 1 \in 1..Len(a) /\ 2 \in 1..Len(a)
  BY <1>1
<1> QED
  BY <1>1, <1>3, <1>4, <1>5, Zenon

LEMMA OneToken ==
  ASSUME NEW x \in Shown, NEW b \in Seq(Shown), Rest = <<x>> \o b
  PROVE  gettoken(1) = x /\ (Read(1) => Rest' = b)
<1>1. PICK a \in Seq(Shown) : a = <<x>> /\ Len(a) = 1 /\ a[1] = x
  <2>1. Len(<<x>>) = 1 /\ <<x>>[1] = x
    OBVIOUS
  <2> QED
    BY <2>1, Single, Zenon
<1>2. Rest = a \o b
  BY <1>1, Zenon
<1>3. \A i \in 1..Len(a) : gettoken(i) = a[i]
  BY <1>2, TokensAre, Zenon
<1>4. Read(1) => Rest' = b
  BY <1>1, <1>2, ReadOn, Zenon
<1>5. 1 \in 1..Len(a)
  BY <1>1
<1> QED
  BY <1>1, <1>3, <1>4, <1>5, Zenon

LEMMA StringThird ==
  ASSUME NEW s, gettoken(3) = Str(s)
  PROVE  Buf(3) = s
<1>1. gettoken(3)[1] = "string" /\ gettoken(3)[2] = s
  BY DEF Str
<1>2. 3 \in 1..3 /\ 3 \in Nat /\ \A j \in 1..3 : ~(j > 3)
  OBVIOUS
<1> QED
  BY <1>1, <1>2, BufIs, Zenon

\* SMT has no name for the braces.
Opening == Key("{")
Closing == Key("}")

LEMMA Braces ==
  /\ Opening \in Shown /\ Opening[1] # "string" /\ Opening[1] = "{"
  /\ Closing \in Shown /\ Closing[1] = "}"
<1>1. Opening[1] = "{" /\ Closing[1] = "}"
  BY Zenon DEF Opening, Closing, Key
<1>2. "{" # "string" /\ "{" # ";" /\ "}" # ";"
  OBVIOUS
<1>3. "{" \in Words /\ "}" \in Words
  BY Zenon DEF Words
<1> QED
  BY <1>1, <1>2, <1>3, TokenFacts, Zenon DEF Opening, Closing

LEMMA StringSecond ==
  ASSUME NEW s, gettoken(2) = Str(s), gettoken(3) = Opening
  PROVE  Buf(3) = s
<1>1. gettoken(2)[1] = "string" /\ gettoken(2)[2] = s
  BY DEF Str
<1>2. \A j \in 1..3 : j > 2 => gettoken(j)[1] # "string"
  <2>1. gettoken(3)[1] # "string"
    BY Braces, Zenon
  <2>2. \A j \in 1..3 : j > 2 => j = 3
    OBVIOUS
  <2> QED
    BY <2>1, <2>2, Zenon
<1>3. 2 \in 1..3 /\ 3 \in Nat
  OBVIOUS
<1> QED
  BY <1>1, <1>2, <1>3, BufIs, Zenon

NoneToCome(todo) == todo = <<>> /\ gettoken(1) = Illegal

RegionToCome(todo, name, items, t) ==
  /\ todo = Cons(RegionOf(name, items), t)
  /\ gettoken(1) = Key("region") /\ gettoken(2) = Str(name[3])
  /\ gettoken(3) = Opening /\ Buf(3) = name[3]
  /\ Read(3) => Rest' = RegionRest(items, t)

SyncToCome(todo, types, t) ==
  /\ todo = Cons(SyncOf(types), t)
  /\ gettoken(1) = Key("sync") /\ gettoken(2) = Opening
  /\ Read(2) => Rest' = SyncRest(types, t)

LEMMA ShownKeys ==
  /\ Key("region") \in Shown /\ Key("sync") \in Shown
  /\ Key("=") \in Shown /\ Key("type") \in Shown
  /\ \A k \in Items : Key(k) \in Shown
  /\ \A s \in STRING : Str(s) \in Shown
<1>1. /\ "region" \in Words /\ "sync" \in Words /\ "=" \in Words
      /\ Items \subseteq Words /\ "type" \in Items /\ ";" \notin Items
  <2>1. "type" \in Items
    BY DEF Items
  <2> QED
    BY <2>1, TokenFacts, Zenon DEF Words
<1>2. "region" # ";" /\ "sync" # ";" /\ "=" # ";"
  OBVIOUS
<1> QED
  BY <1>1, <1>2, TokenFacts, Zenon

LEMMA TopTokens ==
  ASSUME NEW todo \in Seq(Clear), Rest = TopRest(todo)
  PROVE  \/ NoneToCome(todo)
         \/ \E name \in PlainName, items \in Seq(Item), t \in Seq(Clear) :
              RegionToCome(todo, name, items, t)
         \/ \E types \in Seq(STRING), t \in Seq(Clear) :
              SyncToCome(todo, types, t)
<1>1. CASE todo = <<>>
  <2>1. TopRest(<<>>) = <<>>
    <3>1. <<>> \in Seq(Shown)
      OBVIOUS
    <3> QED
      BY <3>1, PrintedFacts, SkippedShown, Zenon DEF TopRest
  <2>2. Rest = <<>>
    BY <1>1, <2>1, Zenon
  <2>3. ~(1 <= Len(<<>>))
    OBVIOUS
  <2> QED
    BY <1>1, <2>2, <2>3, Zenon DEF gettoken, NoneToCome
<1>2. CASE todo # <<>>
  <2>1. PICK b \in Clear, t \in Seq(Clear) : todo = Cons(b, t)
    BY <1>2, NextOne
  <2>2. CASE b \in RegionBlock
    <3>1. PICK name \in PlainName, items \in Seq(Item) :
            b = RegionOf(name, items) /\ name = b[2] /\ items = b[3]
      <4>1. b[2] \in PlainName /\ b[3] \in Seq(Item)
        BY <2>2, BlockFacts, Zenon
      <4>2. b = RegionOf(b[2], b[3])
        BY <2>2, OfFacts, Zenon
      <4> QED
        BY <4>1, <4>2, Zenon
    <3>2. Rest = RegionHead(name) \o RegionRest(items, t)
      BY <2>1, <2>2, <3>1, TopText, Zenon
    <3>3. RegionRest(items, t) \in Seq(Shown)
      BY RestTypes, Zenon
    <3>4. PICK x \in Shown, y \in Shown, z \in Shown :
            x = Key("region") /\ y = Str(name[3]) /\ z = Opening
      BY NameFacts, ShownKeys, Braces, Zenon
    <3>5. Rest = <<x, y, z>> \o RegionRest(items, t)
      BY <3>2, <3>4, Zenon DEF RegionHead, Opening
    <3>6. /\ gettoken(1) = x /\ gettoken(2) = y /\ gettoken(3) = z
          /\ Read(3) => Rest' = RegionRest(items, t)
      BY <3>3, <3>5, ThreeTokens, Zenon
    <3>7. Buf(3) = name[3]
      BY <3>4, <3>6, StringSecond, Zenon
    <3>8. RegionToCome(todo, name, items, t)
      BY <2>1, <3>1, <3>4, <3>6, <3>7, Zenon DEF RegionToCome
    <3> QED
      BY <3>8, Zenon
  <2>3. CASE b \in SyncBlock
    <3>1. PICK types \in Seq(STRING) : b = SyncOf(types) /\ types = b[2]
      BY <2>3, OfFacts, BlockFacts, Zenon
    <3>2. Rest = SyncHead \o SyncRest(types, t)
      BY <2>1, <2>3, <3>1, TopText, Zenon
    <3>3. SyncRest(types, t) \in Seq(Shown)
      BY RestTypes, Zenon
    <3>4. PICK x \in Shown, y \in Shown : x = Key("sync") /\ y = Opening
      BY ShownKeys, Braces, Zenon
    <3>5. Rest = <<x, y>> \o SyncRest(types, t)
      BY <3>2, <3>4, Zenon DEF SyncHead, Opening
    <3>6. /\ gettoken(1) = x /\ gettoken(2) = y
          /\ Read(2) => Rest' = SyncRest(types, t)
      BY <3>3, <3>5, TwoTokens, Zenon
    <3>7. SyncToCome(todo, types, t)
      BY <2>1, <3>1, <3>4, <3>6, Zenon DEF SyncToCome
    <3> QED
      BY <3>7, Zenon
  <2> QED
    BY <2>2, <2>3, BlockFacts
<1> QED
  BY <1>1, <1>2

EndToCome(left, todo) ==
  /\ left = <<>> /\ gettoken(1) = Closing
  /\ Read(1) => Rest' = TopRest(todo)

ItemToCome(left, todo, item, l) ==
  /\ left = Cons(item, l)
  /\ gettoken(1) = Key(item[1]) /\ gettoken(2) = Key("=")
  /\ gettoken(3) = Str(item[2]) /\ Buf(3) = item[2]
  /\ Read(3) => Rest' = RegionRest(l, todo)

TypeToCome(left, todo, type, l) ==
  /\ left = Cons(type, l)
  /\ gettoken(1) = Key("type") /\ gettoken(2) = Key("=")
  /\ gettoken(3) = Str(type) /\ Buf(3) = type
  /\ Read(3) => Rest' = SyncRest(l, todo)

LEMMA EndTokens ==
  ASSUME NEW todo \in Seq(Clear), Rest = BlockEnd \o TopRest(todo)
  PROVE  gettoken(1) = Closing /\ (Read(1) => Rest' = TopRest(todo))
<1>1. TopRest(todo) \in Seq(Shown)
  BY RestTypes, Zenon
<1>2. PICK x \in Shown : x = Closing
  BY Braces, Zenon
<1>3. Rest = <<x>> \o TopRest(todo)
  BY <1>2, Zenon DEF BlockEnd, Closing
<1> QED
  BY <1>1, <1>2, <1>3, OneToken, Zenon

LEMMA RegionTokens ==
  ASSUME NEW left \in Seq(Item), NEW todo \in Seq(Clear),
         Rest = RegionRest(left, todo)
  PROVE  \/ EndToCome(left, todo)
         \/ \E item \in Item, l \in Seq(Item) : ItemToCome(left, todo, item, l)
<1>1. CASE left = <<>>
  <2>1. Rest = BlockEnd \o TopRest(todo)
    BY <1>1, InnerText, Zenon
  <2> QED
    BY <1>1, <2>1, EndTokens, Zenon DEF EndToCome
<1>2. CASE left # <<>>
  <2>1. PICK item \in Item, l \in Seq(Item) : left = Cons(item, l)
    BY <1>2, NextOne
  <2>2. Rest = Triplet(item[1], item[2]) \o RegionRest(l, todo)
    BY <2>1, InnerText, Zenon
  <2>3. RegionRest(l, todo) \in Seq(Shown)
    BY RestTypes, Zenon
  <2>4. item[1] \in Items /\ item[2] \in STRING
    BY DEF Item
  <2>5. PICK x \in Shown, y \in Shown, z \in Shown :
          x = Key(item[1]) /\ y = Key("=") /\ z = Str(item[2])
    BY <2>4, ShownKeys, Zenon
  <2>6. Rest = <<x, y, z>> \o RegionRest(l, todo)
    BY <2>2, <2>5, Zenon DEF Triplet
  <2>7. /\ gettoken(1) = x /\ gettoken(2) = y /\ gettoken(3) = z
        /\ Read(3) => Rest' = RegionRest(l, todo)
    BY <2>3, <2>6, ThreeTokens, Zenon
  <2>8. Buf(3) = item[2]
    BY <2>5, <2>7, StringThird, Zenon
  <2>9. ItemToCome(left, todo, item, l)
    BY <2>1, <2>5, <2>7, <2>8, Zenon DEF ItemToCome
  <2> QED
    BY <2>9, Zenon
<1> QED
  BY <1>1, <1>2

LEMMA SyncTokens ==
  ASSUME NEW left \in Seq(STRING), NEW todo \in Seq(Clear),
         Rest = SyncRest(left, todo)
  PROVE  \/ EndToCome(left, todo)
         \/ \E type \in STRING, l \in Seq(STRING) :
              TypeToCome(left, todo, type, l)
<1>1. CASE left = <<>>
  <2>1. Rest = BlockEnd \o TopRest(todo)
    BY <1>1, InnerText, Zenon
  <2> QED
    BY <1>1, <2>1, EndTokens, Zenon DEF EndToCome
<1>2. CASE left # <<>>
  <2>1. PICK type \in STRING, l \in Seq(STRING) : left = Cons(type, l)
    BY <1>2, NextOne
  <2>2. Rest = Triplet("type", type) \o SyncRest(l, todo)
    BY <2>1, InnerText, Zenon
  <2>3. SyncRest(l, todo) \in Seq(Shown)
    BY RestTypes, Zenon
  <2>5. PICK x \in Shown, y \in Shown, z \in Shown :
          x = Key("type") /\ y = Key("=") /\ z = Str(type)
    BY ShownKeys, Zenon
  <2>6. Rest = <<x, y, z>> \o SyncRest(l, todo)
    BY <2>2, <2>5, Zenon DEF Triplet
  <2>7. /\ gettoken(1) = x /\ gettoken(2) = y /\ gettoken(3) = z
        /\ Read(3) => Rest' = SyncRest(l, todo)
    BY <2>3, <2>6, ThreeTokens, Zenon
  <2>8. Buf(3) = type
    BY <2>5, <2>7, StringThird, Zenon
  <2>9. TypeToCome(left, todo, type, l)
    BY <2>1, <2>5, <2>7, <2>8, Zenon DEF TypeToCome
  <2> QED
    BY <2>9, Zenon
<1> QED
  BY <1>1, <1>2

\* An entry of conf before its pattern is compiled, and the whole table.
Entry(r) == [area |-> r[2][3], items |-> [k \in Items |-> Value(r[3], k)],
             preg |-> FALSE]
Filled(regions) ==
  \A i \in 0..MAX_CONF :
    conf[i] = IF i < Len(regions) THEN Entry(regions[i + 1]) ELSE Empty

\* Of a record, one field and one place of a field.
LEMMA RecordFields ==
  ASSUME NEW a, NEW f, NEW p, NEW r, r = [area |-> a, items |-> f, preg |-> p]
  PROVE  r.area = a /\ r.items = f /\ r.preg = p
  OBVIOUS

LEMMA RecordArea ==
  ASSUME NEW a, NEW f, NEW p, NEW b,
         NEW r, r = [area |-> a, items |-> f, preg |-> p]
  PROVE  [r EXCEPT !.area = b] = [area |-> b, items |-> f, preg |-> p]
  OBVIOUS

LEMMA RecordItems ==
  ASSUME NEW a, NEW f, NEW p, NEW b,
         NEW r, r = [area |-> a, items |-> f, preg |-> p]
  PROVE  [r EXCEPT !.items = b] = [area |-> a, items |-> b, preg |-> p]
  OBVIOUS

LEMMA RecordPreg ==
  ASSUME NEW a, NEW f, NEW p, NEW b,
         NEW r, r = [area |-> a, items |-> f, preg |-> p]
  PROVE  [r EXCEPT !.preg = b] = [area |-> a, items |-> f, preg |-> b]
  OBVIOUS

LEMMA RecordItem ==
  ASSUME NEW r, NEW k, NEW v
  PROVE  [r EXCEPT !.items[k] = v]
           = [r EXCEPT !.items = [r.items EXCEPT ![k] = v]]
  BY Zenon

LEMMA EntryOpen ==
  ASSUME NEW name \in PlainName
  PROVE  [Empty EXCEPT !.area = name[3]] = Entry(RegionOf(name, <<>>))
<1>1. <<>> \in Seq(Item)
  OBVIOUS
<1>2. RegionOf(name, <<>>)[2] = name /\ RegionOf(name, <<>>)[3] = <<>>
  BY <1>1, OfFacts, Zenon
<1>3. [k \in Items |-> Value(<<>>, k)] = [k \in Items |-> Unset]
  BY ValueEmpty, Zenon
<1>4. Entry(RegionOf(name, <<>>))
        = [area |-> name[3], items |-> [k \in Items |-> Unset], preg |-> FALSE]
  BY <1>2, <1>3, Zenon DEF Entry
<1>5. PICK f, p : f = [k \in Items |-> Unset] /\ p = FALSE
  BY Zenon
<1>6. Empty = [area |-> Unset, items |-> f, preg |-> p]
  BY <1>5, Zenon DEF Empty
<1>7. [Empty EXCEPT !.area = name[3]]
        = [area |-> name[3], items |-> f, preg |-> p]
  BY <1>6, RecordArea
<1> QED
  BY <1>4, <1>5, <1>7, Zenon

ItemAdded(name, got, item) ==
  [Entry(RegionOf(name, got)) EXCEPT !.items[item[1]] = item[2]]
    = Entry(RegionOf(name, Append(got, item)))

LEMMA EntryItem ==
  ASSUME NEW name \in PlainName, NEW got \in Seq(Item), NEW item \in Item
  PROVE  ItemAdded(name, got, item)
<1> DEFINE f == [k \in Items |-> Value(got, k)]
           g == [k \in Items |-> Value(Append(got, item), k)]
<1>1. Append(got, item) \in Seq(Item) /\ item[1] \in Items
  BY DEF Item
<1>2. Entry(RegionOf(name, got))
        = [area |-> name[3], items |-> f, preg |-> FALSE]
  BY OfFacts, Zenon DEF Entry
<1>3. Entry(RegionOf(name, Append(got, item)))
        = [area |-> name[3], items |-> g, preg |-> FALSE]
  BY <1>1, OfFacts, Zenon DEF Entry
<1>4. [f EXCEPT ![item[1]] = item[2]] = g
  <2>1. \A k \in Items : g[k] = IF item[1] = k THEN item[2] ELSE f[k]
    BY ValueAppend, Zenon
  <2>2. g = [k \in Items |-> g[k]] /\ f = [k \in Items |-> f[k]]
    OBVIOUS
  <2> HIDE DEF f, g
  <2> QED
    BY <1>1, <2>1, <2>2
<1> HIDE DEF f, g
<1>5. PICK p : p = FALSE
  BY Zenon
<1>6. PICK r : r = [area |-> name[3], items |-> f, preg |-> p]
  BY Zenon
<1>7. [r EXCEPT !.items[item[1]] = item[2]] = [r EXCEPT !.items = g]
  <2>1. r.items = f
    BY <1>6, RecordFields, Zenon
  <2> QED
    BY <1>4, <2>1, RecordItem, Zenon
<1>8. [r EXCEPT !.items = g] = [area |-> name[3], items |-> g, preg |-> p]
  BY <1>6, RecordItems
<1> QED
  BY <1>2, <1>3, <1>5, <1>6, <1>7, <1>8, Zenon DEF ItemAdded

-----------------------------------------------------------------------------
(* What readconf has read of a file that was meant, and has still to read  *)

TopAt(done, todo) ==
  /\ meant = done \o todo /\ Rest = TopRest(todo)
  /\ cent = Len(RegionsOf(done)) /\ synctype = SyncedOf(done)
  /\ Filled(RegionsOf(done))

RegionAt(done, todo, name, got, left) ==
  /\ meant = done \o Cons(RegionOf(name, got \o left), todo)
  /\ Rest = RegionRest(left, todo)
  /\ cent = Len(RegionsOf(done)) /\ synctype = SyncedOf(done)
  /\ Filled(Append(RegionsOf(done), RegionOf(name, got)))

SyncAt(done, todo, got, left) ==
  /\ meant = done \o Cons(SyncOf(got \o left), todo)
  /\ Rest = SyncRest(left, todo)
  /\ cent = Len(RegionsOf(done)) /\ synctype = SyncedOf(done) \o got
  /\ Filled(RegionsOf(done))

ReadInv ==
  /\ meant \in Seq(Clear)
  /\ at = "top" =>
       \E done, todo \in Seq(Clear) : TopAt(done, todo)
  /\ at = "region" =>
       \E done, todo \in Seq(Clear), name \in PlainName,
          got, left \in Seq(Item) :
         RegionAt(done, todo, name, got, left)
  /\ at = "sync" =>
       \E done, todo \in Seq(Clear), got, left \in Seq(STRING) :
         SyncAt(done, todo, got, left)
  /\ at = "regcomp" =>
       /\ confent = Len(Regions) /\ Filled(Regions)
       /\ syncent = Len(Synced) /\ synctype = Synced
  /\ at = "exit" => Len(Regions) > MAX_CONF \/ Len(Synced) > MAX_SYNCFILES

Others(regions) ==
  \A i \in 0..MAX_CONF :
    i # Len(regions) =>
      conf[i] = IF i < Len(regions) THEN Entry(regions[i + 1]) ELSE Empty

LEMMA FilledOthers ==
  ASSUME NEW R \in Seq(RegionBlock), NEW r \in RegionBlock,
         MAX_CONF \in Nat
  PROVE  /\ Filled(R) => Others(R)
         /\ Filled(Append(R, r)) => Others(R)
         /\ Filled(R) /\ Len(R) <= MAX_CONF => conf[Len(R)] = Empty
         /\ Filled(Append(R, r)) /\ Len(R) < MAX_CONF => conf[Len(R)] = Entry(r)
<1>1. PICK n \in Nat : n = Len(R)
  OBVIOUS
<1>2. PICK s \in Seq(RegionBlock) :
        /\ s = Append(R, r) /\ Len(s) = n + 1 /\ s[n + 1] = r
        /\ \A i \in 1..n : s[i] = R[i]
  <2>1. /\ Append(R, r) \in Seq(RegionBlock) /\ Len(Append(R, r)) = n + 1
        /\ Append(R, r)[n + 1] = r /\ \A i \in 1..n : Append(R, r)[i] = R[i]
    BY <1>1
  <2> QED
    BY <2>1, Zenon
<1>3. Filled(R) => Others(R)
  BY Zenon DEF Filled, Others
<1>4. ASSUME Filled(s)
      PROVE  Others(R)
  <2> SUFFICES ASSUME NEW i \in 0..MAX_CONF, i # n
               PROVE  conf[i] = IF i < n THEN Entry(R[i + 1]) ELSE Empty
    BY <1>1, Zenon DEF Others
  <2>1. conf[i] = IF i < n + 1 THEN Entry(s[i + 1]) ELSE Empty
    BY <1>2, <1>4, Zenon DEF Filled
  <2>2. (i < n + 1 <=> i < n) /\ (i < n => i + 1 \in 1..n)
    BY <1>1
  <2> QED
    BY <1>2, <2>1, <2>2, Zenon
<1>5. ASSUME Filled(R), n <= MAX_CONF
      PROVE  conf[n] = Empty
  <2>1. n \in 0..MAX_CONF /\ ~(n < n)
    BY <1>5
  <2> QED
    BY <1>1, <1>5, <2>1, Zenon DEF Filled
<1>6. ASSUME Filled(s), n < MAX_CONF
      PROVE  conf[n] = Entry(r)
  <2>1. n \in 0..MAX_CONF /\ n < n + 1
    BY <1>6
  <2> QED
    BY <1>2, <1>6, <2>1, Zenon DEF Filled
<1> QED
  BY <1>1, <1>2, <1>3, <1>4, <1>5, <1>6, Zenon

\* An entry is written behind those that are there.
LEMMA FilledChange ==
  ASSUME NEW R \in Seq(RegionBlock), NEW r \in RegionBlock,
         MAX_CONF \in Nat, cent = Len(R), Others(R),
         \A i \in 0..MAX_CONF :
           conf'[i] = IF i = cent THEN Entry(r) ELSE conf[i]
  PROVE  Filled(Append(R, r))'
<1>1. PICK n \in Nat : n = Len(R)
  OBVIOUS
<1>2. PICK s \in Seq(RegionBlock) :
        /\ s = Append(R, r) /\ Len(s) = n + 1 /\ s[n + 1] = r
        /\ \A i \in 1..n : s[i] = R[i]
  <2>1. /\ Append(R, r) \in Seq(RegionBlock) /\ Len(Append(R, r)) = n + 1
        /\ Append(R, r)[n + 1] = r /\ \A i \in 1..n : Append(R, r)[i] = R[i]
    BY <1>1
  <2> QED
    BY <2>1, Zenon
<1>3. ASSUME NEW i \in 0..MAX_CONF
      PROVE  conf'[i] = IF i < n + 1 THEN Entry(s[i + 1]) ELSE Empty
  <2>1. CASE i = n
    <3>1. conf'[i] = Entry(r) /\ i < n + 1
      BY <1>1, <2>1
    <3> QED
      BY <1>2, <2>1, <3>1, Zenon
  <2>2. CASE i # n
    <3>1. conf'[i] = conf[i]
      BY <1>1, <2>2
    <3>2. conf[i] = IF i < n THEN Entry(R[i + 1]) ELSE Empty
      BY <1>1, <2>2, Zenon DEF Others
    <3>3. (i < n + 1 <=> i < n) /\ (i < n => i + 1 \in 1..n)
      BY <1>1, <2>2
    <3> QED
      BY <1>2, <3>1, <3>2, <3>3, Zenon
  <2> QED
    BY <2>1, <2>2
<1> QED
  BY <1>2, <1>3, Zenon DEF Filled

LEMMA Kinds ==
  /\ \A w : Key(w)[1] = w
  /\ \A s : Str(s)[1] = "string"
  /\ Illegal[1] = "illegal"
  BY DEF Key, Str, Illegal

\* Which of the three cases the next token tells.
LEMMA RegionNext ==
  ASSUME NEW todo \in Seq(Clear), Rest = TopRest(todo), Is(1, "region")
  PROVE  \E name \in PlainName, items \in Seq(Item), t \in Seq(Clear) :
           RegionToCome(todo, name, items, t)
<1>1. gettoken(1)[1] = "region"
  BY Zenon DEF Is
<1>2. ~NoneToCome(todo)
  <2>1. "illegal" # "region"
    OBVIOUS
  <2> QED
    BY <1>1, <2>1, Kinds, Zenon DEF NoneToCome
<1>3. \A types, t : ~SyncToCome(todo, types, t)
  <2>1. "sync" # "region"
    OBVIOUS
  <2> QED
    BY <1>1, <2>1, Kinds, Zenon DEF SyncToCome
<1> QED
  BY <1>2, <1>3, TopTokens, Zenon

LEMMA SyncNext ==
  ASSUME NEW todo \in Seq(Clear), Rest = TopRest(todo), Is(1, "sync")
  PROVE  \E types \in Seq(STRING), t \in Seq(Clear) :
           SyncToCome(todo, types, t)
<1>1. gettoken(1)[1] = "sync"
  BY Zenon DEF Is
<1>2. ~NoneToCome(todo)
  <2>1. "illegal" # "sync"
    OBVIOUS
  <2> QED
    BY <1>1, <2>1, Kinds, Zenon DEF NoneToCome
<1>3. \A name, items, t : ~RegionToCome(todo, name, items, t)
  <2>1. "sync" # "region"
    OBVIOUS
  <2> QED
    BY <1>1, <2>1, Kinds, Zenon DEF RegionToCome
<1> QED
  BY <1>2, <1>3, TopTokens, Zenon

LEMMA OpenRegionStep ==
  ASSUME TablesInv, NEW done \in Seq(Clear), NEW todo \in Seq(Clear),
         TopAt(done, todo), open_region
  PROVE  \E name \in PlainName, items \in Seq(Item), t \in Seq(Clear) :
           RegionAt(done, t, name, <<>>, items)'
<1>1. /\ Is(1, "region") /\ cent < MAX_CONF /\ Read(3)
      /\ conf' = [conf EXCEPT ![cent].area = Buf(3)]
      /\ meant' = meant /\ cent' = cent /\ synctype' = synctype
  BY Zenon DEF open_region
<1>2. /\ meant = done \o todo /\ Rest = TopRest(todo)
      /\ cent = Len(RegionsOf(done)) /\ synctype = SyncedOf(done)
      /\ Filled(RegionsOf(done))
  BY Zenon DEF TopAt
<1>3. PICK name \in PlainName, items \in Seq(Item), t \in Seq(Clear) :
        RegionToCome(todo, name, items, t)
  BY <1>1, <1>2, RegionNext, Zenon
<1>4. /\ todo = Cons(RegionOf(name, items), t) /\ Buf(3) = name[3]
      /\ Rest' = RegionRest(items, t)
  BY <1>1, <1>3, Zenon DEF RegionToCome
<1>5. <<>> \in Seq(Item) /\ <<>> \o items = items
  OBVIOUS
<1>6. PICK R \in Seq(RegionBlock) : R = RegionsOf(done)
  BY MeantTypes, Zenon
<1>7. PICK r \in RegionBlock : r = RegionOf(name, <<>>)
  BY <1>5, OfFacts, Zenon
<1>8. MAX_CONF \in Nat /\ cent \in 0..MAX_CONF
  BY ConfigAssumption DEF TablesInv
<1>9. Filled(R) /\ cent = Len(R) /\ Len(R) <= MAX_CONF
  BY <1>2, <1>6, <1>8
<1>10. Others(R) /\ conf[cent] = Empty
  BY <1>8, <1>9, FilledOthers, Zenon
<1>11. Entry(r) = [Empty EXCEPT !.area = name[3]]
  BY <1>7, EntryOpen, Zenon
<1>12. \A i \in 0..MAX_CONF :
         conf'[i] = IF i = cent THEN Entry(r) ELSE conf[i]
  <2>1. conf = [i \in 0..MAX_CONF |-> conf[i]]
    BY Zenon DEF TablesInv
  <2>2. conf' = [conf EXCEPT ![cent].area = name[3]]
    BY <1>1, <1>4, Zenon
  <2>3. \A i \in 0..MAX_CONF :
          conf'[i] = IF i = cent THEN [conf[i] EXCEPT !.area = name[3]]
                     ELSE conf[i]
    BY <2>1, <2>2
  <2> QED
    BY <1>10, <1>11, <2>3, Zenon
<1>13. Filled(Append(R, r))'
  BY <1>8, <1>9, <1>10, <1>12, FilledChange, Zenon
<1>14. RegionAt(done, t, name, <<>>, items)'
  BY <1>1, <1>2, <1>4, <1>5, <1>6, <1>7, <1>13, Zenon DEF RegionAt
<1> QED
  BY <1>14, Zenon

LEMMA RegionItemStep ==
  ASSUME TablesInv, at = "region",
         NEW done \in Seq(Clear), NEW todo \in Seq(Clear),
         NEW name \in PlainName,
         NEW got \in Seq(Item), NEW left \in Seq(Item),
         RegionAt(done, todo, name, got, left), region_item
  PROVE  \E item \in Item, l \in Seq(Item) :
           RegionAt(done, todo, name, Append(got, item), l)'
<1>1. /\ gettoken(1)[1] \in Items /\ Read(3)
      /\ conf' = [conf EXCEPT ![cent].items[gettoken(1)[1]] = Buf(3)]
      /\ meant' = meant /\ cent' = cent /\ synctype' = synctype
  BY Zenon DEF region_item
<1>2. /\ meant = done \o Cons(RegionOf(name, got \o left), todo)
      /\ Rest = RegionRest(left, todo)
      /\ cent = Len(RegionsOf(done)) /\ synctype = SyncedOf(done)
      /\ Filled(Append(RegionsOf(done), RegionOf(name, got)))
  BY Zenon DEF RegionAt
<1>3. PICK item \in Item, l \in Seq(Item) : ItemToCome(left, todo, item, l)
  <2>1. ~EndToCome(left, todo)
    <3>1. "}" \notin Items
      BY Zenon DEF Items
    <3> QED
      BY <1>1, <3>1, Braces, Zenon DEF EndToCome
  <2> QED
    BY <1>2, <2>1, RegionTokens, Zenon
<1>4. /\ left = Cons(item, l) /\ gettoken(1)[1] = item[1]
      /\ Buf(3) = item[2] /\ Rest' = RegionRest(l, todo)
  BY <1>1, <1>3, Kinds, Zenon DEF ItemToCome
<1>5. /\ Append(got, item) \in Seq(Item) /\ Append(got, item) \o l \in Seq(Item)
      /\ got \o left = Append(got, item) \o l
  <2>1. got \o Cons(item, l) = Append(got, item) \o l
    <3>1. MovesOn(got, item, l)
      BY MoveOn, Zenon
    <3> QED
      BY <3>1, Zenon DEF MovesOn
  <2>2. /\ Append(got, item) \in Seq(Item)
        /\ Append(got, item) \o l \in Seq(Item)
    OBVIOUS
  <2> QED
    BY <1>4, <2>1, <2>2, Zenon
<1>6. PICK R \in Seq(RegionBlock) : R = RegionsOf(done)
  BY MeantTypes, Zenon
<1>7. PICK r \in RegionBlock, q \in RegionBlock :
        r = RegionOf(name, got) /\ q = RegionOf(name, Append(got, item))
  BY <1>5, OfFacts, Zenon
<1>8. MAX_CONF \in Nat /\ cent \in 0..MAX_CONF /\ cent < MAX_CONF
  BY ConfigAssumption DEF TablesInv
<1>9. Filled(Append(R, r)) /\ cent = Len(R) /\ Len(R) < MAX_CONF
  BY <1>2, <1>6, <1>7, <1>8, Zenon
<1>10. Others(R) /\ conf[cent] = Entry(r)
  BY <1>8, <1>9, FilledOthers, Zenon
<1>11. Entry(q) = [Entry(r) EXCEPT !.items[item[1]] = item[2]]
  <2>1. ItemAdded(name, got, item)
    BY EntryItem, Zenon
  <2> QED
    BY <1>7, <2>1, Zenon DEF ItemAdded
<1>12. \A i \in 0..MAX_CONF :
         conf'[i] = IF i = cent THEN Entry(q) ELSE conf[i]
  <2>1. conf = [i \in 0..MAX_CONF |-> conf[i]]
    BY Zenon DEF TablesInv
  <2>2. conf' = [conf EXCEPT ![cent].items[item[1]] = item[2]]
    BY <1>1, <1>4, Zenon
  <2>3. \A i \in 0..MAX_CONF :
          conf'[i] = IF i = cent
                     THEN [conf[i] EXCEPT !.items[item[1]] = item[2]]
                     ELSE conf[i]
    BY <2>1, <2>2
  <2> QED
    BY <1>10, <1>11, <2>3, Zenon
<1>13. Filled(Append(R, q))'
  BY <1>8, <1>9, <1>10, <1>12, FilledChange, Zenon
<1>14. RegionAt(done, todo, name, Append(got, item), l)'
  BY <1>1, <1>2, <1>4, <1>5, <1>6, <1>7, <1>13, Zenon DEF RegionAt
<1> QED
  BY <1>14, Zenon

\* The provers keep strings apart from other elements of sequences.
Appends(S) ==
  \A s, u \in Seq(S), x \in S : Append(s \o u, x) = s \o Append(u, x)

LEMMA AppendStrings == Appends(STRING)
<1>1. PICK S : S = STRING
  BY Zenon
<1>2. Appends(S)
  BY DEF Appends
<1> QED
  BY <1>1, <1>2, Zenon

LEMMA CloseRegionStep ==
  ASSUME NEW done \in Seq(Clear), NEW todo \in Seq(Clear),
         NEW name \in PlainName,
         NEW got \in Seq(Item), NEW left \in Seq(Item),
         RegionAt(done, todo, name, got, left), close_region
  PROVE  \E b \in Clear : TopAt(Append(done, b), todo)'
<1>1. /\ Is(1, "}") /\ Read(1) /\ cent' = cent + 1
      /\ meant' = meant /\ conf' = conf /\ synctype' = synctype
  BY Zenon DEF close_region
<1>2. /\ meant = done \o Cons(RegionOf(name, got \o left), todo)
      /\ Rest = RegionRest(left, todo)
      /\ cent = Len(RegionsOf(done)) /\ synctype = SyncedOf(done)
      /\ Filled(Append(RegionsOf(done), RegionOf(name, got)))
  BY Zenon DEF RegionAt
<1>3. EndToCome(left, todo)
  <2>1. gettoken(1)[1] = "}"
    BY <1>1, Zenon DEF Is
  <2>2. "}" \notin Items
    BY Zenon DEF Items
  <2>3. gettoken(1)[1] \notin Items
    BY <2>1, <2>2, Zenon
  <2>4. ASSUME NEW item \in Item, NEW l, ItemToCome(left, todo, item, l)
        PROVE  FALSE
    <3>1. gettoken(1) = Key(item[1])
      BY <2>4, Zenon DEF ItemToCome
    <3>2. gettoken(1)[1] = item[1]
      BY <3>1, Kinds, Zenon
    <3>3. item[1] \in Items
      BY DEF Item
    <3> QED
      BY <2>3, <3>2, <3>3, Zenon
  <2> QED
    BY <1>2, <2>4, RegionTokens, Zenon
<1>4. left = <<>> /\ Rest' = TopRest(todo)
  BY <1>1, <1>3, Zenon DEF EndToCome
<1>5. got \o left = got
  BY <1>4
<1>6. PICK r \in RegionBlock : r = RegionOf(name, got)
  BY OfFacts, Zenon
<1>7. r \in Clear
  BY BlockFacts
<1>8. /\ RegionsOf(Append(done, r)) = Append(RegionsOf(done), r)
      /\ SyncedOf(Append(done, r)) = SyncedOf(done)
  <2>1. RegionBehind(done, r)
    BY <1>7, MeantAppend, Zenon
  <2> QED
    BY <2>1, Zenon DEF RegionBehind
<1>9. PICK R \in Seq(RegionBlock) : R = RegionsOf(done)
  BY MeantTypes, Zenon
<1>10. Len(Append(R, r)) = Len(R) + 1
  OBVIOUS
<1>11. done \o Cons(r, todo) = Append(done, r) \o todo
  <2>1. MovesOn(done, r, todo)
    BY <1>7, MoveOn, Zenon
  <2> QED
    BY <2>1, Zenon DEF MovesOn
<1>12. Filled(Append(RegionsOf(done), r))'
  BY <1>1, <1>2, <1>6, Zenon DEF Filled
<1>13. cent' = Len(RegionsOf(Append(done, r)))
  BY <1>1, <1>2, <1>8, <1>9, <1>10, Zenon
<1>14. TopAt(Append(done, r), todo)'
  BY <1>1, <1>2, <1>4, <1>5, <1>6, <1>8, <1>11, <1>12, <1>13, Zenon DEF TopAt
<1> QED
  BY <1>7, <1>14, Zenon

LEMMA OpenSyncStep ==
  ASSUME NEW done \in Seq(Clear), NEW todo \in Seq(Clear),
         TopAt(done, todo), open_sync
  PROVE  \E types \in Seq(STRING), t \in Seq(Clear) :
           SyncAt(done, t, <<>>, types)'
<1>1. /\ Is(1, "sync") /\ Read(2) /\ conf' = conf
      /\ meant' = meant /\ cent' = cent /\ synctype' = synctype
  BY Zenon DEF open_sync
<1>2. /\ meant = done \o todo /\ Rest = TopRest(todo)
      /\ cent = Len(RegionsOf(done)) /\ synctype = SyncedOf(done)
      /\ Filled(RegionsOf(done))
  BY Zenon DEF TopAt
<1>3. PICK types \in Seq(STRING), t \in Seq(Clear) : SyncToCome(todo, types, t)
  BY <1>1, <1>2, SyncNext, Zenon
<1>4. todo = Cons(SyncOf(types), t) /\ Rest' = SyncRest(types, t)
  BY <1>1, <1>3, Zenon DEF SyncToCome
<1>5. <<>> \o types = types
  OBVIOUS
<1>6. SyncedOf(done) \o <<>> = SyncedOf(done)
  <2>1. PICK s \in Seq(STRING) : s = SyncedOf(done)
    BY MeantTypes, Zenon
  <2>2. s \o <<>> = s
    OBVIOUS
  <2> QED
    BY <2>1, <2>2, Zenon
<1>7. Filled(RegionsOf(done))'
  BY <1>1, <1>2, Zenon DEF Filled
<1>8. SyncAt(done, t, <<>>, types)'
  BY <1>1, <1>2, <1>4, <1>5, <1>6, <1>7, Zenon DEF SyncAt
<1> QED
  BY <1>8, Zenon

LEMMA SyncItemStep ==
  ASSUME NEW done \in Seq(Clear), NEW todo \in Seq(Clear),
         NEW got \in Seq(STRING), NEW left \in Seq(STRING),
         SyncAt(done, todo, got, left), sync_item
  PROVE  \E type \in STRING, l \in Seq(STRING) :
           SyncAt(done, todo, Append(got, type), l)'
<1>1. /\ gettoken(1)[1] = "type" /\ Read(3)
      /\ synctype' = Append(synctype, Buf(3))
      /\ meant' = meant /\ cent' = cent /\ conf' = conf
  BY Zenon DEF sync_item, Is
<1>2. /\ meant = done \o Cons(SyncOf(got \o left), todo)
      /\ Rest = SyncRest(left, todo)
      /\ cent = Len(RegionsOf(done)) /\ synctype = SyncedOf(done) \o got
      /\ Filled(RegionsOf(done))
  BY Zenon DEF SyncAt
<1>3. PICK type \in STRING, l \in Seq(STRING) : TypeToCome(left, todo, type, l)
  <2>1. ~EndToCome(left, todo)
    <3>1. "}" # "type"
      BY Zenon
    <3> QED
      BY <1>1, <3>1, Braces, Zenon DEF EndToCome
  <2> QED
    BY <1>2, <2>1, SyncTokens, Zenon
<1>4. /\ left = Cons(type, l) /\ Buf(3) = type /\ Rest' = SyncRest(l, todo)
  BY <1>1, <1>3, Zenon DEF TypeToCome
<1>5. got \o left = Append(got, type) \o l
  <2>1. got \o Cons(type, l) = Append(got, type) \o l
    <3>1. MovesOn(got, type, l)
      BY MoveOn, Zenon
    <3> QED
      BY <3>1, Zenon DEF MovesOn
  <2> QED
    BY <1>4, <2>1, Zenon
<1>6. Append(SyncedOf(done) \o got, type) = SyncedOf(done) \o Append(got, type)
  <2>1. SyncedOf(done) \in Seq(STRING)
    BY MeantTypes, Zenon
  <2>2. got \in Seq(STRING) /\ type \in STRING
    OBVIOUS
  <2> QED
    BY <2>1, <2>2, AppendStrings, Zenon DEF Appends
<1>7. Filled(RegionsOf(done))'
  BY <1>1, <1>2, Zenon DEF Filled
<1>8. SyncAt(done, todo, Append(got, type), l)'
  BY <1>1, <1>2, <1>4, <1>5, <1>6, <1>7, Zenon DEF SyncAt
<1> QED
  BY <1>8, Zenon

LEMMA CloseSyncStep ==
  ASSUME NEW done \in Seq(Clear), NEW todo \in Seq(Clear),
         NEW got \in Seq(STRING), NEW left \in Seq(STRING),
         SyncAt(done, todo, got, left), close_sync
  PROVE  \E b \in Clear : TopAt(Append(done, b), todo)'
<1>1. /\ Is(1, "}") /\ Read(1) /\ cent' = cent
      /\ meant' = meant /\ conf' = conf /\ synctype' = synctype
  BY Zenon DEF close_sync
<1>2. /\ meant = done \o Cons(SyncOf(got \o left), todo)
      /\ Rest = SyncRest(left, todo)
      /\ cent = Len(RegionsOf(done)) /\ synctype = SyncedOf(done) \o got
      /\ Filled(RegionsOf(done))
  BY Zenon DEF SyncAt
<1>3. EndToCome(left, todo)
  <2>1. gettoken(1)[1] = "}"
    BY <1>1, Zenon DEF Is
  <2>2. "}" # "type"
    BY Zenon
  <2>3. ASSUME NEW type, NEW l, TypeToCome(left, todo, type, l)
        PROVE  FALSE
    <3>1. gettoken(1) = Key("type")
      BY <2>3, Zenon DEF TypeToCome
    <3>2. gettoken(1)[1] = "type"
      BY <3>1, Kinds, Zenon
    <3> QED
      BY <2>1, <2>2, <3>2, Zenon
  <2> QED
    BY <1>2, <2>3, SyncTokens, Zenon
<1>4. left = <<>> /\ Rest' = TopRest(todo)
  BY <1>1, <1>3, Zenon DEF EndToCome
<1>5. got \o left = got
  BY <1>4
<1>6. PICK b \in SyncBlock : b = SyncOf(got) /\ b[2] = got
  BY OfFacts, Zenon
<1>7. b \in Clear
  BY BlockFacts
<1>8. /\ RegionsOf(Append(done, b)) = RegionsOf(done)
      /\ SyncedOf(Append(done, b)) = SyncedOf(done) \o got
  <2>1. SyncBehind(done, b)
    BY <1>7, MeantAppend, Zenon
  <2> QED
    BY <1>6, <2>1, Zenon DEF SyncBehind
<1>9. done \o Cons(b, todo) = Append(done, b) \o todo
  <2>1. MovesOn(done, b, todo)
    BY <1>7, MoveOn, Zenon
  <2> QED
    BY <2>1, Zenon DEF MovesOn
<1>10. Filled(RegionsOf(done))'
  BY <1>1, <1>2, Zenon DEF Filled
<1>11. TopAt(Append(done, b), todo)'
  BY <1>1, <1>2, <1>4, <1>5, <1>6, <1>8, <1>9, <1>10, Zenon DEF TopAt
<1> QED
  BY <1>7, <1>11, Zenon

LEMMA EndOfFileStep ==
  ASSUME NEW done \in Seq(Clear), NEW todo \in Seq(Clear),
         TopAt(done, todo), end_of_file
  PROVE  /\ confent' = Len(Regions) /\ Filled(Regions)'
         /\ syncent' = Len(Synced) /\ synctype' = Synced
<1>1. /\ Is(1, "illegal") /\ confent' = cent /\ syncent' = Len(synctype)
      /\ meant' = meant /\ conf' = conf /\ synctype' = synctype
  BY Zenon DEF end_of_file
<1>2. /\ meant = done \o todo /\ Rest = TopRest(todo)
      /\ cent = Len(RegionsOf(done)) /\ synctype = SyncedOf(done)
      /\ Filled(RegionsOf(done))
  BY Zenon DEF TopAt
<1>3. NoneToCome(todo)
  <2>1. "illegal" # "region" /\ "illegal" # "sync"
    OBVIOUS
  <2>2. gettoken(1)[1] = "illegal"
    BY <1>1, Zenon DEF Is
  <2>3. \A name, items, t : ~RegionToCome(todo, name, items, t)
    BY <2>1, <2>2, Kinds, Zenon DEF RegionToCome
  <2>4. \A types, t : ~SyncToCome(todo, types, t)
    BY <2>1, <2>2, Kinds, Zenon DEF SyncToCome
  <2> QED
    BY <1>2, <2>3, <2>4, TopTokens, Zenon
<1>4. done \o todo = done
  <2>1. todo = <<>>
    BY <1>3, Zenon DEF NoneToCome
  <2> QED
    BY <2>1
<1>5. Regions = RegionsOf(done) /\ Synced = SyncedOf(done)
  BY <1>2, <1>4, Zenon DEF Regions, Synced
<1>6. Filled(Regions)'
  BY <1>1, <1>2, <1>5, Zenon DEF Filled, Regions
<1> QED
  BY <1>1, <1>2, <1>5, <1>6, Zenon

\* What a part of a file means is part of what the file means.
LEMMA Longer ==
  ASSUME NEW s \in Seq(Clear), NEW t \in Seq(Clear)
  PROVE  /\ Len(RegionsOf(s \o t)) >= Len(RegionsOf(s))
         /\ Len(SyncedOf(s \o t)) >= Len(SyncedOf(s))
<1>1. \A S : \A u, v \in Seq(S) : Len(u \o v) >= Len(u)
  OBVIOUS
<1>2. /\ RegionsOf(s \o t) = RegionsOf(s) \o RegionsOf(t)
      /\ SyncedOf(s \o t) = SyncedOf(s) \o SyncedOf(t)
  BY MeantConcat, Zenon
<1>3. /\ RegionsOf(s) \in Seq(RegionBlock) /\ RegionsOf(t) \in Seq(RegionBlock)
      /\ SyncedOf(s) \in Seq(STRING) /\ SyncedOf(t) \in Seq(STRING)
  BY MeantTypes, Zenon
<1> QED
  BY <1>1, <1>2, <1>3, Zenon

\* A file written by the grammar is refused only for its size.
LEMMA TopRefused ==
  ASSUME TablesInv, at = "top",
         NEW done \in Seq(Clear), NEW todo \in Seq(Clear),
         TopAt(done, todo), Refused
  PROVE  Len(Regions) > MAX_CONF
<1>1. \/ gettoken(1)[1] \notin {"region", "sync", "illegal"}
      \/ Is(1, "region") /\ cent = MAX_CONF
      \/ Is(1, "region") /\ ~Fits(2, "string", "{")
      \/ Is(1, "sync") /\ ~Is(2, "{")
  <2>1. "top" # "region" /\ "top" # "sync"
    OBVIOUS
  <2> QED
    BY <2>1, Zenon DEF Refused
<1>2. /\ meant = done \o todo /\ Rest = TopRest(todo)
      /\ cent = Len(RegionsOf(done))
  BY Zenon DEF TopAt
<1>3. "illegal" # "region" /\ "illegal" # "sync" /\ "region" # "sync"
  OBVIOUS
<1>4. CASE NoneToCome(todo)
  <2>1. gettoken(1)[1] = "illegal"
    BY <1>4, Kinds, Zenon DEF NoneToCome
  <2> QED
    BY <1>1, <1>3, <2>1, Zenon DEF Is
<1>5. ASSUME NEW types, NEW t, SyncToCome(todo, types, t)
      PROVE  FALSE
  <2>1. gettoken(1)[1] = "sync" /\ gettoken(2)[1] = "{"
    BY <1>5, Kinds, Braces, Zenon DEF SyncToCome
  <2> QED
    BY <1>1, <1>3, <2>1, Zenon DEF Is
<1>6. ASSUME NEW name \in PlainName, NEW items \in Seq(Item),
             NEW t \in Seq(Clear),
             RegionToCome(todo, name, items, t)
      PROVE  Len(Regions) > MAX_CONF
  <2>1. gettoken(1)[1] = "region" /\ gettoken(2)[1] = "string"
    BY <1>6, Kinds, Zenon DEF RegionToCome
  <2>2. cent = MAX_CONF
    BY <1>1, <1>3, <2>1, Zenon DEF Is, Fits
  <2>3. PICK r \in RegionBlock : r = RegionOf(name, items)
    BY OfFacts, Zenon
  <2>4. r \in Clear
    BY BlockFacts
  <2>5. meant = Append(done, r) \o t
    <3>1. done \o Cons(r, t) = Append(done, r) \o t
      <4>1. MovesOn(done, r, t)
        BY <2>4, MoveOn, Zenon
      <4> QED
        BY <4>1, Zenon DEF MovesOn
    <3> QED
      BY <1>2, <1>6, <2>3, <3>1, Zenon DEF RegionToCome
  <2>6. /\ RegionsOf(Append(done, r)) = Append(RegionsOf(done), r)
        /\ Append(done, r) \in Seq(Clear)
    <3>1. RegionBehind(done, r) /\ Append(done, r) \in Seq(Clear)
      BY <2>4, MeantAppend, Zenon
    <3> QED
      BY <3>1, Zenon DEF RegionBehind
  <2>7. Len(Regions) >= Len(Append(RegionsOf(done), r))
    BY <2>5, <2>6, Longer, Zenon DEF Regions
  <2>8. PICK R \in Seq(RegionBlock) : R = RegionsOf(done)
    BY MeantTypes, Zenon
  <2>9. Len(Append(R, r)) = Len(R) + 1 /\ Len(R) \in Nat
    OBVIOUS
  <2>10. Len(Regions) \in Nat
    <3>1. Append(done, r) \o t \in Seq(Clear)
      BY <2>6
    <3>2. Regions \in Seq(RegionBlock)
      BY <2>5, <3>1, MeantTypes, Zenon DEF Regions
    <3> QED
      BY <3>2
  <2>11. Len(Regions) >= MAX_CONF + 1 /\ MAX_CONF \in Nat
    BY <1>2, <2>2, <2>7, <2>8, <2>9
  <2> QED
    BY <2>10, <2>11
<1> QED
  BY <1>2, <1>4, <1>5, <1>6, TopTokens, Zenon

LEMMA RegionRefused ==
  ASSUME at = "region", NEW left \in Seq(Item), NEW todo \in Seq(Clear),
         Rest = RegionRest(left, todo), Refused
  PROVE  FALSE
<1>1. \/ gettoken(1)[1] \notin Items \cup {"}", "illegal"}
      \/ gettoken(1)[1] \in Items /\ ~Fits(2, "=", "string")
  <2>1. "top" # "region" /\ "region" # "sync"
    OBVIOUS
  <2> QED
    BY <2>1, Zenon DEF Refused
<1>2. "}" \notin Items
  BY Zenon DEF Items
<1>3. ~EndToCome(left, todo)
  BY <1>1, <1>2, Braces, Zenon DEF EndToCome
<1>4. ASSUME NEW item \in Item, NEW l, ItemToCome(left, todo, item, l)
      PROVE  FALSE
  <2>1. gettoken(1)[1] = item[1] /\ gettoken(2)[1] = "="
    BY <1>4, Kinds, Zenon DEF ItemToCome
  <2>2. item[1] \in Items
    BY DEF Item
  <2> QED
    BY <1>1, <2>1, <2>2, Zenon DEF Fits, Is
<1> QED
  BY <1>3, <1>4, RegionTokens, Zenon

LEMMA SyncRefused ==
  ASSUME TablesInv, at = "sync",
         NEW done \in Seq(Clear), NEW todo \in Seq(Clear),
         NEW got \in Seq(STRING), NEW left \in Seq(STRING),
         SyncAt(done, todo, got, left), Refused
  PROVE  Len(Synced) > MAX_SYNCFILES
<1>1. \/ gettoken(1)[1] \notin {"type", "}", "illegal"}
      \/ Is(1, "type") /\ ~Fits(2, "=", "string")
      \/ Is(1, "type") /\ Len(synctype) = MAX_SYNCFILES
  <2>1. "top" # "sync" /\ "region" # "sync"
    OBVIOUS
  <2> QED
    BY <2>1, Zenon DEF Refused
<1>2. /\ meant = done \o Cons(SyncOf(got \o left), todo)
      /\ Rest = SyncRest(left, todo) /\ synctype = SyncedOf(done) \o got
  BY Zenon DEF SyncAt
<1>3. "}" # "type"
  BY Zenon
<1>4. ~EndToCome(left, todo)
  BY <1>1, <1>3, Braces, Zenon DEF EndToCome, Is
<1>5. PICK type \in STRING, l \in Seq(STRING) : TypeToCome(left, todo, type, l)
  BY <1>2, <1>4, SyncTokens, Zenon
<1>6. gettoken(1)[1] = "type" /\ gettoken(2)[1] = "=" /\ left = Cons(type, l)
  BY <1>5, Kinds, Zenon DEF TypeToCome
<1>7. Len(synctype) = MAX_SYNCFILES
  BY <1>1, <1>6, Zenon DEF Fits, Is
<1>8. PICK types \in Seq(STRING) : types = got \o left
  <2>1. got \o left \in Seq(STRING)
    OBVIOUS
  <2> QED
    BY <2>1, Zenon
<1>9. PICK b \in SyncBlock : b = SyncOf(types) /\ b[2] = types
  BY OfFacts, Zenon
<1>10. b \in Clear
  BY BlockFacts
<1>11. meant = Append(done, b) \o todo
  <2>1. done \o Cons(b, todo) = Append(done, b) \o todo
    <3>1. MovesOn(done, b, todo)
      BY <1>10, MoveOn, Zenon
    <3> QED
      BY <3>1, Zenon DEF MovesOn
  <2> QED
    BY <1>2, <1>8, <1>9, <2>1, Zenon
<1>12. /\ SyncedOf(Append(done, b)) = SyncedOf(done) \o types
       /\ Append(done, b) \in Seq(Clear)
  <2>1. SyncBehind(done, b) /\ Append(done, b) \in Seq(Clear)
    BY <1>10, MeantAppend, Zenon
  <2> QED
    BY <1>9, <2>1, Zenon DEF SyncBehind
<1>13. Len(Synced) >= Len(SyncedOf(done) \o types)
  BY <1>11, <1>12, Longer, Zenon DEF Synced
<1>14. PICK s \in Seq(STRING) : s = SyncedOf(done)
  BY MeantTypes, Zenon
<1>15. /\ Len(s \o types) = Len(s) + Len(types)
       /\ Len(s \o got) = Len(s) + Len(got)
       /\ Len(types) = Len(got) + Len(left)
  BY <1>8
<1>16. Len(left) = Len(l) + 1 /\ Len(l) \in Nat
  <2>1. Len(Cons(type, l)) = Len(l) + 1
    BY ConsFacts
  <2> QED
    BY <1>6, <2>1
<1>17. Len(Synced) \in Nat
  <2>1. Append(done, b) \o todo \in Seq(Clear)
    BY <1>12
  <2>2. Synced \in Seq(STRING)
    BY <1>11, <2>1, MeantTypes, Zenon DEF Synced
  <2> QED
    BY <2>2
<1>18. Len(s) \in Nat /\ Len(got) \in Nat
  OBVIOUS
<1>19. Len(Synced) >= Len(s \o types) /\ Len(s \o got) = MAX_SYNCFILES
  BY <1>2, <1>7, <1>13, <1>14, Zenon
<1> QED
  BY <1>15, <1>16, <1>17, <1>18, <1>19

-----------------------------------------------------------------------------
(* The tables in use                                                       *)

Compiled(r) ==
  [Entry(r) EXCEPT !.preg = Value(r[3], "pattern") \notin BadPatterns]
InUse(regions) ==
  \A i \in 0..MAX_CONF :
    conf[i] = IF i < Len(regions) THEN Compiled(regions[i + 1]) ELSE Empty

LEMMA CompiledFields ==
  ASSUME NEW r
  PROVE  /\ Entry(r).items["pattern"] = Value(r[3], "pattern")
         /\ Compiled(r).area = r[2][3]
         /\ Compiled(r).items = [k \in Items |-> Value(r[3], k)]
         /\ Compiled(r).preg <=> Value(r[3], "pattern") \notin BadPatterns
<1> DEFINE f == [k \in Items |-> Value(r[3], k)]
<1>1. f["pattern"] = Value(r[3], "pattern")
  <2>1. "pattern" \in Items
    BY DEF Items
  <2> QED
    BY <2>1, Zenon
<1>2. PICK p, q : p = FALSE /\ q = (Value(r[3], "pattern") \notin BadPatterns)
  BY Zenon
<1> HIDE DEF f
<1>3. PICK e : e = [area |-> r[2][3], items |-> f, preg |-> p]
  BY Zenon
<1>4. Entry(r) = e
  BY <1>2, <1>3, Zenon DEF Entry, f
<1>5. e.items = f
  BY <1>3, RecordFields
<1>6. [e EXCEPT !.preg = q] = [area |-> r[2][3], items |-> f, preg |-> q]
  BY <1>3, RecordPreg
<1>7. Compiled(r) = [area |-> r[2][3], items |-> f, preg |-> q]
  BY <1>2, <1>4, <1>6, Zenon DEF Compiled
<1>8. Compiled(r).area = r[2][3] /\ Compiled(r).items = f /\ Compiled(r).preg = q
  BY <1>7, RecordFields
<1>9. Compiled(r).preg <=> Value(r[3], "pattern") \notin BadPatterns
  BY <1>2, <1>8, Zenon
<1> QED
  BY <1>1, <1>4, <1>5, <1>8, <1>9, Zenon DEF f

LEMMA RegexInitStep ==
  ASSUME TablesInv, NEW R \in Seq(RegionBlock), confent = Len(R), Filled(R),
         regex_init
  PROVE  InUse(R)'
<1>1. conf' = [i \in 0..MAX_CONF |->
                 [conf[i] EXCEPT !.preg =
                    i < confent
                      /\ conf[i].items["pattern"] \notin BadPatterns]]
  BY Zenon DEF regex_init
<1>2. ASSUME NEW i \in 0..MAX_CONF
      PROVE  conf'[i] = IF i < Len(R) THEN Compiled(R[i + 1]) ELSE Empty
  <2>1. conf'[i] = [conf[i] EXCEPT !.preg =
                      i < confent
                        /\ conf[i].items["pattern"] \notin BadPatterns]
    BY <1>1, Zenon
  <2>2. CASE i < Len(R)
    <3>1. conf[i] = Entry(R[i + 1])
      BY <2>2, Zenon DEF Filled
    <3>2. (i < confent /\ conf[i].items["pattern"] \notin BadPatterns)
            = (Value(R[i + 1][3], "pattern") \notin BadPatterns)
      <4>1. conf[i].items["pattern"] = Value(R[i + 1][3], "pattern")
        BY <3>1, CompiledFields, Zenon
      <4>2. i < confent
        BY <2>2, Zenon
      <4> QED
        BY <4>1, <4>2, Zenon
    <3> QED
      BY <2>1, <2>2, <3>1, <3>2, Zenon DEF Compiled
  <2>3. CASE ~(i < Len(R))
    <3>1. conf[i] = Empty
      BY <2>3, Zenon DEF Filled
    <3>2. (i < confent /\ conf[i].items["pattern"] \notin BadPatterns) = FALSE
      BY <2>3, Zenon
    <3>3. conf'[i] = [Empty EXCEPT !.preg = FALSE]
      BY <2>1, <3>1, <3>2, Zenon
    <3>4. [Empty EXCEPT !.preg = FALSE] = Empty
      BY EmptyStays, Zenon
    <3> QED
      BY <2>3, <3>3, <3>4, Zenon
  <2> QED
    BY <2>2, <2>3
<1> QED
  BY <1>2, Zenon DEF InUse

Ends(name, j) ==
  \/ conf[j].area = Unset \/ ~conf[j].preg
  \/ Matches(conf[j].items["pattern"], name)

\* The walk ends, at the first entry where it may.
LEMMA WalkEnds ==
  ASSUME TablesInv, NEW name
  PROVE  /\ WalkEnd(name) \in 0..MAX_CONF /\ Ends(name, WalkEnd(name))
         /\ \A j \in 0..(WalkEnd(name) - 1) : ~Ends(name, j)
<1> DEFINE E == {j \in 0..MAX_CONF : Ends(name, j)}
<1>1. MAX_CONF \in Nat
  BY ConfigAssumption
<1>2. MAX_CONF \in E
  <2>1. conf[MAX_CONF].area = Unset
    BY DEF TablesInv, Empty
  <2> QED
    BY <1>1, <2>1 DEF Ends
<1>3. PICK w \in E : \A j \in E : w <= j
  <2>1. E \subseteq Nat /\ E # {}
    BY <1>2
  <2> HIDE DEF E
  <2> QED
    BY <2>1, LeastMember
<1>4. \A j \in 0..(w - 1) : ~Ends(name, j)
  <2> SUFFICES ASSUME NEW j \in 0..(w - 1), Ends(name, j)
               PROVE  FALSE
    OBVIOUS
  <2>1. j \in 0..MAX_CONF /\ ~(w <= j)
    BY <1>1
  <2> QED
    BY <1>3, <2>1
<1>5. w \in 0..MAX_CONF /\ Ends(name, w)
  OBVIOUS
<1>6. WalkEnd(name) = CHOOSE i \in 0..MAX_CONF :
                        Ends(name, i) /\ \A j \in 0..(i - 1) : ~Ends(name, j)
  BY Zenon DEF WalkEnd, Ends
<1> HIDE DEF E
<1> QED
  BY <1>4, <1>5, <1>6, Zenon

\* Where the walk ends in the tables of a file that was meant.
LEMMA WalkFacts ==
  ASSUME TablesInv, NEW R \in Seq(RegionBlock), Len(R) <= MAX_CONF, InUse(R),
         NEW name, NEW w, w = WalkEnd(name)
  PROVE  /\ w \in 0..Len(R)
         /\ w = Len(R) => conf[w].area = Unset
         /\ w < Len(R) => /\ conf[w].area = R[w + 1][2][3]
                          /\ conf[w].items
                               = [k \in Items |-> Value(R[w + 1][3], k)]
                          /\ conf[w].preg <=>
                               Value(R[w + 1][3], "pattern") \notin BadPatterns
<1>1. PICK n \in Nat : n = Len(R)
  OBVIOUS
<1>2. MAX_CONF \in Nat /\ n \in 0..MAX_CONF
  BY <1>1, ConfigAssumption
<1>3. /\ w \in 0..MAX_CONF /\ \A j \in 0..(w - 1) : ~Ends(name, j)
  BY WalkEnds, Zenon
<1>4. conf[n] = Empty
  <2>1. ~(n < n)
    OBVIOUS
  <2> QED
    BY <1>1, <1>2, <2>1, Zenon DEF InUse
<1>5. conf[n].area = Unset
  BY <1>4 DEF Empty
<1>6. Ends(name, n)
  BY <1>5, Zenon DEF Ends
<1>7. w \in 0..n
  <2>1. n \notin 0..(w - 1)
    BY <1>3, <1>6, Zenon
  <2> QED
    BY <1>2, <1>3, <2>1
<1>8. ASSUME w < n
      PROVE  conf[w] = Compiled(R[w + 1])
  BY <1>1, <1>3, <1>8, Zenon DEF InUse
<1>9. w < n => /\ conf[w].area = R[w + 1][2][3]
               /\ conf[w].items = [k \in Items |-> Value(R[w + 1][3], k)]
               /\ conf[w].preg <=>
                    Value(R[w + 1][3], "pattern") \notin BadPatterns
  <2>1. /\ Compiled(R[w + 1]).area = R[w + 1][2][3]
        /\ Compiled(R[w + 1]).items
             = [k \in Items |-> Value(R[w + 1][3], k)]
        /\ Compiled(R[w + 1]).preg <=>
             Value(R[w + 1][3], "pattern") \notin BadPatterns
    BY CompiledFields, Zenon
  <2> QED
    BY <1>8, <2>1, Zenon
<1> QED
  BY <1>1, <1>5, <1>7, <1>9, Zenon

\* The first entry that matches is that of the first region that matches.
LEMMA WalkIsMeant ==
  ASSUME TablesInv, Len(Regions) <= MAX_CONF, InUse(Regions),
         Regions \in Seq(RegionBlock), Compilable, Named,
         NEW name, NEW c, c = conf[WalkEnd(name)]
  PROVE  (IF c.area = Unset \/ ~c.preg THEN NoRule ELSE c.items)
           = MeantFor(name)
<1>1. PICK R \in Seq(RegionBlock), n \in Nat : R = Regions /\ n = Len(R)
  OBVIOUS
<1>2. PICK w : w = WalkEnd(name)
  BY Zenon
<1>3. /\ w \in 0..n
      /\ w = n => conf[w].area = Unset
      /\ w < n => /\ conf[w].area = R[w + 1][2][3]
                  /\ conf[w].items = [k \in Items |-> Value(R[w + 1][3], k)]
                  /\ conf[w].preg <=>
                       Value(R[w + 1][3], "pattern") \notin BadPatterns
  <2>1. Len(R) <= MAX_CONF /\ InUse(R)
    BY <1>1, Zenon
  <2>2. /\ w \in 0..Len(R)
        /\ w = Len(R) => conf[w].area = Unset
        /\ w < Len(R) => /\ conf[w].area = R[w + 1][2][3]
                         /\ conf[w].items
                              = [k \in Items |-> Value(R[w + 1][3], k)]
                         /\ conf[w].preg <=>
                              Value(R[w + 1][3], "pattern") \notin BadPatterns
    BY <1>2, <2>1, WalkFacts
  <2> QED
    BY <1>1, <2>2, Zenon
<1>4. /\ Ends(name, w) /\ \A j \in 0..(w - 1) : ~Ends(name, j)
  BY <1>2, WalkEnds, Zenon
<1>5. \A i \in 1..n : /\ R[i][2][3] # Unset
                      /\ Rule(i)["pattern"] \notin BadPatterns
                      /\ Rule(i) = [k \in Items |-> Value(R[i][3], k)]
                      /\ Rule(i)["pattern"] = Value(R[i][3], "pattern")
  <2>1. "pattern" \in Items
    BY DEF Items
  <2> QED
    BY <1>1, <2>1, Zenon DEF Compilable, Named, Rule
<1> DEFINE I == {i \in 1..n : Matches(Value(R[i][3], "pattern"), name)}
<1>6. MeantFor(name) =
        IF I # {} THEN (IF Min(I) = 0 THEN NoRule ELSE Rule(Min(I)))
        ELSE NoRule
  BY <1>1, Zenon DEF MeantFor, SelectInSeq
<1>7. \A j \in 0..(n - 1) :
        j < w => ~Matches(Value(R[j + 1][3], "pattern"), name)
  <2> TAKE j \in 0..(n - 1)
  <2> HAVE j < w
  <2>1. j \in 0..(w - 1) /\ j \in 0..MAX_CONF /\ j < n
    BY <1>1, <1>3, ConfigAssumption
  <2>2. conf[j] = Compiled(R[j + 1])
    BY <1>1, <2>1, Zenon DEF InUse
  <2>3. conf[j].items["pattern"] = Value(R[j + 1][3], "pattern")
    <3>1. conf[j].items = [k \in Items |-> Value(R[j + 1][3], k)]
      BY <2>2, CompiledFields, Zenon
    <3>2. "pattern" \in Items
      BY DEF Items
    <3> QED
      BY <3>1, <3>2, Zenon
  <2> QED
    BY <1>4, <2>1, <2>3, Zenon DEF Ends
<1>8. CASE w = n
  <2>1. I = {}
    <3> SUFFICES ASSUME NEW i \in 1..n, Matches(Value(R[i][3], "pattern"), name)
                 PROVE  FALSE
      OBVIOUS
    <3>1. i - 1 \in 0..(n - 1) /\ i - 1 < w /\ (i - 1) + 1 = i
      BY <1>8
    <3> QED
      BY <1>7, <3>1, Zenon
  <2> QED
    BY <1>2, <1>3, <1>6, <1>8, <2>1, Zenon
<1>9. CASE w # n
  <2>1. w < n /\ w + 1 \in 1..n /\ w + 1 # 0
    BY <1>3, <1>9
  <2>2. conf[w].area # Unset /\ conf[w].preg
    BY <1>3, <1>5, <2>1, Zenon
  <2>3. conf[w].items["pattern"] = Value(R[w + 1][3], "pattern")
    <3>1. conf[w].items = [k \in Items |-> Value(R[w + 1][3], k)]
      BY <1>3, <2>1, Zenon
    <3>2. "pattern" \in Items
      BY DEF Items
    <3> QED
      BY <3>1, <3>2, Zenon
  <2>4. w + 1 \in I
    BY <1>4, <2>1, <2>2, <2>3, Zenon DEF Ends
  <2>5. I \subseteq Nat /\ \A i \in I : w + 1 <= i
    <3>1. \A i \in I : w + 1 <= i
      <4> SUFFICES ASSUME NEW i \in 1..n, ~(w + 1 <= i),
                          Matches(Value(R[i][3], "pattern"), name)
                   PROVE  FALSE
        OBVIOUS
      <4>1. i - 1 \in 0..(n - 1) /\ i - 1 < w /\ (i - 1) + 1 = i
        BY <2>1, <1>3
      <4> QED
        BY <1>7, <4>1, Zenon
    <3>2. I \subseteq Nat
      OBVIOUS
    <3> QED
      BY <3>1, <3>2
  <2> HIDE DEF I
  <2>6. Min(I) = w + 1 /\ I # {}
    <3>1. Min(I) = w + 1
      BY <2>4, <2>5, MinIs, Zenon
    <3> QED
      BY <2>4, <3>1
  <2>7. MeantFor(name) = Rule(w + 1)
    BY <1>6, <2>1, <2>6, Zenon
  <2>8. conf[w].items = Rule(w + 1)
    BY <1>3, <1>5, <2>1, Zenon
  <2> QED
    BY <1>2, <2>2, <2>7, <2>8, Zenon
<1> QED
  BY <1>8, <1>9

\* The list of types that is asked is the list that was meant.
LEMMA SyncIsMeant ==
  ASSUME NEW t, Synced \in Seq(STRING), synctype = Synced, syncent = Len(Synced)
  PROVE  sync_entry(t) = SelectInSeq(Synced, LAMBDA s : s = t)
<1>1. SubSeq(Synced, 1, Len(Synced)) = Synced
  <2>1. PICK s \in Seq(STRING) : s = Synced
    OBVIOUS
  <2>2. SubSeq(s, 1, Len(s)) = s
    BY SubSeqFull, Zenon
  <2> QED
    BY <2>1, <2>2, Zenon
<1>2. SubSeq(synctype, 1, syncent) = Synced
  BY <1>1, Zenon
<1> QED
  BY <1>2, Zenon DEF sync_entry, SelectInSeq

-----------------------------------------------------------------------------
(* The theorem                                                             *)

AnswersMeant ==
  Compilable /\ Named /\ answer[1] # "" => answer[2] = MeantFor(answer[1])

\* A configuration, with names that are read as they are meant.
Readable == meant # <<"nothing">> /\ AllPlain

MeaningInv ==
  Readable =>
    /\ ReadInv
    /\ at \notin {"runs", "crashed"} => answer[1] = ""
    /\ at = "runs" =>
         /\ Len(Regions) <= MAX_CONF /\ InUse(Regions)
         /\ syncent = Len(Synced) /\ synctype = Synced
         /\ AnswersMeant
    /\ at = "crashed" => ~Compilable

\* What is meant does not change.
LEMMA MeantStays ==
  ASSUME meant' = meant
  PROVE  /\ Regions' = Regions /\ Synced' = Synced
         /\ Compilable' <=> Compilable
         /\ Named' <=> Named
         /\ Readable' <=> Readable
         /\ \A name : MeantFor(name)' = MeantFor(name)
<1>1. Regions' = Regions /\ Synced' = Synced
  BY Zenon DEF Regions, Synced
<1>2. \A i : Rule(i)' = Rule(i)
  BY <1>1, Zenon DEF Rule
<1>3. (Compilable' <=> Compilable) /\ (Named' <=> Named)
  BY <1>1, <1>2, Zenon DEF Compilable, Named
<1>4. \A name : MeantFor(name)' = MeantFor(name)
  BY <1>1, <1>2, Zenon DEF MeantFor, SelectInSeq, Matches
<1>5. Readable' <=> Readable
  BY Zenon DEF Readable, AllPlain
<1> QED
  BY <1>1, <1>3, <1>4, <1>5, Zenon

\* With plain names a file is a sequence of clear blocks.
LEMMA PlainFile ==
  ASSUME meant \in Seq(Block), AllPlain
  PROVE  meant \in Seq(Clear)
<1>1. PICK n \in Nat : n = Len(meant) /\ meant \in [1..n -> Block]
  OBVIOUS
<1>2. ASSUME NEW i \in 1..n
      PROVE  meant[i] \in Clear
  <2>1. PICK b \in Block : b = meant[i]
    BY <1>1
  <2>2. Region(b) => Plain(b[2])
    BY <1>1, <2>1, Zenon DEF AllPlain
  <2>3. CASE b \in {"region"} \X Name \X Seq(Items \X STRING)
    <3>1. /\ Region(b) /\ b[2] \in Name /\ b[3] \in Seq(Item)
          /\ b = <<"region", b[2], b[3]>>
      BY <2>3 DEF Region, Item
    <3>2. b[2] \in PlainName
      BY <2>2, <3>1, Zenon DEF PlainName
    <3>3. RegionOf(b[2], b[3]) \in RegionBlock
      BY <3>1, <3>2, OfFacts, Zenon
    <3>4. b \in RegionBlock
      BY <3>1, <3>3, Zenon DEF RegionOf
    <3> QED
      BY <2>1, <3>4, Zenon DEF Clear
  <2>4. CASE b \in {"sync"} \X Seq(STRING)
    BY <2>1, <2>4, Zenon DEF SyncBlock, Clear
  <2> QED
    BY <2>1, <2>3, <2>4, Zenon DEF Block
<1>3. meant \in [1..n -> Clear]
  BY <1>1, <1>2
<1> QED
  BY <1>3

LEMMA MeaningInit == CInit => MeaningInv
<1> SUFFICES ASSUME CInit, Readable
             PROVE  MeaningInv
  BY Zenon DEF MeaningInv
<1>1. /\ meant \in Files /\ text = Printed(meant) /\ at = "top" /\ cent = 0
      /\ synctype = <<>> /\ conf = [i \in 0..MAX_CONF |-> Empty]
      /\ answer = <<"", NoRule>>
  BY Zenon DEF CInit, Readable
<1>2. PICK todo \in Seq(Clear) : todo = meant
  BY <1>1, ConfigAssumption, PlainFile, Zenon DEF Readable
<1>3. <<>> \in Seq(Clear) /\ <<>> \o todo = todo
  OBVIOUS
<1>4. Rest = TopRest(todo)
  BY <1>1, <1>2, Zenon DEF Rest, TopRest
<1>5. Len(<<>>) = 0 /\ ~\E i \in 0..MAX_CONF : i < 0
  BY ConfigAssumption
<1>6. Filled(<<>>)
  BY <1>1, <1>5, Zenon DEF Filled
<1>7. TopAt(<<>>, todo)
  BY <1>1, <1>2, <1>3, <1>4, <1>5, <1>6, MeantEmpty, Zenon DEF TopAt
<1>8. /\ "top" # "region" /\ "top" # "sync" /\ "top" # "regcomp"
      /\ "top" # "runs" /\ "top" # "exit" /\ "top" # "crashed"
  OBVIOUS
<1>9. ReadInv
  BY <1>1, <1>2, <1>3, <1>7, <1>8, Zenon DEF ReadInv
<1>10. answer[1] = ""
  BY <1>1
<1> QED
  BY <1>1, <1>8, <1>9, <1>10, Zenon DEF MeaningInv

LEMMA MeaningStutter == MeaningInv /\ UNCHANGED cvars => MeaningInv'
<1> SUFFICES ASSUME MeaningInv, UNCHANGED cvars
             PROVE  MeaningInv'
  OBVIOUS
<1>1. /\ meant' = meant /\ text' = text /\ at' = at /\ conf' = conf
      /\ cent' = cent /\ confent' = confent /\ synctype' = synctype
      /\ syncent' = syncent /\ answer' = answer
  BY DEF cvars
<1>2. /\ Regions' = Regions /\ Synced' = Synced
      /\ Compilable' <=> Compilable
      /\ Named' <=> Named
      /\ Readable' <=> Readable
      /\ \A name : MeantFor(name)' = MeantFor(name)
  BY <1>1, MeantStays, Zenon
<1>3. Rest' = Rest
  BY <1>1, Zenon DEF Rest, Skipped
<1>4. \A R : (Filled(R)' <=> Filled(R)) /\ (InUse(R)' <=> InUse(R))
  BY <1>1, Zenon DEF Filled, InUse
<1>5. \A done, todo : TopAt(done, todo)' <=> TopAt(done, todo)
  BY <1>1, <1>3, <1>4, Zenon DEF TopAt
<1>6. \A done, todo, name, got, left :
        RegionAt(done, todo, name, got, left)'
          <=> RegionAt(done, todo, name, got, left)
  <2> TAKE done, todo, name, got, left
  <2> DEFINE F == Append(RegionsOf(done), RegionOf(name, got))
  <2>1. Filled(F)' <=> Filled(F)
    BY <1>4, Zenon
  <2> QED
    BY <1>1, <1>3, <2>1, Zenon DEF RegionAt
<1>7. \A done, todo, got, left :
        SyncAt(done, todo, got, left)' <=> SyncAt(done, todo, got, left)
  BY <1>1, <1>3, <1>4, Zenon DEF SyncAt
<1>8. AnswersMeant' <=> AnswersMeant
  BY <1>1, <1>2, Zenon DEF AnswersMeant
<1>9. Filled(Regions)' <=> Filled(Regions)
  BY <1>1, <1>2, Zenon DEF Filled
<1>10. InUse(Regions)' <=> InUse(Regions)
  BY <1>1, <1>2, Zenon DEF InUse
<1>11. ReadInv' <=> ReadInv
  BY <1>1, <1>2, <1>5, <1>6, <1>7, <1>9, Zenon DEF ReadInv
<1> QED
  BY <1>1, <1>2, <1>8, <1>10, <1>11, Zenon DEF MeaningInv

\* What a step has to leave, told from where it leaves readconf.
LEMMA MeaningNext ==
  ASSUME MeaningInv, TablesInv, Readable, meant' = meant,
         at \notin {"runs", "crashed"},
         at' \in {"top", "region", "sync", "regcomp", "exit"}, answer' = answer,
         at' = "top" =>
           \E done, todo \in Seq(Clear) : TopAt(done, todo)',
         at' = "region" =>
           \E done, todo \in Seq(Clear), name \in PlainName,
              got, left \in Seq(Item) :
             RegionAt(done, todo, name, got, left)',
         at' = "sync" =>
           \E done, todo \in Seq(Clear), got, left \in Seq(STRING) :
             SyncAt(done, todo, got, left)',
         at' = "regcomp" =>
           /\ confent' = Len(Regions) /\ Filled(Regions)'
           /\ syncent' = Len(Synced) /\ synctype' = Synced,
         at' = "exit" =>
           Len(Regions) > MAX_CONF \/ Len(Synced) > MAX_SYNCFILES
  PROVE  MeaningInv'
<1>1. /\ meant' \in Seq(Clear) /\ answer'[1] = ""
  BY Zenon DEF MeaningInv, ReadInv
<1>2. Regions' = Regions /\ Synced' = Synced
  BY MeantStays, Zenon
<1>3. ReadInv'
  BY <1>1, <1>2, Zenon DEF ReadInv
<1>4. at' # "runs" /\ at' # "crashed"
  OBVIOUS
<1> QED
  BY <1>1, <1>3, <1>4, Zenon DEF MeaningInv

LEMMA MeaningStep ==
  MeaningInv /\ TablesInv /\ TablesInv' /\ [CNext]_cvars => MeaningInv'
<1> SUFFICES ASSUME MeaningInv, TablesInv, TablesInv', CNext,
                    Readable, meant' = meant
             PROVE  MeaningInv'
  <2>1. CNext => meant' = meant
    BY Zenon DEF CNext, open_region, region_item, close_region, open_sync,
       sync_item, close_sync, cut_block, end_of_file, format_error,
       regex_init, regex_match
  <2>2. meant' = meant /\ ~Readable => MeaningInv'
    BY MeantStays, Zenon DEF MeaningInv
  <2> QED
    BY <2>1, <2>2, MeaningStutter, Zenon
<1>0. /\ ReadInv
      /\ at \notin {"runs", "crashed"} => answer[1] = ""
      /\ at = "runs" =>
           /\ Len(Regions) <= MAX_CONF /\ InUse(Regions)
           /\ syncent = Len(Synced) /\ synctype = Synced
           /\ AnswersMeant
  BY Zenon DEF MeaningInv
<1>1. /\ meant \in Seq(Clear) /\ Regions \in Seq(RegionBlock)
      /\ Synced \in Seq(STRING)
  <2>1. meant \in Seq(Clear)
    BY <1>0, Zenon DEF ReadInv
  <2> QED
    BY <2>1, MeantTypes, Zenon DEF Regions, Synced
<1>2. CASE open_region
  <2>1. at = "top" /\ at' = "region" /\ answer' = answer
    BY <1>2, Zenon DEF open_region
  <2>2. PICK done \in Seq(Clear), todo \in Seq(Clear) : TopAt(done, todo)
    BY <1>0, <2>1, Zenon DEF ReadInv
  <2>3. PICK name \in PlainName, items \in Seq(Item), t \in Seq(Clear) :
          RegionAt(done, t, name, <<>>, items)'
    BY <1>2, <2>2, OpenRegionStep, Zenon
  <2>4. <<>> \in Seq(Item)
    OBVIOUS
  <2>5. /\ at \notin {"runs", "crashed"} /\ at' # "top" /\ at' # "sync"
        /\ at' # "regcomp" /\ at' # "exit"
        /\ at' \in {"top", "region", "sync", "regcomp", "exit"}
    BY <2>1
  <2> QED
    BY <2>1, <2>3, <2>4, <2>5, MeaningNext, Zenon
<1>3. CASE region_item
  <2>1. at = "region" /\ at' = "region" /\ answer' = answer
    BY <1>3, Zenon DEF region_item
  <2>2. PICK done \in Seq(Clear), todo \in Seq(Clear), name \in PlainName,
             got \in Seq(Item), left \in Seq(Item) :
          RegionAt(done, todo, name, got, left)
    BY <1>0, <2>1, Zenon DEF ReadInv
  <2>3. PICK item \in Item, l \in Seq(Item) :
          RegionAt(done, todo, name, Append(got, item), l)'
    BY <1>3, <2>1, <2>2, RegionItemStep, Zenon
  <2>4. Append(got, item) \in Seq(Item)
    OBVIOUS
  <2>5. /\ at \notin {"runs", "crashed"} /\ at' # "top" /\ at' # "sync"
        /\ at' # "regcomp" /\ at' # "exit"
        /\ at' \in {"top", "region", "sync", "regcomp", "exit"}
    BY <2>1
  <2> QED
    BY <2>1, <2>3, <2>4, <2>5, MeaningNext, Zenon
<1>4. CASE close_region
  <2>1. at = "region" /\ at' = "top" /\ answer' = answer
    BY <1>4, Zenon DEF close_region
  <2>2. PICK done \in Seq(Clear), todo \in Seq(Clear), name \in PlainName,
             got \in Seq(Item), left \in Seq(Item) :
          RegionAt(done, todo, name, got, left)
    BY <1>0, <2>1, Zenon DEF ReadInv
  <2>3. PICK b \in Clear : TopAt(Append(done, b), todo)'
    BY <1>4, <2>2, CloseRegionStep, Zenon
  <2>4. Append(done, b) \in Seq(Clear)
    OBVIOUS
  <2>5. /\ at \notin {"runs", "crashed"} /\ at' # "region" /\ at' # "sync"
        /\ at' # "regcomp" /\ at' # "exit"
        /\ at' \in {"top", "region", "sync", "regcomp", "exit"}
    BY <2>1
  <2> QED
    BY <2>1, <2>3, <2>4, <2>5, MeaningNext, Zenon
<1>5. CASE open_sync
  <2>1. at = "top" /\ at' = "sync" /\ answer' = answer
    BY <1>5, Zenon DEF open_sync
  <2>2. PICK done \in Seq(Clear), todo \in Seq(Clear) : TopAt(done, todo)
    BY <1>0, <2>1, Zenon DEF ReadInv
  <2>3. PICK types \in Seq(STRING), t \in Seq(Clear) :
          SyncAt(done, t, <<>>, types)'
    BY <1>5, <2>2, OpenSyncStep, Zenon
  <2>4. <<>> \in Seq(STRING)
    OBVIOUS
  <2>5. /\ at \notin {"runs", "crashed"} /\ at' # "top" /\ at' # "region"
        /\ at' # "regcomp" /\ at' # "exit"
        /\ at' \in {"top", "region", "sync", "regcomp", "exit"}
    BY <2>1
  <2> QED
    BY <2>1, <2>3, <2>4, <2>5, MeaningNext, Zenon
<1>6. CASE sync_item
  <2>1. at = "sync" /\ at' = "sync" /\ answer' = answer
    BY <1>6, Zenon DEF sync_item
  <2>2. PICK done \in Seq(Clear), todo \in Seq(Clear), got \in Seq(STRING),
             left \in Seq(STRING) : SyncAt(done, todo, got, left)
    BY <1>0, <2>1, Zenon DEF ReadInv
  <2>3. PICK type \in STRING, l \in Seq(STRING) :
          SyncAt(done, todo, Append(got, type), l)'
    BY <1>6, <2>2, SyncItemStep, Zenon
  <2>4. Append(got, type) \in Seq(STRING)
    BY AppendProperties, Zenon
  <2>5. /\ at \notin {"runs", "crashed"} /\ at' # "top" /\ at' # "region"
        /\ at' # "regcomp" /\ at' # "exit"
        /\ at' \in {"top", "region", "sync", "regcomp", "exit"}
    BY <2>1
  <2> QED
    BY <2>1, <2>3, <2>4, <2>5, MeaningNext, Zenon
<1>7. CASE close_sync
  <2>1. at = "sync" /\ at' = "top" /\ answer' = answer
    BY <1>7, Zenon DEF close_sync
  <2>2. PICK done \in Seq(Clear), todo \in Seq(Clear), got \in Seq(STRING),
             left \in Seq(STRING) : SyncAt(done, todo, got, left)
    BY <1>0, <2>1, Zenon DEF ReadInv
  <2>3. PICK b \in Clear : TopAt(Append(done, b), todo)'
    BY <1>7, <2>2, CloseSyncStep, Zenon
  <2>4. Append(done, b) \in Seq(Clear)
    OBVIOUS
  <2>5. /\ at \notin {"runs", "crashed"} /\ at' # "region" /\ at' # "sync"
        /\ at' # "regcomp" /\ at' # "exit"
        /\ at' \in {"top", "region", "sync", "regcomp", "exit"}
    BY <2>1
  <2> QED
    BY <2>1, <2>3, <2>4, <2>5, MeaningNext, Zenon
<1>8. CASE cut_block
  <2>1. at \in {"region", "sync"} /\ gettoken(1)[1] = "illegal"
    BY <1>8, Zenon DEF cut_block, Is
  <2>2. "illegal" \notin Items /\ "illegal" # "}" /\ "illegal" # "type"
    BY Zenon DEF Items
  <2>3. \A left, todo : ~EndToCome(left, todo)
    BY <2>1, <2>2, Braces, Zenon DEF EndToCome
  <2>4. CASE at = "region"
    <3>1. PICK done \in Seq(Clear), todo \in Seq(Clear), name \in PlainName,
               got \in Seq(Item), left \in Seq(Item) :
            RegionAt(done, todo, name, got, left)
      BY <1>0, <2>4, Zenon DEF ReadInv
    <3>2. Rest = RegionRest(left, todo)
      BY <3>1, Zenon DEF RegionAt
    <3>3. PICK item \in Item, l \in Seq(Item) : ItemToCome(left, todo, item, l)
      BY <2>3, <3>2, RegionTokens, Zenon
    <3>4. item[1] \in Items
      BY DEF Item
    <3> QED
      <4>1. gettoken(1) = Key(item[1])
        BY <3>3, Zenon DEF ItemToCome
      <4>2. gettoken(1)[1] = item[1]
        BY <4>1, Kinds, Zenon
      <4> QED
        BY <2>1, <2>2, <3>4, <4>2, Zenon
  <2>5. CASE at = "sync"
    <3>1. PICK done \in Seq(Clear), todo \in Seq(Clear), got \in Seq(STRING),
               left \in Seq(STRING) : SyncAt(done, todo, got, left)
      BY <1>0, <2>5, Zenon DEF ReadInv
    <3>2. Rest = SyncRest(left, todo)
      BY <3>1, Zenon DEF SyncAt
    <3>3. PICK type \in STRING, l \in Seq(STRING) :
            TypeToCome(left, todo, type, l)
      BY <2>3, <3>2, SyncTokens, Zenon
    <3> QED
      BY <2>1, <2>2, <3>3, Kinds, Zenon DEF TypeToCome
  <2> QED
    BY <2>1, <2>4, <2>5
<1>9. CASE end_of_file
  <2>1. at = "top" /\ at' = "regcomp" /\ answer' = answer
    BY <1>9, Zenon DEF end_of_file
  <2>2. PICK done \in Seq(Clear), todo \in Seq(Clear) : TopAt(done, todo)
    BY <1>0, <2>1, Zenon DEF ReadInv
  <2>3. /\ confent' = Len(Regions) /\ Filled(Regions)'
        /\ syncent' = Len(Synced) /\ synctype' = Synced
    BY <1>9, <2>2, EndOfFileStep, Zenon
  <2>4. /\ at \notin {"runs", "crashed"} /\ at' # "top" /\ at' # "region"
        /\ at' # "sync" /\ at' # "exit"
        /\ at' \in {"top", "region", "sync", "regcomp", "exit"}
    BY <2>1
  <2> QED
    BY <2>1, <2>3, <2>4, MeaningNext, Zenon
<1>10. CASE format_error
  <2>1. Refused /\ at' = "exit" /\ answer' = answer
    BY <1>10, Zenon DEF format_error
  <2>2. at \in {"top", "region", "sync"}
    BY <2>1, Zenon DEF Refused
  <2>3. Len(Regions) > MAX_CONF \/ Len(Synced) > MAX_SYNCFILES
    <3>1. CASE at = "top"
      <4>1. PICK done \in Seq(Clear), todo \in Seq(Clear) : TopAt(done, todo)
        BY <1>0, <3>1, Zenon DEF ReadInv
      <4> QED
        BY <2>1, <3>1, <4>1, TopRefused, Zenon
    <3>2. CASE at = "region"
      <4>1. PICK done \in Seq(Clear), todo \in Seq(Clear), name \in PlainName,
                 got \in Seq(Item), left \in Seq(Item) :
              RegionAt(done, todo, name, got, left)
        BY <1>0, <3>2, Zenon DEF ReadInv
      <4>2. Rest = RegionRest(left, todo)
        BY <4>1, Zenon DEF RegionAt
      <4> QED
        BY <2>1, <3>2, <4>2, RegionRefused, Zenon
    <3>3. CASE at = "sync"
      <4>1. PICK done \in Seq(Clear), todo \in Seq(Clear), got \in Seq(STRING),
                 left \in Seq(STRING) : SyncAt(done, todo, got, left)
        BY <1>0, <3>3, Zenon DEF ReadInv
      <4> QED
        BY <2>1, <3>3, <4>1, SyncRefused, Zenon
    <3> QED
      BY <2>2, <3>1, <3>2, <3>3, Zenon
  <2>4. /\ at \notin {"runs", "crashed"} /\ at' # "top" /\ at' # "region"
        /\ at' # "sync" /\ at' # "regcomp"
        /\ at' \in {"top", "region", "sync", "regcomp", "exit"}
    BY <2>1, <2>2
  <2> QED
    BY <2>1, <2>3, <2>4, MeaningNext, Zenon
<1>11. meant' \in Seq(Clear) /\ Regions' = Regions /\ Synced' = Synced
       /\ (Compilable' <=> Compilable) /\ (Named' <=> Named)
       /\ \A name : MeantFor(name)' = MeantFor(name)
  BY <1>1, MeantStays, Zenon
<1>12. CASE regex_init
  <2>1. /\ at = "regcomp" /\ at' = "runs" /\ answer' = answer
        /\ syncent' = syncent /\ synctype' = synctype
    BY <1>12, Zenon DEF regex_init
  <2>2. /\ confent = Len(Regions) /\ Filled(Regions)
        /\ syncent = Len(Synced) /\ synctype = Synced
    BY <1>0, <2>1, Zenon DEF ReadInv
  <2>3. PICK R \in Seq(RegionBlock) : R = Regions
    BY <1>1, Zenon
  <2>4. InUse(R)'
    <3>1. confent = Len(R) /\ Filled(R)
      BY <2>2, <2>3, Zenon
    <3> QED
      BY <1>12, <3>1, RegexInitStep, Zenon
  <2>5. InUse(Regions)'
    BY <1>11, <2>3, <2>4, Zenon DEF InUse
  <2>6. Len(Regions) <= MAX_CONF
    <3>1. cent \in 0..MAX_CONF /\ confent \in 0..cent
      BY Zenon DEF TablesInv
    <3> QED
      BY <2>2, <3>1, ConfigAssumption
  <2>7. answer[1] = ""
    BY <1>0, <2>1
  <2>8. /\ at' # "top" /\ at' # "region" /\ at' # "sync" /\ at' # "regcomp"
        /\ at' # "exit" /\ at' # "crashed"
    BY <2>1
  <2>9. ReadInv'
    BY <1>11, <2>8, Zenon DEF ReadInv
  <2>10. AnswersMeant'
    BY <2>1, <2>7, Zenon DEF AnswersMeant
  <2> QED
    BY <1>11, <2>1, <2>2, <2>5, <2>6, <2>8, <2>9, <2>10, Zenon DEF MeaningInv
<1>13. CASE regex_match
  <2>1. PICK name \in FileNames :
          LET c == conf[WalkEnd(name)]
          IN  /\ at' = IF c.area # Unset /\ ~c.preg THEN "crashed" ELSE "runs"
              /\ answer' = <<name, IF c.area = Unset \/ ~c.preg
                                   THEN NoRule ELSE c.items>>
    BY <1>13, Zenon DEF regex_match
  <2>2. PICK c : c = conf[WalkEnd(name)]
    BY Zenon
  <2>3. /\ at' = IF c.area # Unset /\ ~c.preg THEN "crashed" ELSE "runs"
        /\ answer' = <<name, IF c.area = Unset \/ ~c.preg
                             THEN NoRule ELSE c.items>>
    BY <2>1, <2>2, Zenon
  <2>4. /\ at = "runs" /\ conf' = conf /\ syncent' = syncent
        /\ synctype' = synctype
    BY <1>13, Zenon DEF regex_match
  <2>5. /\ Len(Regions) <= MAX_CONF /\ InUse(Regions)
        /\ syncent = Len(Synced) /\ synctype = Synced
    BY <1>0, <2>4, Zenon
  <2>6. InUse(Regions)'
    BY <1>11, <2>4, <2>5, Zenon DEF InUse
  <2>7. AnswersMeant'
    <3> SUFFICES ASSUME Compilable, Named
                 PROVE  answer'[2] = MeantFor(answer'[1])
      BY <1>11, Zenon DEF AnswersMeant
    <3>1. (IF c.area = Unset \/ ~c.preg THEN NoRule ELSE c.items)
            = MeantFor(name)
      BY <1>1, <2>2, <2>5, WalkIsMeant, Zenon
    <3>2. answer' = <<name, MeantFor(name)>>
      BY <2>3, <3>1, Zenon
    <3>3. answer'[1] = name /\ answer'[2] = MeantFor(name)
      BY <3>2
    <3> QED
      BY <3>3, Zenon
  <2>8. c.area # Unset /\ ~c.preg => ~Compilable
    <3> SUFFICES ASSUME c.area # Unset, ~c.preg
                 PROVE  ~Compilable
      OBVIOUS
    <3>1. PICK R \in Seq(RegionBlock), w \in {WalkEnd(name)} :
            R = Regions /\ w = WalkEnd(name) /\ c = conf[w]
      BY <1>1, <2>2, Zenon
    <3>2. Len(R) <= MAX_CONF /\ InUse(R)
      BY <2>5, <3>1, Zenon
    <3>3. /\ w \in 0..Len(R)
          /\ w = Len(R) => conf[w].area = Unset
          /\ w < Len(R) => (conf[w].preg <=>
                  Value(R[w + 1][3], "pattern") \notin BadPatterns)
      BY <3>1, <3>2, WalkFacts
    <3>4. w < Len(R) /\ w + 1 \in 1..Len(R)
      <4>1. w # Len(R)
        BY <3>1, <3>3, Zenon
      <4> QED
        BY <3>3, <4>1
    <3>5. Value(R[w + 1][3], "pattern") \in BadPatterns
      BY <3>1, <3>3, <3>4, Zenon
    <3>6. Rule(w + 1)["pattern"] = Value(R[w + 1][3], "pattern")
      <4>1. "pattern" \in Items
        BY DEF Items
      <4> QED
        BY <3>1, <4>1, Zenon DEF Rule
    <3> QED
      BY <3>1, <3>4, <3>5, <3>6, Zenon DEF Compilable
  <2>9. at' \in {"crashed", "runs"} /\ (at' = "crashed" => ~Compilable)
    <3>1. CASE c.area # Unset /\ ~c.preg
      <4>1. at' = "crashed"
        BY <2>3, <3>1, Zenon
      <4> QED
        BY <2>8, <3>1, <4>1, Zenon
    <3>2. CASE ~(c.area # Unset /\ ~c.preg)
      <4>1. at' = "runs"
        BY <2>3, <3>2, Zenon
      <4> QED
        BY <4>1
    <3> QED
      BY <3>1, <3>2
  <2>10. /\ at' # "top" /\ at' # "region" /\ at' # "sync" /\ at' # "regcomp"
         /\ at' # "exit" /\ ~(at' \notin {"runs", "crashed"})
    BY <2>9
  <2>11. ReadInv'
    BY <1>11, <2>10, Zenon DEF ReadInv
  <2> QED
    BY <1>11, <2>4, <2>5, <2>6, <2>7, <2>9, <2>10, <2>11, Zenon DEF MeaningInv
<1> QED
  BY <1>2, <1>3, <1>4, <1>5, <1>6, <1>7, <1>8, <1>9, <1>10, <1>12, <1>13, Zenon
     DEF CNext

\* A file written by the grammar whose names gettoken gives as one string each
\* (quoted, or beginning with a letter and no keyword) is refused only for its
\* size, and what is then asked of the tables is answered as the file was
\* meant: a file name gets the rule of the first region that matches it, a type
\* its place in the list over all the sync blocks (regexplib.c:148-310).
THEOREM ReadAsMeant == CSpec => []ReadsAsMeant
<1>1. CInit => TablesInv /\ MeaningInv
  BY TablesInit, MeaningInit
<1>2. TablesInv /\ MeaningInv /\ [CNext]_cvars => TablesInv' /\ MeaningInv'
  BY TablesStep, MeaningStep
<1>3. TablesInv /\ MeaningInv => ReadsAsMeant
  <2> SUFFICES ASSUME TablesInv, MeaningInv, Readable
               PROVE  /\ at = "exit" => \/ Len(Regions) > MAX_CONF
                                        \/ Len(Synced) > MAX_SYNCFILES
                      /\ at = "crashed" => ~Compilable
                      /\ at = "runs" /\ Compilable /\ Named =>
                           /\ answer[1] # "" => answer[2] = MeantFor(answer[1])
                           /\ \A t \in Types :
                                sync_entry(t)
                                  = SelectInSeq(Synced, LAMBDA s : s = t)
    BY Zenon DEF ReadsAsMeant, Readable, TooLarge
  <2>1. /\ ReadInv /\ (at = "crashed" => ~Compilable)
        /\ at = "runs" => /\ syncent = Len(Synced) /\ synctype = Synced
                          /\ AnswersMeant
    BY Zenon DEF MeaningInv
  <2>2. /\ at = "exit" => \/ Len(Regions) > MAX_CONF
                          \/ Len(Synced) > MAX_SYNCFILES
        /\ meant \in Seq(Clear)
    BY <2>1, Zenon DEF ReadInv
  <2>3. Synced \in Seq(STRING)
    BY <2>2, MeantTypes, Zenon DEF Synced
  <2>4. at = "runs" =>
          \A t \in Types :
            sync_entry(t) = SelectInSeq(Synced, LAMBDA s : s = t)
    BY <2>1, <2>3, SyncIsMeant, Zenon DEF SelectInSeq
  <2>5. at = "runs" /\ Compilable /\ Named /\ answer[1] # ""
          => answer[2] = MeantFor(answer[1])
    BY <2>1, Zenon DEF AnswersMeant
  <2> QED
    BY <2>1, <2>2, <2>4, <2>5, Zenon
<1> QED
  BY <1>1, <1>2, <1>3, PTL DEF CSpec
=============================================================================
