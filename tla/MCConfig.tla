------------------------------ MODULE MCConfig ------------------------------
(* Configurations for TLC: every file of up to four of these blocks, more  *)
(* than the tables hold, and every damage of one token to the short ones.  *)
EXTENDS Config

Bare(word) == <<"bare", "", word>>
Quoted(s) == <<"quoted", "", s>>

Kobe == <<"region", Bare("kobe"), <<<<"pattern", "kobe.*">>, <<"type", "$2">>>>>>
AnyArea == <<"region", Quoted("date"),
             <<<<"type", "vr">>, <<"type", "ze">>, <<"pattern", ".*">>>>>>
Bad == <<"region", Bare("bad"), <<<<"pattern", "[">>>>>>
Unnamed == <<"region", Quoted(""), <<<<"pattern", "kobe.*">>>>>>
Plainly == {Kobe, AnyArea, Bad, Unnamed,
            <<"sync", <<"ze">>>>, <<"sync", <<"vr">>>>, <<"sync", <<"ze", "vr">>>>}

\* Names that gettoken does not give as one string: 1kobe, 2017 and date.
Otherwise == {<<"region", name, <<<<"type", "vr">>>>>> :
                name \in {<<"bare", "1", "kobe">>, <<"bare", "2017", "">>, Bare("date")}}

Samples == BoundedSeq(Plainly, 4) \cup BoundedSeq(Plainly \cup Otherwise, 3)

\* Texts with one token lost, or overwritten by another.
Damages(s) ==
  UNION {{RemoveAt(s, i), ReplaceAt(s, i, Illegal), ReplaceAt(s, i, Number)} :
           i \in 1..Len(s)}
Damaged == UNION {Damages(Printed(b)) : b \in BoundedSeq(Plainly, 2)}

Matched ==
  [p \in {"kobe.*", ".*", "garbage", "kobe", "date", "bad", "$1", "$2", "ze", "vr"} |->
     CASE p = "kobe.*" -> {"kobe_1"}
       [] p = ".*" -> {"kobe_1", "osaka_1"}
       [] OTHER -> {}]
=============================================================================
