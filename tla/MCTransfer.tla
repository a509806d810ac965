----------------------------- MODULE MCTransfer -----------------------------
(* Instances of the ways of sending for TLC: three notification files       *)
(* instead of ten are used again soon; three uploads, one of two files.     *)
EXTENDS Transfer

Requests == {"p", "q", "r"}
Forms == [p |-> <<"a">>, q |-> <<"b">>, r |-> <<"c", "d">>]
=============================================================================
