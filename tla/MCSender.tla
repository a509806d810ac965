------------------------------ MODULE MCSender ------------------------------
(* Instances of the sender for TLC: three notification files instead of ten *)
(* are used again soon.                                                     *)
EXTENDS Sender
=============================================================================
