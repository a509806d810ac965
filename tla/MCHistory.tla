----------------------------- MODULE MCHistory -----------------------------
(* Instance of the ring for TLC: enough dates for the writer to go round    *)
(* the ring once and reuse slots.                                           *)
EXTENDS History

MCTypes == 0..1
MCDates == 1..8
=============================================================================
