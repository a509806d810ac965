---------------------------- MODULE MCLWatcher -----------------------------
(* Instances of the daemon for TLC.  All use the shortest ring, five        *)
(* entries, where only two dates can be pending.                            *)
EXTENDS LWatcher

Types1 == {0}
Types2 == 0..1
Dates5 == 1..5
=============================================================================
