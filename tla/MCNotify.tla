------------------------------ MODULE MCNotify ------------------------------
(* Instances of the directory watching for TLC: wdirs and qrmdir short enough *)
(* to turn round, and the former still long against the latter.             *)
EXTENDS Notify

\* A file system whose readdir does not give the types, mounted in the tree.
Mounted == {<<2, 2>>}
=============================================================================
