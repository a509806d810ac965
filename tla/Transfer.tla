------------------------------ MODULE Transfer ------------------------------
(***************************************************************************)
(* The ways of sending.  watch_and_transfer takes one of them from the     *)
(* protocol of its URL when it starts: sftp (Sender), with kwatcher or     *)
(* lwatcher on the other machine, or lock (LockedMove).  scp is one call of *)
(* a program for each file and keeps no state.  An http URL has a colon    *)
(* and is refused before it is looked at: files go by http with the        *)
(* program http_put (Upload).                                              *)
(***************************************************************************)
EXTENDS Sender, LockedMove, Upload

VARIABLE url   \* protocol of the URL

tvars == <<url, svvars, lmvars, uvars>>

trans_type(protocol) ==
  CASE protocol \in {"scp", "ssh"} -> "TRANS_SCP"
    [] protocol = "sftp" -> "TRANS_SFTP"
    [] protocol = "lock" -> "TRANS_LOCK"
    [] protocol = "none" -> "TRANS_NONE"
    [] OTHER -> "TRANS_UNKNOWN"

TInit == url \in {"sftp", "lock", "http"} /\ SInit /\ LMInit /\ UInit

by_sftp == SNext /\ UNCHANGED <<url, lmvars, uvars>>
by_lock == LMNext /\ UNCHANGED <<url, svvars, uvars>>
by_http_put == UNext /\ UNCHANGED <<url, svvars, lmvars>>

TNext ==
  \/ trans_type(url) = "TRANS_SFTP" /\ by_sftp
  \/ trans_type(url) = "TRANS_LOCK" /\ by_lock
  \/ trans_type(url) = "TRANS_UNKNOWN" /\ by_http_put

\* Fairness only for the mover and its application: of the other ways the
\* properties here are about safety.
TSpec == TInit /\ [][TNext]_tvars /\ LMFairness

TTypeOK == STypeOK /\ LMTypeOK /\ UTypeOK
=============================================================================
