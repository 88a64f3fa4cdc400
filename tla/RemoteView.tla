----------------------------- MODULE RemoteView -----------------------------
(***************************************************************************)
(* The connection status of a view (RemoteView::RemoteStatus) and the      *)
(* statusChanged() signals that RemoteView::setStatus() emits on the way   *)
(* from one status to another.                                             *)
(***************************************************************************)
EXTENDS Integers, Sequences

Connecting     == 0
Authenticating == 1
Preparing      == 2
Connected      == 3
Disconnecting  == -1
Disconnected   == -2

RemoteStatus == Disconnected..Connected

(* The statuses emitted by setStatus(s), in order; <<>> when it has        *)
(* nothing to do.  A step of one, a step to Disconnected and a step to     *)
(* Disconnecting are direct.  Otherwise every status on the way is         *)
(* emitted, beginning with the current one when going forward, and with    *)
(* two Disconnected when going back.  (The early return for Disconnecting  *)
(* in Disconnected is never reached: that is a step of one.)               *)
Emitted(m_status, s) ==
  LET back   == m_status > s
      orig   == IF back THEN Disconnected ELSE m_status
      smooth == [i \in 1..(s - orig) |-> orig + i - 1]
      direct == s \in {m_status + 1, Disconnecting, Disconnected}
  IN IF s = m_status THEN <<>>
     ELSE IF direct THEN <<s>>
     ELSE (IF back THEN <<Disconnected>> ELSE <<>>) \o smooth \o <<s>>
=============================================================================
