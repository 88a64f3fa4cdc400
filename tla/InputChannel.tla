---------------------------- MODULE InputChannel ----------------------------
(***************************************************************************)
(* What the input path of the viewer promises: key, pointer and clipboard  *)
(* events that were accepted reach the server once each and in the order   *)
(* they were accepted, none is accepted once the connection is being shut  *)
(* down, and none is sent once it is shut down.  Events may be lost at the *)
(* end: what is still waiting when the channel closes is dropped.          *)
(***************************************************************************)
EXTENDS Integers, Sequences

CONSTANT Events     \* the input events a user can cause

VARIABLES
  accepted,         \* every event taken, oldest first
  sent,             \* every event written to the server, oldest first
  phase             \* "open", "closing" (no more input) or "closed"

vars == <<accepted, sent, phase>>

Phases == {"open", "closing", "closed"}

Init ==
  /\ accepted = <<>>
  /\ sent = <<>>
  /\ phase = "open"

Accept(e) ==
  /\ phase = "open"
  /\ accepted' = Append(accepted, e)
  /\ UNCHANGED <<sent, phase>>

(* The next unsent event, and only that one, is written. *)
Send ==
  /\ phase # "closed"
  /\ Len(sent) < Len(accepted)
  /\ sent' = Append(sent, accepted[Len(sent) + 1])
  /\ UNCHANGED <<accepted, phase>>

(* The user side stops first ... *)
StopInput ==
  /\ phase = "open"
  /\ phase' = "closing"
  /\ UNCHANGED <<accepted, sent>>

(* ... or the connection ends under it. *)
Close ==
  /\ phase # "closed"
  /\ phase' = "closed"
  /\ UNCHANGED <<accepted, sent>>

Next ==
  \/ \E e \in Events : Accept(e)
  \/ Send
  \/ StopInput
  \/ Close

Spec == Init /\ [][Next]_vars
=============================================================================
