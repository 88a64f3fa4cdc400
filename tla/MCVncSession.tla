---------------------------- MODULE MCVncSession ----------------------------
(* Finite instances of VncSession for TLC. *)
EXTENDS VncSession

MCPointer == {"pointer"}
MCUserEvents == UserEvents
MCNever == {FALSE}
MCEither == BOOLEAN
MCNone == {"none"}
MCVnc == {"vnc"}
MCBoth == {"none", "vnc"}
=============================================================================
