------------------------- MODULE MCVncClientThread -------------------------
(* Finite instances of VncClientThread for TLC. *)
EXTENDS VncClientThread

CONSTANTS key, click    \* two distinguishable input events

MCEvents == {key, click}
MCNever == {FALSE}
MCEither == BOOLEAN
MCNone == {"none"}
MCBoth == {"none", "vnc"}
=============================================================================
