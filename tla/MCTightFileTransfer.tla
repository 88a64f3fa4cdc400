------------------------- MODULE MCTightFileTransfer -------------------------
(***************************************************************************)
(* TLC instance of the TightVNC file transfer alone: one file of two       *)
(* blocks and one thread for downloads.                                    *)
(***************************************************************************)
EXTENDS TightFileTransfer

MCStoredFiles == [f \in {"file"} |-> 2]
=============================================================================
