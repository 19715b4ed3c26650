---------------------------- MODULE MCServerLoop ----------------------------
(***************************************************************************)
(* The server with a FIFO of two events, a few packets and two viewers.    *)
(***************************************************************************)
EXTENDS ServerLoop
=============================================================================
