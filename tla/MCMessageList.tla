--------------------------- MODULE MCMessageList ---------------------------
(***************************************************************************)
(* A small instance of MessageList for TLC.                                *)
(***************************************************************************)
EXTENDS MessageList
=============================================================================
