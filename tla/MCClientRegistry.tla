-------------------------- MODULE MCClientRegistry -------------------------
(***************************************************************************)
(* Small instances of ClientRegistry for TLC.                              *)
(***************************************************************************)
EXTENDS ClientRegistry
============================================================================
