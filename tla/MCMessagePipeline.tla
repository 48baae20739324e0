------------------------- MODULE MCMessagePipeline -------------------------
(***************************************************************************)
(* Small instances of MessagePipeline for TLC.                             *)
(***************************************************************************)
EXTENDS MessagePipeline, TLC

\* Requests, senders and ids are interchangeable in the safety properties.
Symmetry == Permutations(Requests) \cup Permutations(Senders) \cup Permutations(Ids)
============================================================================
