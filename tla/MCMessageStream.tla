-------------------------- MODULE MCMessageStream --------------------------
(***************************************************************************)
(* Small instances of MessageStream for TLC: user a has two pages, user b  *)
(* one, and all messages are for a.                                        *)
(***************************************************************************)
EXTENDS MessageStream

CONSTANTS a, b, p1, p2, p3

MCPageUser == [p \in Pages |-> IF p = p3 THEN b ELSE a]
MCMessageUser == [m \in Messages |-> a]
============================================================================
