--------------------------- MODULE MCRateLimiter ---------------------------
(***************************************************************************)
(* Two keys with different marks: two requests in two seconds, and one     *)
(* request in three seconds, the longest duration the expiration allows.   *)
(***************************************************************************)
EXTENDS RateLimiter

CONSTANTS k1, k2

Limits == [k \in Keys |-> IF k = k1 THEN 2 ELSE 1]
Durations == [k \in Keys |-> IF k = k1 THEN 2 ELSE 3]
============================================================================
