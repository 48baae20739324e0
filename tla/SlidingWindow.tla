--------------------------- MODULE SlidingWindow ---------------------------
(***************************************************************************)
(* What a rate limiter of middleware/rate-limit.go promises, whatever keeps*)
(* its state: a request under a key is let through exactly when fewer than *)
(* MaxRequestNum requests under that key were let through during the last  *)
(* Duration seconds.                                                       *)
(***************************************************************************)
EXTENDS Integers, Sequences, FiniteSets

CONSTANTS
    Keys,           \* mark + c.ClientIP()
    MaxRequestNum,  \* a function: the maxRequestNum of the key's mark
    Duration        \* a function: the duration of the key's mark, in seconds

VARIABLES
    clock,     \* time.Now().Unix()
    accepted,  \* the times at which requests under a key were let through
    answer     \* what the last request under a key was told

vars == <<clock, accepted, answer>>

Init ==
    /\ clock = 0
    /\ accepted = [k \in Keys |-> <<>>]
    /\ answer = [k \in Keys |-> "none"]

\* The accepted requests of k that still count.
Recent(k) ==
    {i \in 1..Len(accepted[k]) : clock - accepted[k][i] < Duration[k]}

Allowed(k) == Cardinality(Recent(k)) < MaxRequestNum[k]

Allow(k) ==
    /\ Allowed(k)
    /\ accepted' = [accepted EXCEPT ![k] = Append(@, clock)]
    /\ answer' = [answer EXCEPT ![k] = "ok"]
    /\ UNCHANGED clock

Refuse(k) ==
    /\ ~Allowed(k)
    /\ answer' = [answer EXCEPT ![k] = "429"]
    /\ UNCHANGED <<clock, accepted>>

Tick ==
    /\ clock' = clock + 1
    /\ UNCHANGED <<accepted, answer>>

Next == Tick \/ \E k \in Keys : Allow(k) \/ Refuse(k)

Spec == Init /\ [][Next]_vars
============================================================================
