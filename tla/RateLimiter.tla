---------------------------- MODULE RateLimiter ----------------------------
(***************************************************************************)
(* InMemoryRateLimiter (common/rate-limit.go) as memoryRateLimiter uses it *)
(* (middleware/rate-limit.go): Request and one round of clearExpiredItems  *)
(* run under the mutex, so each is one step. The clock is time.Now().Unix()*)
(* in whole seconds and does not go back.                                  *)
(***************************************************************************)
EXTENDS Integers, Sequences

CONSTANTS
    Keys,           \* mark + c.ClientIP()
    MaxRequestNum,  \* a function: the maxRequestNum of the key's mark
    Duration,       \* a function: the duration of the key's mark, in seconds
    Expiration,     \* RateLimitKeyExpirationDuration, in seconds
    MaxTime         \* bound: the last second of a behaviour

\* "Shouldn't larger then RateLimitKeyExpirationDuration" (constants.go).
ASSUME LimitsAssumption ==
    /\ MaxRequestNum \in [Keys -> Nat \ {0}]
    /\ Duration \in [Keys -> Nat]
    /\ Expiration \in Nat \ {0}
    /\ \A k \in Keys : Duration[k] <= Expiration
ASSUME MaxTimeAssumption == MaxTime \in Nat

VARIABLES
    clock,     \* time.Now().Unix()
    store,     \* l.store, the times of a key's requests, oldest first; a key
               \* that is not in the map has the empty sequence
    wake       \* when clearExpiredItems wakes up

\* History: what the callers were told.
VARIABLES
    accepted,  \* the times at which requests under a key were let through
    answer     \* the answer of the last request under a key

vars == <<clock, store, wake, accepted, answer>>

Init ==
    /\ clock = 0
    /\ store = [k \in Keys |-> <<>>]
    /\ wake = Expiration
    /\ accepted = [k \in Keys |-> <<>>]
    /\ answer = [k \in Keys |-> "none"]

Tick ==
    /\ clock < MaxTime
    /\ clock' = clock + 1
    /\ UNCHANGED <<store, wake, accepted, answer>>

\* Mutants: off by one in the comparison of the length, or of the age.
HasRoomOffByOne(k) == Len(store[k]) <= MaxRequestNum[k]
OldestLeftStrict(k) == clock - Head(store[k]) > Duration[k]

\* Fewer than maxRequestNum times are remembered, the key being new included.
HasRoom(k) == Len(store[k]) < MaxRequestNum[k]

\* now-(*queue)[0] >= duration.
OldestLeft(k) == clock - Head(store[k]) >= Duration[k]

Told(k, told) == answer' = [answer EXCEPT ![k] = told]

\* Request returns true: the key is new or has room.
AcceptRoom(k) ==
    /\ HasRoom(k)
    /\ store' = [store EXCEPT ![k] = Append(@, clock)]
    /\ accepted' = [accepted EXCEPT ![k] = Append(@, clock)]
    /\ Told(k, "ok")
    /\ UNCHANGED <<clock, wake>>

\* Request returns true: the oldest time gives way.
AcceptShift(k) ==
    /\ ~HasRoom(k)
    /\ OldestLeft(k)
    /\ store' = [store EXCEPT ![k] = Append(Tail(@), clock)]
    /\ accepted' = [accepted EXCEPT ![k] = Append(@, clock)]
    /\ Told(k, "ok")
    /\ UNCHANGED <<clock, wake>>

\* Request returns false, and memoryRateLimiter answers 429.
Reject(k) ==
    /\ ~HasRoom(k)
    /\ ~OldestLeft(k)
    /\ Told(k, "429")
    /\ UNCHANGED <<clock, store, wake, accepted>>

Request(k) == AcceptRoom(k) \/ AcceptShift(k) \/ Reject(k)

\* Mutant: nothing is ever deleted.
NeverExpired(k) == FALSE

\* The newest time of the key is older than the expiration.
Expired(k) ==
    store[k] # <<>> /\ clock - store[k][Len(store[k])] > Expiration

\* One round of clearExpiredItems, some time after its Sleep is over.
ClearExpiredItems ==
    /\ clock >= wake
    /\ store' = [k \in Keys |-> IF Expired(k) THEN <<>> ELSE store[k]]
    /\ wake' = clock + Expiration
    /\ UNCHANGED <<clock, accepted, answer>>

Next == Tick \/ (\E k \in Keys : Request(k)) \/ ClearExpiredItems

Spec == Init /\ [][Next]_vars

----------------------------------------------------------------------------
(* Properties. *)

TypeOK ==
    /\ clock \in Nat
    /\ store \in [Keys -> Seq(Nat)]
    /\ wake \in Nat
    /\ accepted \in [Keys -> Seq(Nat)]
    /\ answer \in [Keys -> {"none", "ok", "429"}]

\* The times a are in order, and none is later than now.
InOrder(a, now) ==
    \A i \in 1..Len(a) :
      /\ a[i] <= now
      /\ \A j \in 1..i : a[j] <= a[i]

\* s is the end of the history a, and what it lacks of a no longer counts when
\* max requests are allowed in d seconds.
Remembers(s, a, max, d, now) ==
    /\ Len(s) <= Len(a)
    /\ Len(s) <= max
    /\ \A i \in 1..Len(s) : s[i] = a[Len(a) - Len(s) + i]
    /\ Len(s) < Len(a) /\ Len(s) < max => a[Len(a) - Len(s)] + d <= now

\* Whatever clearExpiredItems deletes between two requests, the map remembers
\* every accepted request that still counts against the limit.
StoreRemembers ==
    \A k \in Keys :
      /\ InOrder(accepted[k], clock)
      /\ Remembers(store[k], accepted[k], MaxRequestNum[k], Duration[k], clock)

\* Of the times a, those max places apart are at least d seconds apart.
Spread(a, max, d) ==
    \A i, j \in 1..Len(a) : j >= i + max => a[i] + d <= a[j]

\* No MaxRequestNum + 1 requests under a key are let through within Duration
\* seconds.
WindowBound ==
    \A k \in Keys : Spread(accepted[k], MaxRequestNum[k], Duration[k])

\* The map does not grow without bound: a key unused for two expiration
\* periods before the next round of clearExpiredItems is gone.
IdleKeysForgotten ==
    \A k \in Keys :
      store[k] # <<>> => store[k][Len(store[k])] + 2 * Expiration >= wake

\* The limiter as its callers see it: a request is refused exactly when
\* MaxRequestNum requests of the last Duration seconds were let through.
Window == INSTANCE SlidingWindow

\* InMemoryRateLimiter implements the sliding window.
ImplementsWindow == Window!Spec
============================================================================
