------------------------- MODULE RateLimiterProofs -------------------------
(***************************************************************************)
(* Proofs about RateLimiter: the map remembers what counts, hence the      *)
(* window bound holds and InMemoryRateLimiter implements SlidingWindow for *)
(* all keys, limits, durations and expirations.                            *)
(***************************************************************************)
EXTENDS RateLimiter, FiniteSetTheorems, TLAPS

----------------------------------------------------------------------------
(* Facts about the sequences of times. *)

\* Time passing does not disturb the order of the times.
LEMMA LaterInOrder ==
  ASSUME NEW a \in Seq(Nat), NEW now \in Nat, NEW later \in Nat,
         now <= later, InOrder(a, now)
  PROVE  InOrder(a, later)
<1> SUFFICES ASSUME NEW i \in 1..Len(a)
             PROVE  a[i] <= later /\ \A j \in 1..i : a[j] <= a[i]
  BY DEF InOrder
<1>1. a[i] \in Nat
  OBVIOUS
<1>2. a[i] <= now /\ \A j \in 1..i : a[j] <= a[i]
  BY DEF InOrder
<1> QED
  BY <1>1, <1>2

\* Time passing makes nothing count again.
LEMMA LaterRemembers ==
  ASSUME NEW a \in Seq(Nat), NEW s \in Seq(Nat), NEW max \in Nat, NEW d \in Nat,
         NEW now \in Nat, NEW later \in Nat, now <= later,
         Remembers(s, a, max, d, now)
  PROVE  Remembers(s, a, max, d, later)
<1>1. Len(s) < Len(a) /\ Len(s) < max => a[Len(a) - Len(s)] + d <= later
  <2> HAVE Len(s) < Len(a) /\ Len(s) < max
  <2>1. a[Len(a) - Len(s)] + d <= now
    BY DEF Remembers
  <2>2. Len(a) - Len(s) \in 1..Len(a)
    OBVIOUS
  <2>3. a[Len(a) - Len(s)] \in Nat
    BY <2>2
  <2> QED
    BY <2>1, <2>3
<1> QED
  BY <1>1 DEF Remembers

\* A request accepted now comes last.
LEMMA AppendInOrder ==
  ASSUME NEW a \in Seq(Nat), NEW now \in Nat, InOrder(a, now)
  PROVE  InOrder(Append(a, now), now)
<1> DEFINE b == Append(a, now)
<1>1. /\ b \in Seq(Nat) /\ Len(b) = Len(a) + 1 /\ b[Len(a) + 1] = now
      /\ \A i \in 1..Len(a) : b[i] = a[i]
  OBVIOUS
<1>2. \A i \in 1..Len(a) : a[i] \in Nat /\ a[i] <= now
  BY DEF InOrder
<1> HIDE DEF b
<1>3. SUFFICES ASSUME NEW i \in 1..(Len(a) + 1)
               PROVE  b[i] <= now /\ \A j \in 1..i : b[j] <= b[i]
  BY <1>1 DEF InOrder, b
<1>4. CASE i = Len(a) + 1
  BY <1>1, <1>2, <1>4
<1>5. CASE i \in 1..Len(a)
  <2>1. \A j \in 1..i : j \in 1..Len(a) /\ a[j] <= a[i]
    BY <1>5 DEF InOrder
  <2> QED
    BY <1>1, <1>2, <1>5, <2>1
<1> QED
  BY <1>4, <1>5

\* A request that finds room is remembered.
LEMMA RoomRemembers ==
  ASSUME NEW a \in Seq(Nat), NEW s \in Seq(Nat), NEW max \in Nat, NEW d \in Nat,
         NEW now \in Nat, Remembers(s, a, max, d, now), Len(s) < max
  PROVE  Remembers(Append(s, now), Append(a, now), max, d, now)
<1> DEFINE b == Append(a, now)
           t == Append(s, now)
<1>1. /\ Len(b) = Len(a) + 1 /\ b[Len(a) + 1] = now
      /\ \A i \in 1..Len(a) : b[i] = a[i]
  OBVIOUS
<1>2. /\ Len(t) = Len(s) + 1 /\ t[Len(s) + 1] = now
      /\ \A i \in 1..Len(s) : t[i] = s[i]
  OBVIOUS
<1>3. Len(s) <= Len(a) /\ \A i \in 1..Len(s) : s[i] = a[Len(a) - Len(s) + i]
  BY DEF Remembers
<1> HIDE DEF b, t
<1>4. ASSUME NEW i \in 1..Len(t) PROVE t[i] = b[Len(b) - Len(t) + i]
  <2>1. CASE i = Len(s) + 1
    BY <1>1, <1>2, <1>3, <2>1
  <2>2. CASE i \in 1..Len(s)
    <3>1. Len(a) - Len(s) + i \in 1..Len(a) /\ Len(b) - Len(t) + i = Len(a) - Len(s) + i
      BY <1>1, <1>2, <1>3, <2>2
    <3> QED
      BY <1>1, <1>2, <1>3, <2>2, <3>1
  <2> QED
    BY <1>2, <2>1, <2>2
<1>5. Len(t) < Len(b) /\ Len(t) < max => b[Len(b) - Len(t)] + d <= now
  <2> HAVE Len(t) < Len(b) /\ Len(t) < max
  <2>1. Len(a) - Len(s) \in 1..Len(a) /\ Len(b) - Len(t) = Len(a) - Len(s)
    BY <1>1, <1>2, <1>3
  <2>2. a[Len(a) - Len(s)] + d <= now
    BY <1>1, <1>2 DEF Remembers
  <2> QED
    BY <1>1, <2>1, <2>2
<1>6. Len(t) <= Len(b) /\ Len(t) <= max
  BY <1>1, <1>2, <1>3
<1>7. Remembers(t, b, max, d, now)
  BY <1>4, <1>5, <1>6 DEF Remembers
<1> QED
  BY <1>7 DEF b, t

\* A request that takes the place of the oldest one is remembered.
LEMMA ShiftRemembers ==
  ASSUME NEW a \in Seq(Nat), NEW s \in Seq(Nat), NEW max \in Nat \ {0},
         NEW d \in Nat, NEW now \in Nat,
         Remembers(s, a, max, d, now), ~(Len(s) < max)
  PROVE  Remembers(Append(Tail(s), now), Append(a, now), max, d, now)
<1> DEFINE b == Append(a, now)
           t == Append(Tail(s), now)
<1>1. /\ Len(b) = Len(a) + 1 /\ b[Len(a) + 1] = now
      /\ \A i \in 1..Len(a) : b[i] = a[i]
  OBVIOUS
<1>2. /\ Len(s) = max /\ Len(s) <= Len(a)
      /\ \A i \in 1..Len(s) : s[i] = a[Len(a) - Len(s) + i]
  BY DEF Remembers
<1>3. /\ Tail(s) \in Seq(Nat) /\ Len(Tail(s)) = max - 1
      /\ \A i \in 1..(max - 1) : Tail(s)[i] = s[i + 1]
  BY <1>2
<1>4. /\ Len(t) = max /\ t[max] = now
      /\ \A i \in 1..(max - 1) : t[i] = s[i + 1]
  BY <1>3
<1> HIDE DEF b, t
<1>5. ASSUME NEW i \in 1..max PROVE t[i] = b[Len(b) - max + i]
  <2>1. CASE i = max
    BY <1>1, <1>2, <1>4, <2>1
  <2>2. CASE i \in 1..(max - 1)
    <3>1. /\ i + 1 \in 1..Len(s)
          /\ Len(a) - Len(s) + (i + 1) \in 1..Len(a)
          /\ Len(b) - max + i = Len(a) - Len(s) + (i + 1)
      BY <1>1, <1>2, <2>2
    <3> QED
      BY <1>1, <1>2, <1>4, <2>2, <3>1
  <2> QED
    BY <2>1, <2>2
<1>6. Len(t) = max /\ Len(t) <= Len(b) /\ Len(t) <= max /\ ~(Len(t) < max)
  BY <1>1, <1>2, <1>4
<1>7. Remembers(t, b, max, d, now)
  BY <1>5, <1>6 DEF Remembers
<1> QED
  BY <1>7 DEF b, t

\* Forgetting a key whose newest time is older than the expiration forgets
\* nothing that counts.
LEMMA ClearRemembers ==
  ASSUME NEW a \in Seq(Nat), NEW s \in Seq(Nat), NEW max \in Nat, NEW d \in Nat,
         NEW now \in Nat, NEW exp \in Nat, d <= exp,
         Remembers(s, a, max, d, now), s # <<>>, now - s[Len(s)] > exp
  PROVE  Remembers(<<>>, a, max, d, now)
<1>1. Len(s) \in 1..Len(s) /\ Len(s) <= Len(a) /\ Len(a) - Len(s) + Len(s) = Len(a)
  BY DEF Remembers
<1>2. s[Len(s)] = a[Len(a)]
  <2>1. s[Len(s)] = a[Len(a) - Len(s) + Len(s)]
    BY <1>1 DEF Remembers
  <2> QED
    BY <1>1, <2>1
<1>3. a[Len(a)] \in Nat
  BY <1>1
<1>4. a[Len(a)] + d <= now
  BY <1>2, <1>3
<1> QED
  BY <1>1, <1>4 DEF Remembers

\* What the map says is what the history says: there is room, or the oldest
\* remembered time has left the window, exactly when the history is short or
\* its max-th latest time has left the window.
LEMMA MapDecides ==
  ASSUME NEW a \in Seq(Nat), NEW s \in Seq(Nat), NEW max \in Nat \ {0},
         NEW d \in Nat, NEW now \in Nat,
         InOrder(a, now), Remembers(s, a, max, d, now)
  PROVE  (Len(s) < max \/ now - Head(s) >= d)
           <=> (Len(a) < max \/ now - a[Len(a) - max + 1] >= d)
<1>1. Len(s) <= Len(a) /\ Len(s) <= max
  BY DEF Remembers
<1>2. CASE Len(s) < max
  <2>1. CASE Len(a) < max
    BY <1>2, <2>1
  <2>2. CASE ~(Len(a) < max)
    <3> DEFINE i == Len(a) - max + 1
               j == Len(a) - Len(s)
    <3>1. j \in 1..Len(a) /\ i \in 1..j
      BY <1>1, <1>2, <2>2
    <3>2. a[j] + d <= now
      <4>1. Len(s) < Len(a)
        BY <1>2, <2>2
      <4> QED
        BY <1>2, <4>1 DEF Remembers
    <3> HIDE DEF i, j
    <3>3. a[i] <= a[j]
      BY <3>1 DEF InOrder
    <3>4. i \in 1..Len(a)
      BY <3>1
    <3>5. a[i] \in Nat /\ a[j] \in Nat
      BY <3>1, <3>4
    <3>6. now - a[i] >= d
      BY SMTT(30), <3>2, <3>3, <3>5
    <3> QED
      BY <1>2, <3>6 DEF i
  <2> QED
    BY <2>1, <2>2
<1>3. CASE Len(s) = max
  <2>1. 1 \in 1..Len(s) /\ s # <<>> /\ Len(a) - Len(s) + 1 = Len(a) - max + 1
    BY <1>1, <1>3
  <2>2. s[1] = a[Len(a) - max + 1]
    BY <2>1, <1>3 DEF Remembers
  <2>3. Head(s) = s[1]
    BY <2>1
  <2> QED
    BY <1>1, <1>3, <2>2, <2>3
<1> QED
  BY <1>1, <1>2, <1>3

\* Counting the recent requests is looking at the max-th latest one.
LEMMA CountDecides ==
  ASSUME NEW a \in Seq(Nat), NEW max \in Nat \ {0}, NEW d \in Nat, NEW now \in Nat,
         InOrder(a, now)
  PROVE  Cardinality({i \in 1..Len(a) : now - a[i] < d}) < max
           <=> (Len(a) < max \/ now - a[Len(a) - max + 1] >= d)
<1> DEFINE R == {i \in 1..Len(a) : now - a[i] < d}
           n == Len(a)
<1>0. n \in Nat /\ \A i \in 1..n : a[i] \in Nat
  OBVIOUS
<1>1. IsFiniteSet(1..n) /\ Cardinality(1..n) = n
  <2> HIDE DEF n
  <2>1. n \in Int /\ 1 \in Int
    BY <1>0
  <2>2. IsFiniteSet(1..n) /\ Cardinality(1..n) = IF 1 > n THEN 0 ELSE n - 1 + 1
    BY <2>1, FS_Interval
  <2>3. (IF 1 > n THEN 0 ELSE n - 1 + 1) = n
    BY <1>0
  <2> QED
    BY <2>2, <2>3
<1>2. IsFiniteSet(R) /\ Cardinality(R) \in Nat /\ Cardinality(R) <= n
  <2>1. R \subseteq 1..n
    OBVIOUS
  <2> QED
    BY <1>1, <2>1, FS_Subset, FS_CardinalityType
<1>3. CASE n < max
  BY <1>0, <1>2, <1>3
<1>4. CASE ~(n < max)
  <2> DEFINE p == n - max + 1
  <2>0. p \in 1..n /\ p + 1 \in Int /\ n \in Int /\ p \in Int
    BY <1>0, <1>4
  <2>1. CASE now - a[p] >= d
    <3>1. R \subseteq (p + 1)..n
      <4> SUFFICES ASSUME NEW i \in 1..n, now - a[i] < d PROVE i \in (p + 1)..n
        OBVIOUS
      <4>1. i \in 1..p => a[i] <= a[p]
        BY <2>0 DEF InOrder
      <4>2. a[i] \in Nat /\ a[p] \in Nat
        BY <1>0, <2>0
      <4>3. ~(i \in 1..p)
        BY SMTT(30), <4>1, <4>2, <2>1
      <4> HIDE DEF p, n
      <4> QED
        BY <4>3, <2>0, <1>0
    <3>2. IsFiniteSet((p + 1)..n) /\ Cardinality((p + 1)..n) = max - 1
      <4>1. IsFiniteSet((p + 1)..n)
        BY <2>0, FS_Interval
      <4>2. Cardinality((p + 1)..n) = IF p + 1 > n THEN 0 ELSE n - (p + 1) + 1
        BY <2>0, FS_Interval
      <4> QED
        BY <4>1, <4>2, <1>0, <1>4
    <3>3. Cardinality(R) <= max - 1
      BY <3>1, <3>2, FS_Subset
    <3> HIDE DEF R, n
    <3>4. Cardinality(R) < max
      BY <3>3, <1>2
    <3> QED
      BY <3>4, <2>1 DEF R, n
  <2>2. CASE ~(now - a[p] >= d)
    <3>1. p..n \subseteq R
      <4> SUFFICES ASSUME NEW i \in p..n PROVE i \in 1..n /\ now - a[i] < d
        OBVIOUS
      <4>1. i \in 1..n /\ p \in 1..i
        BY <2>0, <1>0
      <4>2. a[p] <= a[i]
        BY <4>1 DEF InOrder
      <4>3. a[i] \in Nat /\ a[p] \in Nat
        BY <1>0, <2>0, <4>1
      <4> QED
        BY SMTT(30), <4>1, <4>2, <4>3, <2>2
    <3>2. Cardinality(p..n) = max
      <4>1. Cardinality(p..n) = IF p > n THEN 0 ELSE n - p + 1
        BY <2>0, FS_Interval
      <4> QED
        BY <4>1, <1>0, <1>4
    <3>3. max <= Cardinality(R)
      BY SMTT(30), <3>1, <3>2, <1>2, FS_Subset
    <3> HIDE DEF R, n
    <3>4. ~(Cardinality(R) < max)
      BY <3>3, <1>2
    <3> QED
      BY <3>4, <1>4, <2>2 DEF R, n
  <2> QED
    BY <2>1, <2>2
<1> QED
  BY <1>3, <1>4

\* Accepting a request when the max-th latest one has left the window keeps the
\* history spread.
LEMMA AppendSpread ==
  ASSUME NEW a \in Seq(Nat), NEW max \in Nat \ {0}, NEW d \in Nat, NEW now \in Nat,
         InOrder(a, now), Spread(a, max, d),
         Len(a) < max \/ now - a[Len(a) - max + 1] >= d
  PROVE  Spread(Append(a, now), max, d)
<1> DEFINE b == Append(a, now)
<1>1. /\ Len(b) = Len(a) + 1 /\ b[Len(a) + 1] = now
      /\ \A i \in 1..Len(a) : b[i] = a[i]
  OBVIOUS
<1> HIDE DEF b
<1>2. ASSUME NEW i \in 1..(Len(a) + 1), NEW j \in 1..(Len(a) + 1), j >= i + max
      PROVE  b[i] + d <= b[j]
  <2>1. i \in 1..Len(a)
    BY <1>2
  <2>2. CASE j \in 1..Len(a)
    BY <1>1, <1>2, <2>1, <2>2 DEF Spread
  <2>3. CASE j = Len(a) + 1
    <3> DEFINE p == Len(a) - max + 1
    <3>0. ~(Len(a) < max)
      BY <1>2, <2>1, <2>3
    <3>1. p \in 1..Len(a) /\ i \in 1..p
      BY <1>2, <2>1, <2>3
    <3>2. now - a[p] >= d
      BY <3>0
    <3> HIDE DEF p
    <3>3. a[i] <= a[p]
      BY <3>1 DEF InOrder
    <3>4. a[i] \in Nat /\ a[p] \in Nat
      BY SMTT(30), <2>1, <3>1
    <3>5. b[i] = a[i] /\ b[j] = now
      BY <1>1, <2>1, <2>3
    <3>6. a[i] + d <= now
      BY SMTT(30), <3>2, <3>3, <3>4
    <3> QED
      BY <3>5, <3>6
  <2> QED
    BY SMTT(30), <1>2, <2>2, <2>3
<1>3. Spread(b, max, d)
  BY <1>1, <1>2 DEF Spread
<1> QED
  BY <1>3 DEF b

----------------------------------------------------------------------------
(* The inductive invariant. *)

Inv == TypeOK /\ StoreRemembers

\* The limiter's state is initially as the invariant says.
LEMMA InitInv == Init => Inv
  BY LimitsAssumption DEF Init, Inv, TypeOK, StoreRemembers, InOrder, Remembers

\* Types are preserved by every step of InMemoryRateLimiter.
LEMMA TypePreserved == TypeOK /\ [Next]_vars => TypeOK'
<1> SUFFICES ASSUME TypeOK, [Next]_vars PROVE TypeOK'
  OBVIOUS
<1> USE LimitsAssumption
<1>1. CASE Tick
  BY <1>1 DEF TypeOK, Tick
<1>2. ASSUME NEW k \in Keys, Request(k) PROVE TypeOK'
  <2>1. CASE AcceptRoom(k)
    BY <2>1 DEF TypeOK, AcceptRoom, Told
  <2>2. CASE AcceptShift(k)
    <3>1. store[k] # <<>>
      BY <2>2 DEF TypeOK, AcceptShift, HasRoom
    <3>2. Tail(store[k]) \in Seq(Nat)
      BY <3>1 DEF TypeOK
    <3> QED
      BY <2>2, <3>2 DEF TypeOK, AcceptShift, Told
  <2>3. CASE Reject(k)
    BY <2>3 DEF TypeOK, Reject, Told
  <2> QED
    BY <1>2, <2>1, <2>2, <2>3 DEF Request
<1>3. CASE ClearExpiredItems
  BY <1>3 DEF TypeOK, ClearExpiredItems
<1>4. CASE UNCHANGED vars
  BY <1>4 DEF TypeOK, vars
<1> QED
  BY <1>1, <1>2, <1>3, <1>4 DEF Next

\* The invariant of one key.
KeyInv(k) ==
    /\ InOrder(accepted[k], clock)
    /\ Remembers(store[k], accepted[k], MaxRequestNum[k], Duration[k], clock)

\* The types of what belongs to one key.
LEMMA KeyTypes ==
  ASSUME TypeOK, NEW k \in Keys
  PROVE  /\ accepted[k] \in Seq(Nat) /\ store[k] \in Seq(Nat) /\ clock \in Nat
         /\ MaxRequestNum[k] \in Nat \ {0} /\ MaxRequestNum[k] \in Nat
         /\ Duration[k] \in Nat
         /\ Expiration \in Nat /\ Duration[k] <= Expiration
  BY LimitsAssumption DEF TypeOK

\* A step that leaves the key alone leaves its invariant alone, as time only
\* goes forward.
LEMMA KeyUntouched ==
  ASSUME TypeOK, TypeOK', NEW k \in Keys, KeyInv(k),
         store'[k] = store[k], accepted'[k] = accepted[k], clock <= clock'
  PROVE  KeyInv(k)'
<1>1. clock' \in Nat
  BY DEF TypeOK
<1>2. InOrder(accepted[k], clock')
  BY <1>1, KeyTypes, LaterInOrder DEF KeyInv
<1>3. Remembers(store[k], accepted[k], MaxRequestNum[k], Duration[k], clock')
  BY <1>1, KeyTypes, LaterRemembers DEF KeyInv
<1> QED
  BY <1>2, <1>3 DEF KeyInv

\* Every step of InMemoryRateLimiter keeps the invariant of every key.
LEMMA NextInv == Inv /\ [Next]_vars => Inv'
<1> SUFFICES ASSUME Inv, [Next]_vars PROVE Inv'
  OBVIOUS
<1>1. TypeOK /\ TypeOK' /\ StoreRemembers
  BY TypePreserved DEF Inv
<1>2. SUFFICES ASSUME NEW k \in Keys PROVE KeyInv(k)'
  BY <1>1 DEF Inv, StoreRemembers, KeyInv
<1>3. KeyInv(k)
  BY <1>1 DEF StoreRemembers, KeyInv
<1>4. CASE Tick
  <2>1. store'[k] = store[k] /\ accepted'[k] = accepted[k] /\ clock <= clock'
    BY <1>4, <1>1 DEF Tick, TypeOK
  <2> QED
    BY <1>1, <1>3, <2>1, KeyUntouched
<1>5. ASSUME NEW l \in Keys, Request(l) PROVE KeyInv(k)'
  <2>0. clock' = clock /\ clock <= clock
    BY <1>5, <1>1 DEF Request, AcceptRoom, AcceptShift, Reject, TypeOK
  <2>1. CASE l # k \/ Reject(l)
    <3>1. store'[k] = store[k] /\ accepted'[k] = accepted[k]
      BY <1>5, <2>1, <1>1 DEF Request, AcceptRoom, AcceptShift, Reject, TypeOK
    <3> QED
      BY <1>1, <1>3, <2>0, <3>1, KeyUntouched
  <2>2. CASE l = k /\ AcceptRoom(k)
    <3>1. /\ accepted'[k] = Append(accepted[k], clock)
          /\ store'[k] = Append(store[k], clock)
          /\ Len(store[k]) < MaxRequestNum[k]
      BY <2>2, <1>1 DEF AcceptRoom, HasRoom, TypeOK
    <3>2. InOrder(Append(accepted[k], clock), clock)
      BY <1>1, <1>3, KeyTypes, AppendInOrder DEF KeyInv
    <3>3. Remembers(Append(store[k], clock), Append(accepted[k], clock),
                    MaxRequestNum[k], Duration[k], clock)
      BY <1>1, <1>3, <3>1, KeyTypes, RoomRemembers DEF KeyInv
    <3> QED
      BY <2>0, <3>1, <3>2, <3>3 DEF KeyInv
  <2>3. CASE l = k /\ AcceptShift(k)
    <3>1. /\ accepted'[k] = Append(accepted[k], clock)
          /\ store'[k] = Append(Tail(store[k]), clock)
          /\ ~(Len(store[k]) < MaxRequestNum[k])
      BY <2>3, <1>1 DEF AcceptShift, HasRoom, TypeOK
    <3>2. InOrder(Append(accepted[k], clock), clock)
      BY <1>1, <1>3, KeyTypes, AppendInOrder DEF KeyInv
    <3>3. Remembers(Append(Tail(store[k]), clock), Append(accepted[k], clock),
                    MaxRequestNum[k], Duration[k], clock)
      BY <1>1, <1>3, <3>1, KeyTypes, ShiftRemembers DEF KeyInv
    <3> QED
      BY <2>0, <3>1, <3>2, <3>3 DEF KeyInv
  <2> QED
    BY <1>5, <2>1, <2>2, <2>3 DEF Request
<1>6. CASE ClearExpiredItems
  <2>0. clock' = clock /\ clock <= clock /\ accepted' = accepted
    BY <1>6, <1>1 DEF ClearExpiredItems, TypeOK
  <2>1. CASE ~Expired(k)
    <3>1. store'[k] = store[k]
      BY <1>6, <2>1 DEF ClearExpiredItems
    <3> QED
      BY <1>1, <1>3, <2>0, <3>1, KeyUntouched
  <2>2. CASE Expired(k)
    <3>1. store'[k] = <<>>
      BY <1>6, <2>2 DEF ClearExpiredItems
    <3>2. Remembers(<<>>, accepted[k], MaxRequestNum[k], Duration[k], clock)
      BY <1>1, <1>3, <2>2, KeyTypes, ClearRemembers DEF KeyInv, Expired
    <3> QED
      BY <1>3, <2>0, <3>1, <3>2 DEF KeyInv
  <2> QED
    BY <2>1, <2>2
<1>7. CASE UNCHANGED vars
  <2>1. store'[k] = store[k] /\ accepted'[k] = accepted[k] /\ clock <= clock'
    BY <1>7, <1>1 DEF vars, TypeOK
  <2> QED
    BY <1>1, <1>3, <2>1, KeyUntouched
<1> QED
  BY <1>4, <1>5, <1>6, <1>7 DEF Next

\* The map of InMemoryRateLimiter always remembers every accepted request that
\* still counts, whatever clearExpiredItems deletes.
THEOREM MapRemembers == Spec => []StoreRemembers
<1>1. Init => Inv
  BY InitInv
<1>2. Inv /\ [Next]_vars => Inv'
  BY NextInv
<1>3. Inv => StoreRemembers
  BY DEF Inv
<1> QED
  BY <1>1, <1>2, <1>3, PTL DEF Spec

----------------------------------------------------------------------------
(* Consequences. *)

\* Request lets a request through exactly when SlidingWindow allows it.
LEMMA RequestDecides ==
  ASSUME Inv, NEW k \in Keys
  PROVE  /\ HasRoom(k) \/ OldestLeft(k) <=> Window!Allowed(k)
         /\ HasRoom(k) \/ OldestLeft(k) <=>
              (\/ Len(accepted[k]) < MaxRequestNum[k]
               \/ clock - accepted[k][Len(accepted[k]) - MaxRequestNum[k] + 1] >= Duration[k])
<1>1. TypeOK /\ KeyInv(k)
  BY DEF Inv, StoreRemembers, KeyInv
<1>2. HasRoom(k) \/ OldestLeft(k) <=>
        (\/ Len(accepted[k]) < MaxRequestNum[k]
         \/ clock - accepted[k][Len(accepted[k]) - MaxRequestNum[k] + 1] >= Duration[k])
  BY <1>1, KeyTypes, MapDecides DEF KeyInv, HasRoom, OldestLeft
<1>3. Cardinality({i \in 1..Len(accepted[k]) : clock - accepted[k][i] < Duration[k]})
        < MaxRequestNum[k] <=>
        (\/ Len(accepted[k]) < MaxRequestNum[k]
         \/ clock - accepted[k][Len(accepted[k]) - MaxRequestNum[k] + 1] >= Duration[k])
  BY <1>1, KeyTypes, CountDecides DEF KeyInv
<1>4. Window!Allowed(k) <=>
        Cardinality({i \in 1..Len(accepted[k]) : clock - accepted[k][i] < Duration[k]})
          < MaxRequestNum[k]
  BY Zenon DEF Window!Allowed, Window!Recent, Window!Cardinality, Cardinality
<1> QED
  BY <1>2, <1>3, <1>4, Zenon

\* InMemoryRateLimiter implements the sliding window: its answers are those of
\* a limiter that remembers every request, for all limits and durations that
\* are not longer than the expiration.
THEOREM Implements == Spec => ImplementsWindow
<1>1. Init => Window!Init
  BY DEF Init, Window!Init
<1>2. Inv /\ [Next]_vars => [Window!Next]_(Window!vars)
  <2> SUFFICES ASSUME Inv, [Next]_vars PROVE [Window!Next]_(Window!vars)
    OBVIOUS
  <2>1. CASE Tick
    BY <2>1 DEF Tick, Window!Tick, Window!Next
  <2>2. ASSUME NEW k \in Keys, Request(k) PROVE Window!Next
    <3>1. CASE AcceptRoom(k) \/ AcceptShift(k)
      <4>1. Window!Allowed(k)
        BY <3>1, RequestDecides DEF AcceptRoom, AcceptShift
      <4>2. Window!Allow(k)
        BY <3>1, <4>1 DEF AcceptRoom, AcceptShift, Told, Window!Allow
      <4> QED
        BY <4>2 DEF Window!Next
    <3>2. CASE Reject(k)
      <4>1. ~Window!Allowed(k)
        BY <3>2, RequestDecides DEF Reject
      <4>2. Window!Refuse(k)
        BY <3>2, <4>1 DEF Reject, Told, Window!Refuse
      <4> QED
        BY <4>2 DEF Window!Next
    <3> QED
      BY <2>2, <3>1, <3>2 DEF Request
  <2>3. CASE ClearExpiredItems
    BY <2>3 DEF ClearExpiredItems, Window!vars
  <2>4. CASE UNCHANGED vars
    BY <2>4 DEF vars, Window!vars
  <2> QED
    BY <2>1, <2>2, <2>3, <2>4 DEF Next
<1>3. Init => Inv
  BY InitInv
<1>4. Inv /\ [Next]_vars => Inv'
  BY NextInv
<1> QED
  BY <1>1, <1>2, <1>3, <1>4, PTL DEF Spec, ImplementsWindow, Window!Spec

\* No MaxRequestNum + 1 requests under a key pass Request within Duration
\* seconds.
THEOREM WindowHolds == Spec => []WindowBound
<1>1. Init => Inv /\ WindowBound
  BY InitInv DEF Init, WindowBound, Spread
<1>2. (Inv /\ WindowBound) /\ [Next]_vars => (Inv /\ WindowBound)'
  <2> SUFFICES ASSUME Inv, WindowBound, [Next]_vars PROVE WindowBound'
    BY NextInv
  <2>0. TypeOK
    BY DEF Inv
  <2>1. SUFFICES ASSUME NEW k \in Keys
                 PROVE  Spread(accepted[k], MaxRequestNum[k], Duration[k])'
    BY DEF WindowBound
  <2>2. Spread(accepted[k], MaxRequestNum[k], Duration[k])
    BY DEF WindowBound
  <2>3. CASE accepted'[k] = accepted[k]
    BY <2>2, <2>3
  <2>4. CASE AcceptRoom(k) \/ AcceptShift(k)
    <3>1. accepted'[k] = Append(accepted[k], clock)
      BY <2>0, <2>4 DEF AcceptRoom, AcceptShift, TypeOK
    <3>2. \/ Len(accepted[k]) < MaxRequestNum[k]
          \/ clock - accepted[k][Len(accepted[k]) - MaxRequestNum[k] + 1] >= Duration[k]
      BY <2>4, RequestDecides DEF AcceptRoom, AcceptShift
    <3>3. InOrder(accepted[k], clock)
      BY DEF Inv, StoreRemembers
    <3>4. Spread(Append(accepted[k], clock), MaxRequestNum[k], Duration[k])
      BY <2>0, <2>2, <3>2, <3>3, KeyTypes, AppendSpread
    <3> QED
      BY <3>1, <3>4
  <2> QED
    BY <2>0, <2>3, <2>4
       DEF Next, Tick, Request, AcceptRoom, AcceptShift, Reject,
           ClearExpiredItems, vars, TypeOK
<1> QED
  BY <1>1, <1>2, PTL DEF Spec

\* The next round of clearExpiredItems is at most one period ahead.
WakesSoon == wake <= clock + Expiration

\* A key that two periods of clearExpiredItems found idle is not in the map.
THEOREM IdleKeysGo == Spec => []IdleKeysForgotten
<1> DEFINE IInv == TypeOK /\ StoreRemembers /\ WakesSoon /\ IdleKeysForgotten
<1>1. Init => IInv
  BY InitInv, LimitsAssumption
     DEF Init, Inv, WakesSoon, IdleKeysForgotten
<1>2. IInv /\ [Next]_vars => IInv'
  <2> SUFFICES ASSUME IInv, [Next]_vars PROVE IInv'
    OBVIOUS
  <2>0. TypeOK /\ TypeOK' /\ StoreRemembers' /\ Expiration \in Nat
    BY NextInv, LimitsAssumption DEF Inv
  <2>1. WakesSoon'
    <3>1. /\ wake <= clock + Expiration
          /\ clock \in Nat /\ wake \in Nat /\ clock' \in Nat
      BY <2>0 DEF WakesSoon, TypeOK
    <3>2. clock' >= clock
      BY <3>1 DEF Next, Tick, Request, AcceptRoom, AcceptShift, Reject,
                  ClearExpiredItems, vars
    <3>3. wake' = wake \/ (wake' = clock + Expiration /\ clock' = clock)
      BY DEF Next, Tick, Request, AcceptRoom, AcceptShift, Reject,
             ClearExpiredItems, vars
    <3> QED
      BY <2>0, <3>1, <3>2, <3>3 DEF WakesSoon
  <2>2. ASSUME NEW k \in Keys, store'[k] # <<>>
        PROVE  store'[k][Len(store'[k])] + 2 * Expiration >= wake'
    <3>0. /\ clock \in Nat /\ wake \in Nat /\ store[k] \in Seq(Nat)
          /\ wake <= clock + Expiration
      BY <2>0 DEF TypeOK, WakesSoon
    <3>1. CASE store'[k] = store[k] /\ wake' = wake
      BY <2>2, <3>1 DEF IdleKeysForgotten
    <3>2. CASE AcceptRoom(k) \/ AcceptShift(k)
      <4>1. wake' = wake
        BY <3>2 DEF AcceptRoom, AcceptShift
      <4>2. store'[k][Len(store'[k])] = clock
        <5>1. CASE AcceptRoom(k)
          <6>1. store'[k] = Append(store[k], clock)
            BY <2>0, <5>1 DEF AcceptRoom, TypeOK
          <6> QED
            BY <3>0, <6>1
        <5>2. CASE AcceptShift(k)
          <6>1. store'[k] = Append(Tail(store[k]), clock)
            BY <2>0, <5>2 DEF AcceptShift, TypeOK
          <6>2. store[k] # <<>>
            BY <3>0, <5>2, LimitsAssumption DEF AcceptShift, HasRoom
          <6>3. Tail(store[k]) \in Seq(Nat)
            BY <3>0, <6>2
          <6> QED
            BY <3>0, <6>1, <6>3
        <5> QED
          BY <3>2, <5>1, <5>2
      <4> QED
        BY <2>0, <3>0, <4>1, <4>2
    <3>3. CASE ClearExpiredItems
      <4>1. store'[k] = store[k] /\ ~Expired(k) /\ wake' = clock + Expiration
        BY <2>2, <3>3 DEF ClearExpiredItems
      <4>2. ~(clock - store[k][Len(store[k])] > Expiration)
        BY <2>2, <4>1 DEF Expired
      <4>3. store[k][Len(store[k])] \in Nat
        <5>1. Len(store[k]) \in 1..Len(store[k])
          BY <2>2, <3>0, <4>1
        <5> QED
          BY <3>0, <5>1
      <4> QED
        BY SMTT(30), <2>0, <3>0, <4>1, <4>2, <4>3
    <3> QED
      BY <2>0, <3>1, <3>2, <3>3
         DEF Next, Tick, Request, AcceptRoom, AcceptShift, Reject, vars, TypeOK
  <2> QED
    BY <2>0, <2>1, <2>2 DEF IdleKeysForgotten
<1>3. IInv => IdleKeysForgotten
  OBVIOUS
<1> QED
  BY <1>1, <1>2, <1>3, PTL DEF Spec

============================================================================
