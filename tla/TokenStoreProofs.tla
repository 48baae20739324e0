-------------------------- MODULE TokenStoreProofs --------------------------
(***************************************************************************)
(* What TokenStore promises, for all sets of channels, users, credentials  *)
(* and requests.                                                           *)
(***************************************************************************)
EXTENDS TokenStore, FiniteSetTheorems, SequenceTheorems, TLAPS

----------------------------------------------------------------------------
(* Rows and keys. *)

\* The key of a row is the row itself, and one of the map if the row has an item.
LEMMA KeyType ==
    ASSUME NEW r \in Row
    PROVE  /\ KeyOf(r) = r
           /\ HasItem(r) <=> r \in Keys
  BY DEF KeyOf, Row, Keys, HasItem

\* The key TokenStoreUpdateChannel computes is one of the map too.
LEMMA UpdatedKeyType ==
    ASSUME NEW old \in Row, NEW new \in Row, HasItem(old)
    PROVE  UpdatedKey(new, old) \in Keys
  BY DEF UpdatedKey, Keys, Row, HasItem

----------------------------------------------------------------------------
(* The steps of a handler. *)

\* The fields of a step.
LEMMA StepFields ==
    ASSUME NEW s \in HandlerStep
    PROVE  /\ s.do \in {"isShared", "remove", "refresh", "store", "save", "disable", "enable"}
           /\ s.do \in {"isShared", "remove", "refresh", "store"} => s.key \in Keys
           /\ s.do \in {"refresh", "store"} => s.chan \in Channels
           /\ s.do = "save" => s.chan \in Channels /\ s.old \in Row /\ s.new \in Row
           /\ s.do \in {"disable", "enable"} => s.user \in Users
  BY DEF HandlerStep

\* What comes after the first step.
LEMMA Rest ==
    ASSUME NEW t \in Seq(HandlerStep), t # <<>>
    PROVE  /\ Len(t) \in Nat \ {0}
           /\ Head(t) = t[1] /\ t[1] \in HandlerStep
           /\ Tail(t) \in Seq(HandlerStep)
           /\ Len(Tail(t)) = Len(t) - 1
           /\ \A i \in 1 .. Len(t) - 1 : Tail(t)[i] = t[i + 1]
  BY HeadTailProperties, EmptySeq, ElementOfSeq

\* A removal follows the question whether the item is shared, and the item that
\* is stored is the one that was refreshed just before; a handler that saves a
\* channel finds out afterwards what else to do.
Ordered(t) ==
    \A i \in 1 .. Len(t) :
      /\ t[i].do = "isShared" => i < Len(t) /\ t[i + 1].do = "remove" /\ t[i + 1].key = t[i].key
      /\ t[i].do = "remove" /\ i > 1 => t[i - 1].do = "isShared" /\ t[i - 1].key = t[i].key
      /\ t[i].do = "store" /\ i > 1 =>
           t[i - 1].do = "refresh" /\ t[i - 1].key = t[i].key /\ t[i - 1].chan = t[i].chan
      /\ t[i].do = "save" => Len(t) = 1

\* Steps a handler may start with.
Fit(t) ==
    /\ t \in Seq(HandlerStep)
    /\ Ordered(t)
    /\ t # <<>> => t[1].do \notin {"store", "remove"}

\* Ordered steps stay ordered as they are taken.
LEMMA OrderedRest ==
    ASSUME NEW t \in Seq(HandlerStep), t # <<>>, Ordered(t)
    PROVE  Ordered(Tail(t))
<1> DEFINE r == Tail(t)
<1>1. /\ Len(t) \in Nat \ {0} /\ Len(r) = Len(t) - 1
      /\ \A i \in 1 .. Len(t) - 1 : r[i] = t[i + 1]
  BY Rest
<1> HIDE DEF r
<1>2. ASSUME NEW i \in 1 .. Len(r)
      PROVE  /\ r[i].do = "isShared" => i < Len(r) /\ r[i + 1].do = "remove" /\ r[i + 1].key = r[i].key
             /\ r[i].do = "remove" /\ i > 1 => r[i - 1].do = "isShared" /\ r[i - 1].key = r[i].key
             /\ r[i].do = "store" /\ i > 1 =>
                  r[i - 1].do = "refresh" /\ r[i - 1].key = r[i].key /\ r[i - 1].chan = r[i].chan
             /\ r[i].do = "save" => Len(r) = 1
  <2>1. i \in Nat /\ i + 1 \in 1 .. Len(t) /\ r[i] = t[i + 1] /\ i + 1 > 1 /\ (i + 1) - 1 = i
    BY <1>1
  <2>2. i > 1 => i \in 1 .. Len(t) /\ r[i - 1] = t[i]
    BY <1>1, <2>1
  <2>3. i + 1 < Len(t) => i < Len(r) /\ r[i + 1] = t[(i + 1) + 1]
    BY <1>1, <2>1
  <2>4. r[i].do # "save"
    BY <1>1, <2>1 DEF Ordered
  <2>5. \A j \in 1 .. Len(t) : j = i + 1 =>
          /\ t[j].do = "isShared" => j < Len(t) /\ t[j + 1].do = "remove" /\ t[j + 1].key = t[j].key
          /\ t[j].do = "remove" => t[i].do = "isShared" /\ t[i].key = t[j].key
          /\ t[j].do = "store" =>
               t[i].do = "refresh" /\ t[i].key = t[j].key /\ t[i].chan = t[j].chan
    <3> TAKE j \in 1 .. Len(t)
    <3> HAVE j = i + 1
    <3>1. j > 1 /\ j - 1 = i
      BY <2>1
    <3> QED
      BY <3>1 DEF Ordered
  <2> QED
    BY <2>1, <2>2, <2>3, <2>4, <2>5
<1> QED
  BY <1>2 DEF Ordered, r

\* The two steps that drop an item.
LEMMA DropFit == ASSUME NEW k \in Keys PROVE Fit(DropSteps(k)) /\ Len(DropSteps(k)) = 2
<1> DEFINE a == [do |-> "isShared", key |-> k]
           b == [do |-> "remove", key |-> k]
<1>1. a \in HandlerStep /\ b \in HandlerStep
  BY DEF HandlerStep
<1>2. DropSteps(k) = <<a, b>>
  BY DEF DropSteps
<1>3. a.do = "isShared" /\ b.do = "remove" /\ a.key = b.key
  OBVIOUS
<1> HIDE DEF a, b
<1>4. <<a, b>> \in Seq(HandlerStep) /\ Len(<<a, b>>) = 2 /\ <<a, b>>[1] = a /\ <<a, b>>[2] = b
  BY <1>1
<1>5. Ordered(<<a, b>>)
  <2>1. ASSUME NEW i \in 1 .. 2 PROVE i = 1 \/ i = 2
    OBVIOUS
  <2> QED
    BY <1>3, <1>4, <2>1 DEF Ordered
<1> QED
  BY <1>2, <1>3, <1>4, <1>5 DEF Fit

\* The two steps that put an item into the store, if it is filled.
LEMMA PutFit ==
    ASSUME NEW k \in Keys, NEW c \in Channels
    PROVE  /\ Fit(PutSteps(k, c))
           /\ IsFilled(k) => /\ Len(PutSteps(k, c)) = 2
                             /\ PutSteps(k, c)[2].do = "store" /\ PutSteps(k, c)[2].key = k
           /\ ~IsFilled(k) => PutSteps(k, c) = <<>>
<1> DEFINE a == [do |-> "refresh", key |-> k, chan |-> c]
           b == [do |-> "store", key |-> k, chan |-> c]
<1>1. a \in HandlerStep /\ b \in HandlerStep
  BY DEF HandlerStep
<1>2. PutSteps(k, c) = IF IsFilled(k) THEN <<a, b>> ELSE <<>>
  BY DEF PutSteps
<1>3. a.do = "refresh" /\ b.do = "store" /\ a.key = b.key /\ a.chan = b.chan /\ b.key = k
  OBVIOUS
<1> HIDE DEF a, b
<1>4. <<a, b>> \in Seq(HandlerStep) /\ Len(<<a, b>>) = 2 /\ <<a, b>>[1] = a /\ <<a, b>>[2] = b
  BY <1>1
<1>5. Ordered(<<a, b>>)
  <2>1. ASSUME NEW i \in 1 .. 2 PROVE i = 1 \/ i = 2
    OBVIOUS
  <2> QED
    BY <1>3, <1>4, <2>1 DEF Ordered
<1>6. Fit(<<>>)
  BY EmptySeq DEF Fit, Ordered
<1> QED
  BY <1>2, <1>3, <1>4, <1>5, <1>6 DEF Fit

\* Steps that may follow each other.
LEMMA FitConcat ==
    ASSUME NEW s, NEW t, Fit(s), Fit(t), \A i \in 1 .. Len(s) : s[i].do # "save",
           \A i \in 1 .. Len(t) : t[i].do # "save"
    PROVE  Fit(s \o t)
<1> DEFINE n == Len(s)
           v == s \o t
<1>1. /\ v \in Seq(HandlerStep) /\ Len(v) = n + Len(t) /\ n \in Nat /\ Len(t) \in Nat
      /\ \A i \in 1 .. n + Len(t) : v[i] = IF i <= n THEN s[i] ELSE t[i - n]
  BY ConcatProperties, LenProperties DEF Fit
<1> HIDE DEF v, n
<1>2. Ordered(s) /\ Ordered(t)
  BY DEF Fit
<1>3. Len(t) > 0 => t[1].do \notin {"store", "remove"}
  BY EmptySeq DEF Fit
<1>4. n > 0 => s[1].do \notin {"store", "remove"}
  BY EmptySeq DEF Fit, n
<1>5. ASSUME NEW i \in 1 .. Len(v)
      PROVE  /\ v[i].do = "isShared" => i < Len(v) /\ v[i + 1].do = "remove" /\ v[i + 1].key = v[i].key
             /\ v[i].do = "remove" /\ i > 1 => v[i - 1].do = "isShared" /\ v[i - 1].key = v[i].key
             /\ v[i].do = "store" /\ i > 1 =>
                  v[i - 1].do = "refresh" /\ v[i - 1].key = v[i].key /\ v[i - 1].chan = v[i].chan
             /\ v[i].do # "save"
  <2>1. CASE i <= n
    <3>1. v[i] = s[i] /\ i \in 1 .. n
      BY <1>1, <2>1
    <3>2. i < n => v[i + 1] = s[i + 1] /\ i < Len(v)
      BY <1>1, <2>1
    <3>3. i > 1 => v[i - 1] = s[i - 1]
      BY <1>1, <2>1
    <3> QED
      BY <1>2, <3>1, <3>2, <3>3 DEF Ordered, n
  <2>2. CASE i > n
    <3>1. v[i] = t[i - n] /\ i - n \in 1 .. Len(t)
      BY <1>1, <2>2
    <3>2. i - n < Len(t) => v[i + 1] = t[(i - n) + 1] /\ i < Len(v)
      <4>1. i + 1 - n = (i - n) + 1
        BY <1>1
      <4> QED
        BY <1>1, <2>2, <4>1
    <3>3. i - n > 1 => v[i - 1] = t[(i - n) - 1]
      <4>1. i - 1 - n = (i - n) - 1
        BY <1>1
      <4> QED
        BY <1>1, <2>2, <4>1
    <3>4. i - n > 1 \/ i - n = 1
      BY <3>1
    <3>5. i - n = 1 => v[i].do \notin {"store", "remove"}
      BY <1>3, <3>1
    <3> QED
      BY SMTT(30), <1>2, <3>1, <3>2, <3>3, <3>4, <3>5 DEF Ordered
  <2> QED
    BY <1>1, <2>1, <2>2
<1>6. v # <<>> => v[1].do \notin {"store", "remove"}
  <2>1. v # <<>> => Len(v) > 0
    BY <1>1, EmptySeq
  <2>2. n > 0 => v[1] = s[1]
    BY <1>1
  <2>3. n = 0 /\ Len(v) > 0 => v[1] = t[1] /\ Len(t) > 0
    BY <1>1
  <2> QED
    BY <1>1, <1>3, <1>4, <2>1, <2>2, <2>3
<1>7. Ordered(v)
  BY <1>5 DEF Ordered
<1> QED
  BY <1>1, <1>6, <1>7 DEF Fit, v

\* The steps of TokenStoreUpdateChannel.
LEMMA UpdateFit ==
    ASSUME NEW old \in Row, NEW new \in Row, NEW c \in Channels
    PROVE  /\ Fit(UpdateSteps(new, old, c))
           /\ \A i \in 1 .. Len(UpdateSteps(new, old, c)) :
                UpdateSteps(new, old, c)[i].do \in {"isShared", "remove", "refresh", "store"}
<1>1. CASE HasItem(old)
  <2> DEFINE s == DropSteps(KeyOf(old))
             t == PutSteps(UpdatedKey(new, old), c)
  <2>1. KeyOf(old) \in Keys /\ UpdatedKey(new, old) \in Keys
    BY <1>1, KeyType, UpdatedKeyType
  <2>2. Fit(s) /\ Fit(t)
    BY <2>1, DropFit, PutFit
  <2>3. \A i \in 1 .. Len(s) : s[i].do \in {"isShared", "remove"}
    BY DEF DropSteps
  <2>4. \A i \in 1 .. Len(t) : t[i].do \in {"refresh", "store"}
    BY DEF PutSteps
  <2>5. UpdateSteps(new, old, c) = s \o t
    BY <1>1 DEF UpdateSteps
  <2> HIDE DEF s, t
  <2>6. Fit(s \o t)
    BY <2>2, <2>3, <2>4, FitConcat
  <2>7. /\ Len(s) \in Nat /\ Len(t) \in Nat /\ Len(s \o t) = Len(s) + Len(t)
        /\ \A i \in 1 .. Len(s) + Len(t) : (s \o t)[i] = IF i <= Len(s) THEN s[i] ELSE t[i - Len(s)]
    BY <2>2, ConcatProperties, LenProperties DEF Fit
  <2>8. ASSUME NEW i \in 1 .. Len(s \o t)
        PROVE  (s \o t)[i].do \in {"isShared", "remove", "refresh", "store"}
    <3>1. CASE i <= Len(s)
      BY <2>3, <2>7, <3>1
    <3>2. CASE i > Len(s)
      <4>1. i - Len(s) \in 1 .. Len(t) /\ (s \o t)[i] = t[i - Len(s)]
        BY <2>7, <3>2
      <4> QED
        BY <2>4, <4>1
    <3> QED
      BY <2>7, <3>1, <3>2
  <2> QED
    BY <2>5, <2>6, <2>8
<1>2. CASE ~HasItem(old)
  <2>1. UpdateSteps(new, old, c) = <<>>
    BY <1>2 DEF UpdateSteps
  <2> QED
    BY <2>1, EmptySeq DEF Fit, Ordered
<1> QED
  BY <1>1, <1>2

\* The elements of a set of channels, one after the other.
LEMMA SeqOfChannels ==
    ASSUME NEW S \in SUBSET Channels
    PROVE  /\ Len(SetToSeq(S)) \in Nat
           /\ \A m \in 1 .. Len(SetToSeq(S)) : SetToSeq(S)[m] \in S
           /\ \A c \in S : \E m \in 1 .. Len(SetToSeq(S)) : SetToSeq(S)[m] = c
<1> DEFINE n == Cardinality(S)
           f == SetToSeq(S)
<1>1. IsFiniteSet(S)
  BY FS_Subset, ChannelsAssumption
<1>2. n \in Nat /\ \E g : g \in Bijection(1 .. n, S)
  BY <1>1, FS_CardinalityType DEF ExistsBijection
<1>3. \E g \in [1 .. n -> S] : IsInjective(g)
  BY <1>2 DEF Bijection, Injection
<1>4. f \in [1 .. n -> S] /\ IsInjective(f)
  BY <1>3 DEF SetToSeq
<1> HIDE DEF f
<1>5. f \in Injection(1 .. n, S)
  BY <1>4 DEF Injection
<1>6. Cardinality(1 .. n) = n
  BY <1>2, FS_Interval
<1>7. f \in Surjection(1 .. n, S)
  BY <1>1, <1>5, <1>6, FS_Injection
<1>8. Len(f) = n
  BY <1>2, <1>4
<1> QED
  BY <1>2, <1>4, <1>7, <1>8 DEF Surjection, f

\* Two steps for each member of a sequence.
LEMMA Halves ==
    ASSUME NEW n \in Nat, NEW i \in 1 .. 2 * n
    PROVE  /\ (i + 1) \div 2 \in 1 .. n
           /\ i % 2 = 1 => /\ i < 2 * n /\ (i + 1) % 2 = 0
                           /\ ((i + 1) + 1) \div 2 = (i + 1) \div 2
           /\ i % 2 # 1 => /\ i % 2 = 0 /\ i > 1 /\ (i - 1) % 2 = 1
                           /\ ((i - 1) + 1) \div 2 = (i + 1) \div 2
  OBVIOUS

\* The second of the two steps for the m-th member.
LEMMA Doubles ==
    ASSUME NEW n \in Nat, NEW m \in 1 .. n
    PROVE  2 * m \in 1 .. 2 * n /\ (2 * m + 1) \div 2 = m /\ (2 * m) % 2 = 0
  OBVIOUS

\* TokenStoreRemoveUser and the status after it: every step but the last is
\* about the item of a channel of the user.
LEMMA RemoveUserFit ==
    ASSUME TypeOK, NEW u \in Users
    PROVE  LET t == RemoveUserSteps(u) \o <<[do |-> "disable", user |-> u]>>
           IN /\ Fit(t)
              /\ t[Len(t)].do = "disable" /\ t[Len(t)].user = u
              /\ \A i \in 1 .. Len(t) : t[i].do = "remove" => i < Len(t) /\
                   \E c \in Channels : Owner[c] = u /\ row[c] # NoRow /\ t[i].key = KeyOf(row[c])
              /\ \A i \in 1 .. Len(t) : t[i].do \in {"isShared", "remove", "disable"}
<1> DEFINE chans == SetToSeq(UserChannels(u))
           n == Len(chans)
           K(m) == KeyOf(row[chans[m]])
           s == RemoveUserSteps(u)
           last == [do |-> "disable", user |-> u]
<1>1. UserChannels(u) \in SUBSET Channels
  BY DEF UserChannels
<1>2. n \in Nat /\ \A m \in 1 .. n : chans[m] \in UserChannels(u)
  BY <1>1, SeqOfChannels
<1>3. s = [i \in 1 .. 2 * n |-> DropSteps(K((i + 1) \div 2))[2 - (i % 2)]]
  BY DEF RemoveUserSteps
<1> HIDE DEF chans, n, s
<1>4. ASSUME NEW m \in 1 .. n
      PROVE  /\ chans[m] \in Channels /\ Owner[chans[m]] = u /\ row[chans[m]] # NoRow
             /\ K(m) \in Keys
  BY <1>2, KeyType DEF UserChannels, TypeOK
<1> HIDE DEF K
<1>5. ASSUME NEW i \in 1 .. 2 * n
      PROVE  /\ i % 2 = 1 => s[i] = [do |-> "isShared", key |-> K((i + 1) \div 2)]
             /\ i % 2 # 1 => s[i] = [do |-> "remove", key |-> K((i + 1) \div 2)]
  <2>1. s[i] = DropSteps(K((i + 1) \div 2))[2 - (i % 2)]
    BY <1>3
  <2>2. i % 2 = 1 \/ i % 2 = 0
    BY <1>2, Halves
  <2>3. CASE i % 2 = 1
    <3>1. 2 - (i % 2) = 1
      BY <2>3
    <3> QED
      BY <2>1, <2>3, <3>1 DEF DropSteps
  <2>4. CASE i % 2 = 0
    <3>1. 2 - (i % 2) = 2
      BY <2>4
    <3> QED
      BY <2>1, <2>4, <3>1 DEF DropSteps
  <2> QED
    BY <2>2, <2>3, <2>4
<1>6. s \in Seq(HandlerStep) /\ Len(s) = 2 * n
  <2>1. ASSUME NEW i \in 1 .. 2 * n PROVE s[i] \in HandlerStep
    <3>1. (i + 1) \div 2 \in 1 .. n
      BY <1>2, Halves
    <3>2. K((i + 1) \div 2) \in Keys
      BY <1>4, <3>1
    <3>3. \A k \in Keys : [do |-> "isShared", key |-> k] \in HandlerStep /\ [do |-> "remove", key |-> k] \in HandlerStep
      BY DEF HandlerStep
    <3> QED
      BY <1>5, <3>2, <3>3
  <2>2. DOMAIN s = 1 .. 2 * n /\ 2 * n \in Nat
    BY <1>2, <1>3
  <2>3. s \in [1 .. 2 * n -> HandlerStep]
    BY <1>3, <2>1
  <2> QED
    BY <2>2, <2>3
<1>7. ASSUME NEW i \in 1 .. 2 * n
      PROVE  /\ s[i].do = "isShared" => i < 2 * n /\ s[i + 1].do = "remove" /\ s[i + 1].key = s[i].key
             /\ s[i].do = "remove" => /\ i > 1 /\ s[i - 1].do = "isShared" /\ s[i - 1].key = s[i].key
                                      /\ s[i].key = K((i + 1) \div 2) /\ (i + 1) \div 2 \in 1 .. n
             /\ s[i].do \in {"isShared", "remove"}
  <2>1. CASE i % 2 = 1
    <3>1. i < 2 * n /\ (i + 1) % 2 = 0 /\ ((i + 1) + 1) \div 2 = (i + 1) \div 2
      BY <1>2, <2>1, Halves
    <3>2. i + 1 \in 1 .. 2 * n /\ (i + 1) % 2 # 1
      BY <1>2, <3>1
    <3>3. s[i + 1] = [do |-> "remove", key |-> K((i + 1) \div 2)]
      BY <1>5, <3>1, <3>2
    <3>4. s[i + 1].do = "remove" /\ s[i + 1].key = K((i + 1) \div 2)
      BY <3>3
    <3>5. s[i] = [do |-> "isShared", key |-> K((i + 1) \div 2)]
      BY <1>5, <2>1
    <3>6. s[i].do = "isShared" /\ s[i].key = K((i + 1) \div 2)
      BY <3>5
    <3> QED
      BY <3>1, <3>4, <3>6
  <2>2. CASE i % 2 # 1
    <3>1. i > 1 /\ (i - 1) % 2 = 1 /\ ((i - 1) + 1) \div 2 = (i + 1) \div 2 /\ (i + 1) \div 2 \in 1 .. n
      BY <1>2, <2>2, Halves
    <3>2. i - 1 \in 1 .. 2 * n
      BY <1>2, <3>1
    <3>3. s[i - 1] = [do |-> "isShared", key |-> K((i + 1) \div 2)]
      BY <1>5, <3>1, <3>2
    <3>4. s[i - 1].do = "isShared" /\ s[i - 1].key = K((i + 1) \div 2)
      BY <3>3
    <3>5. s[i] = [do |-> "remove", key |-> K((i + 1) \div 2)]
      BY <1>5, <2>2
    <3>6. s[i].do = "remove" /\ s[i].key = K((i + 1) \div 2)
      BY <3>5
    <3> QED
      BY <3>1, <3>4, <3>6
  <2> QED
    BY <2>1, <2>2
<1>8. Fit(s)
  <2>1. Ordered(s)
    <3>1. ASSUME NEW i \in 1 .. Len(s)
          PROVE  /\ s[i].do = "isShared" => i < Len(s) /\ s[i + 1].do = "remove" /\ s[i + 1].key = s[i].key
                 /\ s[i].do = "remove" => i > 1 /\ s[i - 1].do = "isShared" /\ s[i - 1].key = s[i].key
                 /\ s[i].do \in {"isShared", "remove"}
      BY <1>6, <1>7
    <3> QED
      BY <3>1 DEF Ordered
  <2>2. s # <<>> => 1 \in 1 .. 2 * n
    BY <1>2, <1>6, EmptySeq
  <2>3. s # <<>> => s[1].do \notin {"store", "remove"}
    BY <1>7, <2>2
  <2> QED
    BY <1>6, <2>1, <2>3 DEF Fit
<1>9. last.do = "disable" /\ last.user = u /\ last \in HandlerStep
  BY DEF HandlerStep
<1> HIDE DEF last
<1>10. Fit(<<last>>) /\ Len(<<last>>) = 1 /\ <<last>>[1] = last /\ <<last>> \in Seq(HandlerStep)
  BY <1>9 DEF Fit, Ordered
<1>11. Fit(s \o <<last>>)
  <2>1. \A i \in 1 .. Len(s) : s[i].do # "save"
    BY <1>6, <1>7
  <2>2. \A i \in 1 .. Len(<<last>>) : <<last>>[i].do # "save"
    BY <1>9, <1>10
  <2> QED
    BY <1>8, <1>10, <2>1, <2>2, FitConcat
<1> DEFINE t == s \o <<last>>
<1>12. /\ Len(t) = 2 * n + 1
       /\ \A i \in 1 .. 2 * n : t[i] = s[i]
       /\ t[2 * n + 1] = last
  BY <1>2, <1>6, <1>10, ConcatProperties
<1> HIDE DEF t
<1>13. ASSUME NEW i \in 1 .. Len(t)
       PROVE  /\ t[i].do = "remove" => i < Len(t) /\
                   \E c \in Channels : Owner[c] = u /\ row[c] # NoRow /\ t[i].key = KeyOf(row[c])
              /\ t[i].do \in {"isShared", "remove", "disable"}
  <2>1. CASE i = 2 * n + 1
    BY <1>9, <1>12, <2>1
  <2>2. CASE i \in 1 .. 2 * n
    <3>1. t[i] = s[i] /\ i < Len(t)
      BY <1>2, <1>12, <2>2
    <3>2. s[i].do \in {"isShared", "remove"}
      BY <1>7, <2>2
    <3>3. s[i].do = "remove" => s[i].key = K((i + 1) \div 2) /\ (i + 1) \div 2 \in 1 .. n
      BY <1>7, <2>2
    <3> QED
      BY <1>4, <3>1, <3>2, <3>3 DEF K
  <2> QED
    BY <1>2, <1>12, <2>1, <2>2
<1>14. t[Len(t)] = last
  BY <1>12
<1> QED
  BY <1>9, <1>11, <1>13, <1>14 DEF t, s, last

\* TokenStoreAddUser and the status after it: the item of every channel of the
\* user is stored, if it is filled.
LEMMA AddUserFit ==
    ASSUME TypeOK, NEW u \in Users
    PROVE  LET t == AddUserSteps(u) \o <<[do |-> "enable", user |-> u]>>
           IN /\ Fit(t)
              /\ \A i \in 1 .. Len(t) : t[i].do \in {"refresh", "store", "enable"}
              /\ \A i \in 1 .. Len(t) : t[i].do = "enable" => t[i].user = u
              /\ \A c \in Channels :
                   Owner[c] = u /\ row[c] # NoRow /\ HasItem(row[c]) /\ IsFilled(KeyOf(row[c])) =>
                     \E i \in 1 .. Len(t) : t[i].do = "store" /\ t[i].key = KeyOf(row[c])
<1> DEFINE S == {c \in UserChannels(u) : IsFilled(KeyOf(row[c]))}
           chans == SetToSeq(S)
           n == Len(chans)
           K(m) == KeyOf(row[chans[m]])
           s == AddUserSteps(u)
           last == [do |-> "enable", user |-> u]
<1>1. S \in SUBSET Channels
  BY DEF UserChannels
<1>2. /\ n \in Nat /\ \A m \in 1 .. n : chans[m] \in S
      /\ \A c \in S : \E m \in 1 .. n : chans[m] = c
  BY <1>1, SeqOfChannels
<1>3. s = [i \in 1 .. 2 * n |-> PutSteps(K((i + 1) \div 2), chans[(i + 1) \div 2])[2 - (i % 2)]]
  BY DEF AddUserSteps
<1> HIDE DEF chans, n, s
<1>4. ASSUME NEW m \in 1 .. n
      PROVE  chans[m] \in Channels /\ K(m) \in Keys /\ IsFilled(K(m))
  BY <1>2, KeyType DEF UserChannels, TypeOK
<1> HIDE DEF K
<1>5. ASSUME NEW i \in 1 .. 2 * n
      PROVE  /\ (i + 1) \div 2 \in 1 .. n
             /\ i % 2 = 1 => s[i] = [do |-> "refresh", key |-> K((i + 1) \div 2), chan |-> chans[(i + 1) \div 2]]
             /\ i % 2 # 1 => s[i] = [do |-> "store", key |-> K((i + 1) \div 2), chan |-> chans[(i + 1) \div 2]]
  <2>1. s[i] = PutSteps(K((i + 1) \div 2), chans[(i + 1) \div 2])[2 - (i % 2)]
    BY <1>3
  <2>2. i % 2 = 1 \/ i % 2 = 0
    BY <1>2, Halves
  <2>3. (i + 1) \div 2 \in 1 .. n
    BY <1>2, Halves
  <2>4. IsFilled(K((i + 1) \div 2))
    BY <1>4, <2>3
  <2>5. CASE i % 2 = 1
    <3>1. 2 - (i % 2) = 1
      BY <2>5
    <3> QED
      BY <2>1, <2>3, <2>4, <2>5, <3>1 DEF PutSteps
  <2>6. CASE i % 2 = 0
    <3>1. 2 - (i % 2) = 2
      BY <2>6
    <3> QED
      BY <2>1, <2>3, <2>4, <2>6, <3>1 DEF PutSteps
  <2> QED
    BY <2>2, <2>5, <2>6
<1>6. s \in Seq(HandlerStep) /\ Len(s) = 2 * n
  <2>1. ASSUME NEW i \in 1 .. 2 * n PROVE s[i] \in HandlerStep
    <3>1. K((i + 1) \div 2) \in Keys /\ chans[(i + 1) \div 2] \in Channels
      BY <1>4, <1>5
    <3>2. \A k \in Keys, c \in Channels :
            /\ [do |-> "refresh", key |-> k, chan |-> c] \in HandlerStep
            /\ [do |-> "store", key |-> k, chan |-> c] \in HandlerStep
      BY DEF HandlerStep
    <3> QED
      BY <1>5, <3>1, <3>2
  <2>2. DOMAIN s = 1 .. 2 * n /\ 2 * n \in Nat
    BY <1>2, <1>3
  <2>3. s \in [1 .. 2 * n -> HandlerStep]
    BY <1>3, <2>1
  <2> QED
    BY <2>2, <2>3
<1>7. ASSUME NEW i \in 1 .. 2 * n
      PROVE  /\ s[i].do = "store" => /\ i > 1 /\ s[i - 1].do = "refresh"
                                     /\ s[i - 1].key = s[i].key /\ s[i - 1].chan = s[i].chan
             /\ s[i].do \in {"refresh", "store"}
             /\ i = 1 => s[i].do = "refresh"
             /\ i % 2 = 0 => s[i].do = "store" /\ s[i].key = K((i + 1) \div 2)
  <2>1. CASE i % 2 = 1
    <3>1. s[i] = [do |-> "refresh", key |-> K((i + 1) \div 2), chan |-> chans[(i + 1) \div 2]]
      BY <1>5, <2>1
    <3>2. s[i].do = "refresh"
      BY <3>1
    <3> QED
      BY <2>1, <3>2
  <2>2. CASE i % 2 # 1
    <3>1. i > 1 /\ (i - 1) % 2 = 1 /\ ((i - 1) + 1) \div 2 = (i + 1) \div 2
      BY <1>2, <2>2, Halves
    <3>2. i - 1 \in 1 .. 2 * n
      BY <1>2, <3>1
    <3>3. s[i - 1] = [do |-> "refresh", key |-> K((i + 1) \div 2), chan |-> chans[(i + 1) \div 2]]
      BY <1>5, <3>1, <3>2
    <3>4. s[i - 1].do = "refresh" /\ s[i - 1].key = K((i + 1) \div 2) /\ s[i - 1].chan = chans[(i + 1) \div 2]
      BY <3>3
    <3>5. s[i] = [do |-> "store", key |-> K((i + 1) \div 2), chan |-> chans[(i + 1) \div 2]]
      BY <1>5, <2>2
    <3>6. s[i].do = "store" /\ s[i].key = K((i + 1) \div 2) /\ s[i].chan = chans[(i + 1) \div 2]
      BY <3>5
    <3> QED
      BY <3>1, <3>4, <3>6
  <2> QED
    BY <2>1, <2>2
<1>8. Fit(s)
  <2>1. Ordered(s)
    <3>1. ASSUME NEW i \in 1 .. Len(s)
          PROVE  /\ s[i].do = "store" => /\ s[i - 1].do = "refresh"
                                         /\ s[i - 1].key = s[i].key /\ s[i - 1].chan = s[i].chan
                 /\ s[i].do \in {"refresh", "store"}
      BY <1>6, <1>7
    <3> QED
      BY <3>1 DEF Ordered
  <2>2. s # <<>> => 1 \in 1 .. 2 * n
    BY <1>2, <1>6, EmptySeq
  <2>3. s # <<>> => s[1].do \notin {"store", "remove"}
    BY <1>7, <2>2
  <2> QED
    BY <1>6, <2>1, <2>3 DEF Fit
<1>9. last.do = "enable" /\ last.user = u /\ last \in HandlerStep
  BY DEF HandlerStep
<1> HIDE DEF last
<1>10. Fit(<<last>>) /\ Len(<<last>>) = 1 /\ <<last>>[1] = last /\ <<last>> \in Seq(HandlerStep)
  BY <1>9 DEF Fit, Ordered
<1>11. Fit(s \o <<last>>)
  <2>1. \A i \in 1 .. Len(s) : s[i].do # "save"
    BY <1>6, <1>7
  <2>2. \A i \in 1 .. Len(<<last>>) : <<last>>[i].do # "save"
    BY <1>9, <1>10
  <2> QED
    BY <1>8, <1>10, <2>1, <2>2, FitConcat
<1> DEFINE t == s \o <<last>>
<1>12. /\ Len(t) = 2 * n + 1
       /\ \A i \in 1 .. 2 * n : t[i] = s[i]
       /\ t[2 * n + 1] = last
  BY <1>2, <1>6, <1>10, ConcatProperties
<1> HIDE DEF t
<1>13. ASSUME NEW i \in 1 .. Len(t)
       PROVE  /\ t[i].do \in {"refresh", "store", "enable"}
              /\ t[i].do = "enable" => t[i].user = u
  <2>1. CASE i = 2 * n + 1
    BY <1>9, <1>12, <2>1
  <2>2. CASE i \in 1 .. 2 * n
    BY <1>7, <1>12, <2>2
  <2> QED
    BY <1>2, <1>12, <2>1, <2>2
<1>14. ASSUME NEW c \in Channels, Owner[c] = u, row[c] # NoRow, HasItem(row[c]), IsFilled(KeyOf(row[c]))
       PROVE  \E i \in 1 .. Len(t) : t[i].do = "store" /\ t[i].key = KeyOf(row[c])
  <2>1. PICK m \in 1 .. n : chans[m] = c
    BY <1>2, <1>14 DEF UserChannels
  <2>2. 2 * m \in 1 .. 2 * n /\ (2 * m + 1) \div 2 = m /\ (2 * m) % 2 = 0
    BY <1>2, Doubles
  <2>3. s[2 * m].do = "store" /\ s[2 * m].key = K(m)
    BY <1>7, <2>2
  <2>4. 2 * m \in 1 .. Len(t) /\ t[2 * m] = s[2 * m]
    BY <1>2, <1>12, <2>2
  <2> QED
    BY <2>1, <2>3, <2>4 DEF K
<1> QED
  BY <1>9, <1>11, <1>13, <1>14 DEF t, s, last

----------------------------------------------------------------------------
(* Types and order. *)

\* All handlers have ordered steps to do.
TodoOrdered == \A h \in Requests : Ordered(todo[h])

\* A handler starts, or takes its next step.
Starts(h) ==
    \/ AddChannel(h) \/ DeleteChannel(h) \/ UpdateChannel(h) \/ UpdateChannelStatus(h)
    \/ DisableUser(h) \/ EnableUser(h)

Proceeds(h) ==
    \/ SaveChannel(h) \/ QueryShared(h) \/ TokenStoreRemoveItem(h)
    \/ RefreshItem(h) \/ StoreItem(h) \/ SaveUser(h)

\* A handler starts with steps that fit, and has not touched the store yet.
LEMMA StartsFit ==
    ASSUME TypeOK, NEW h \in Requests, Starts(h)
    PROVE  /\ \E t : Fit(t) /\ todo' = [todo EXCEPT ![h] = t]
           /\ row' \in [Channels -> Row \cup {NoRow}]
           /\ started' \subseteq Requests /\ disturbed' \subseteq Keys
           /\ UNCHANGED <<enabled, map, item, refresherVars, failures>>
<1>0. ASSUME NEW r \in Row, NEW s \in Row, NEW c \in Channels
      PROVE  Fit(<<[do |-> "save", chan |-> c, old |-> r, new |-> s]>>)
  <2> DEFINE a == [do |-> "save", chan |-> c, old |-> r, new |-> s]
  <2>1. a \in HandlerStep /\ a.do = "save"
    BY DEF HandlerStep
  <2> HIDE DEF a
  <2>2. <<a>> \in Seq(HandlerStep) /\ Len(<<a>>) = 1 /\ <<a>>[1] = a
    BY <2>1
  <2>3. Fit(<<a>>)
    BY <2>1, <2>2 DEF Fit, Ordered
  <2> QED
    BY <2>3 DEF a
<1>1. Fit(<<>>)
  BY EmptySeq DEF Fit, Ordered
<1>2. /\ started' \subseteq Requests /\ disturbed' \subseteq Keys
      /\ UNCHANGED <<enabled, map, item, refresherVars, failures>>
  BY DEF Starts, AddChannel, DeleteChannel, UpdateChannel, UpdateChannelStatus, DisableUser,
     EnableUser, Start, Crossed, TypeOK
<1>3. CASE AddChannel(h)
  <2>1. PICK c \in Channels, r \in Inputs :
          /\ row' = [row EXCEPT ![c] = r]
          /\ todo' = [todo EXCEPT ![h] = IF HasItem(r) THEN PutSteps(KeyOf(r), c) ELSE <<>>]
    BY <1>3 DEF AddChannel, Start
  <2>2. r \in Row
    BY InputsAssumption
  <2>3. Fit(IF HasItem(r) THEN PutSteps(KeyOf(r), c) ELSE <<>>)
    BY <1>1, <2>2, KeyType, PutFit
  <2>4. row' \in [Channels -> Row \cup {NoRow}]
    BY <2>1, <2>2 DEF TypeOK
  <2> QED
    BY <1>2, <2>1, <2>3, <2>4
<1>4. CASE DeleteChannel(h)
  <2>1. PICK c \in Channels :
          /\ row[c] # NoRow
          /\ row' = [row EXCEPT ![c] = NoRow]
          /\ todo' = [todo EXCEPT ![h] = IF HasItem(row[c]) THEN DropSteps(KeyOf(row[c])) ELSE <<>>]
    BY <1>4 DEF DeleteChannel, Start
  <2>2. row[c] \in Row
    BY <2>1 DEF TypeOK
  <2>3. Fit(IF HasItem(row[c]) THEN DropSteps(KeyOf(row[c])) ELSE <<>>)
    BY <1>1, <2>2, KeyType, DropFit
  <2>4. row' \in [Channels -> Row \cup {NoRow}]
    BY <2>1 DEF TypeOK
  <2> QED
    BY <1>2, <2>1, <2>3, <2>4
<1>5. CASE UpdateChannel(h)
  <2>1. PICK c \in Channels, input \in Inputs :
          LET new == [input EXCEPT !.secret = IF @ = Blank THEN row[c].secret ELSE @]
          IN row[c] # NoRow /\ todo' = [todo EXCEPT ![h] = <<[do |-> "save", chan |-> c, old |-> row[c], new |-> new]>>]
    BY <1>5 DEF UpdateChannel, Start
  <2>2. row[c] \in Row /\ input \in Row
    BY <2>1, InputsAssumption DEF TypeOK
  <2>3. [input EXCEPT !.secret = IF @ = Blank THEN row[c].secret ELSE @] \in Row
    BY <2>2 DEF Row
  <2>4. UNCHANGED row
    BY <1>5 DEF UpdateChannel
  <2> QED
    BY <1>0, <1>2, <2>1, <2>2, <2>3, <2>4 DEF TypeOK
<1>6. CASE UpdateChannelStatus(h)
  <2>1. PICK c \in Channels :
          row[c] # NoRow /\ todo' = [todo EXCEPT ![h] = <<[do |-> "save", chan |-> c, old |-> row[c], new |-> row[c]]>>]
    BY <1>6 DEF UpdateChannelStatus, Start
  <2>2. row[c] \in Row
    BY <2>1 DEF TypeOK
  <2>3. UNCHANGED row
    BY <1>6 DEF UpdateChannelStatus
  <2> QED
    BY <1>0, <1>2, <2>1, <2>2, <2>3 DEF TypeOK
<1>7. CASE DisableUser(h)
  <2>1. PICK u \in enabled : todo' = [todo EXCEPT ![h] = RemoveUserSteps(u) \o <<[do |-> "disable", user |-> u]>>]
    BY <1>7 DEF DisableUser, Start
  <2>2. u \in Users
    BY DEF TypeOK
  <2>3. UNCHANGED row
    BY <1>7 DEF DisableUser
  <2>4. Fit(RemoveUserSteps(u) \o <<[do |-> "disable", user |-> u]>>)
    BY <2>2, RemoveUserFit
  <2> QED
    BY <1>2, <2>1, <2>3, <2>4 DEF TypeOK
<1>8. CASE EnableUser(h)
  <2>1. PICK u \in Users : todo' = [todo EXCEPT ![h] = AddUserSteps(u) \o <<[do |-> "enable", user |-> u]>>]
    BY <1>8 DEF EnableUser, Start
  <2>2. UNCHANGED row
    BY <1>8 DEF EnableUser
  <2>3. Fit(AddUserSteps(u) \o <<[do |-> "enable", user |-> u]>>)
    BY AddUserFit
  <2> QED
    BY <1>2, <2>1, <2>2, <2>3 DEF TypeOK
<1> QED
  BY <1>3, <1>4, <1>5, <1>6, <1>7, <1>8 DEF Starts

\* What is left to do after a step.
LEMMA ProceedsFit ==
    ASSUME TypeOK, TodoOrdered, NEW h \in Requests, Proceeds(h)
    PROVE  /\ todo[h] # <<>> /\ todo[h] \in Seq(HandlerStep) /\ Head(todo[h]) = todo[h][1]
           /\ todo[h][1] \in HandlerStep /\ Len(todo[h]) \in Nat \ {0}
           /\ \A g \in Requests \ {h} : todo'[g] = todo[g]
           /\ todo' \in [Requests -> Seq(HandlerStep)]
           /\ Ordered(todo'[h])
           /\ UNCHANGED <<started, refresherVars>>
<1> DEFINE t == todo[h]
<1>1. t # <<>> /\ UNCHANGED <<started, refresherVars>>
  BY DEF Proceeds, SaveChannel, QueryShared, TokenStoreRemoveItem, RefreshItem, StoreItem, SaveUser, Step
<1>2. t \in Seq(HandlerStep) /\ Ordered(t) /\ todo \in [Requests -> Seq(HandlerStep)]
  BY DEF TypeOK, TodoOrdered
<1>3. Tail(t) \in Seq(HandlerStep) /\ Ordered(Tail(t)) /\ t[1] \in HandlerStep /\ Head(t) = t[1] /\ Len(t) \in Nat \ {0}
  BY <1>1, <1>2, Rest, OrderedRest
<1>4. ASSUME NEW v \in Seq(HandlerStep), Ordered(v), Then(h, v)
      PROVE  /\ \A g \in Requests \ {h} : todo'[g] = todo[g]
             /\ todo' \in [Requests -> Seq(HandlerStep)]
             /\ Ordered(todo'[h])
  BY <1>2, <1>4 DEF Then
<1>5. CASE SaveChannel(h)
  <2>1. Head(t).do = "save"
    BY <1>5 DEF SaveChannel, Step
  <2>2. t[1].chan \in Channels /\ t[1].old \in Row /\ t[1].new \in Row
    BY <1>3, <2>1, StepFields
  <2>3. Fit(UpdateSteps(t[1].new, t[1].old, t[1].chan))
    BY <2>2, UpdateFit
  <2>4. Then(h, UpdateSteps(t[1].new, t[1].old, t[1].chan))
    BY <1>3, <1>5 DEF SaveChannel
  <2> QED
    BY <1>1, <1>2, <1>3, <1>4, <2>3, <2>4 DEF Fit
<1>6. CASE QueryShared(h)
  <2>1. t[1].do = "isShared"
    BY <1>3, <1>6 DEF QueryShared, Step
  <2>2. Len(t) > 1
    BY <1>2, <1>3, <2>1 DEF Ordered
  <2>3. Tail(t) # <<>>
    <3>1. Len(Tail(t)) = Len(t) - 1
      BY <1>1, <1>2, Rest
    <3> QED
      BY SMTT(30), <1>3, <2>2, <3>1
  <2>4. Tail(Tail(t)) \in Seq(HandlerStep) /\ Ordered(Tail(Tail(t)))
    BY <1>3, <2>3, Rest, OrderedRest
  <2>5. Then(h, Tail(Tail(t))) \/ Then(h, Tail(t))
    BY <1>6 DEF QueryShared
  <2> QED
    BY <1>1, <1>2, <1>3, <1>4, <2>4, <2>5
<1>7. CASE TokenStoreRemoveItem(h) \/ RefreshItem(h) \/ StoreItem(h) \/ SaveUser(h)
  <2>1. Then(h, Tail(t))
    BY <1>7 DEF TokenStoreRemoveItem, RefreshItem, StoreItem, SaveUser
  <2> QED
    BY <1>1, <1>2, <1>3, <1>4, <2>1
<1> QED
  BY <1>5, <1>6, <1>7 DEF Proceeds

Tokens == {"none", "current", "stale"}

\* Refresh: as long as every refresh is answered, no item loses its token, and
\* the item that is refreshed has one.
LEMMA RefreshEffect ==
    ASSUME TypeOK, NEW k \in Keys, NEW i \in Items, NEW old \in Tokens, Refresh(k, i, old)
    PROVE  /\ item' \in [Items -> [key : Keys \cup {NoKey}, token : Tokens]]
           /\ failures' \in 0 .. MaxFailures
           /\ failures' = 0 =>
                /\ failures = 0
                /\ item'[i].token # "none"
                /\ \A j \in Items : item[j].token # "none" => item'[j].token # "none"
<1>0. item \in [Items -> [key : Keys \cup {NoKey}, token : Tokens]] /\ failures \in 0 .. MaxFailures
  BY DEF TypeOK, Tokens
<1>1. CASE item' = Issued(k, i) /\ UNCHANGED failures
  <2>1. ASSUME NEW j \in Items
        PROVE  item'[j] \in {item[j], [key |-> k, token |-> "current"], [key |-> k, token |-> "stale"]}
    BY <1>1 DEF Issued
  <2>2. item'[i] = [key |-> k, token |-> "current"]
    BY <1>1 DEF Issued
  <2>3. item'[i].token # "none"
    BY <2>2
  <2>4. ASSUME NEW j \in Items
        PROVE  item'[j] \in [key : Keys \cup {NoKey}, token : Tokens]
               /\ (item[j].token # "none" => item'[j].token # "none")
    BY <1>0, <2>1 DEF Tokens
  <2>5. item' = [j \in Items |-> item'[j]]
    BY <1>1 DEF Issued
  <2>6. item' \in [Items -> [key : Keys \cup {NoKey}, token : Tokens]]
    BY <2>4, <2>5
  <2> QED
    BY <1>0, <1>1, <2>3, <2>4, <2>6
<1>2. CASE /\ failures < MaxFailures
           /\ failures' = failures + 1
           /\ item' = [item EXCEPT ![i] = [key |-> k, token |-> old]]
  <2>1. failures' \in 0 .. MaxFailures /\ failures' # 0
    BY <1>0, <1>2, BoundsAssumption
  <2>2. item' \in [Items -> [key : Keys \cup {NoKey}, token : Tokens]]
    BY <1>0, <1>2
  <2> QED
    BY <2>1, <2>2
<1> QED
  BY <1>1, <1>2 DEF Refresh

\* A process starts with a store without items and no handler at work.
LEMMA TypeInit == Init => TypeOK /\ TodoOrdered
<1> SUFFICES ASSUME Init PROVE TypeOK /\ TodoOrdered
  OBVIOUS
<1>1. todo \in [Requests -> Seq(HandlerStep)] /\ TodoOrdered
  BY EmptySeq DEF Init, TodoOrdered, Ordered
<1>2. failures \in 0 .. MaxFailures
  BY BoundsAssumption DEF Init
<1>3. row \in [Channels -> Row \cup {NoRow}]
  BY InputsAssumption DEF Init
<1>4. item \in [Items -> [key : Keys \cup {NoKey}, token : {"none", "current", "stale"}]]
  BY DEF Init
<1> QED
  BY <1>1, <1>2, <1>3, <1>4 DEF Init, TypeOK

\* What a handler does to the table, the map and the items.
LEMMA ProceedsType ==
    ASSUME TypeOK, TodoOrdered, NEW h \in Requests, Proceeds(h)
    PROVE  /\ row' \in [Channels -> Row \cup {NoRow}]
           /\ enabled' \subseteq Users
           /\ map' \in [Keys -> Items \cup {NoItem}]
           /\ item' \in [Items -> [key : Keys \cup {NoKey}, token : {"none", "current", "stale"}]]
           /\ failures' \in 0 .. MaxFailures
           /\ disturbed' \subseteq Keys
<1> DEFINE s == todo[h][1]
<1>0. Head(todo[h]) = s /\ s \in HandlerStep
  BY ProceedsFit
<1> HIDE DEF s
<1>1. CASE SaveChannel(h)
  <2>1. s.new \in Row
    BY <1>0, <1>1, StepFields DEF SaveChannel, Step
  <2>2. row' = row \/ row' = [row EXCEPT ![s.chan] = s.new]
    BY <1>0, <1>1 DEF SaveChannel
  <2>3. row' \in [Channels -> Row \cup {NoRow}]
    BY <2>1, <2>2 DEF TypeOK
  <2> QED
    BY <1>1, <2>3 DEF SaveChannel, SaveDisturbs, TypeOK
<1>2. CASE QueryShared(h)
  BY <1>2 DEF QueryShared, TypeOK
<1>3. CASE TokenStoreRemoveItem(h)
  BY <1>3 DEF TokenStoreRemoveItem, TypeOK
<1>4. CASE RefreshItem(h)
  <2>1. s.key \in Keys /\ s.chan \in Channels
    BY <1>0, <1>4, StepFields DEF RefreshItem, Step
  <2>2. Refresh(s.key, <<h, s.chan>>, "none") /\ <<h, s.chan>> \in Items
    BY <1>0, <1>4, <2>1 DEF RefreshItem, Items
  <2>3. item' \in [Items -> [key : Keys \cup {NoKey}, token : Tokens]] /\ failures' \in 0 .. MaxFailures
    BY <2>1, <2>2, RefreshEffect DEF Tokens
  <2> QED
    BY <1>4, <2>3 DEF RefreshItem, TypeOK, Tokens
<1>5. CASE StoreItem(h)
  <2>1. s.key \in Keys /\ <<h, s.chan>> \in Items
    BY <1>0, <1>5, StepFields DEF StoreItem, Step, Items
  <2>2. map' = [map EXCEPT ![s.key] = <<h, s.chan>>]
    BY <1>0, <1>5 DEF StoreItem
  <2> QED
    BY ZenonT(40), <1>5, <2>1, <2>2 DEF StoreItem, TypeOK
<1>6. CASE SaveUser(h)
  <2>1. s.user \in Users
    BY <1>0, <1>6, StepFields DEF SaveUser, Step
  <2>2. enabled' \subseteq Users
    BY <1>0, <1>6, <2>1 DEF SaveUser, TypeOK
  <2> QED
    BY <1>6, <2>2 DEF SaveUser, TypeOK
<1> QED
  BY <1>1, <1>2, <1>3, <1>4, <1>5, <1>6 DEF Proceeds

\* The item of a key the start-up load finds is one of the load.
LEMMA Loaded ==
    ASSUME TypeOK, LoadItems, NEW k \in Keys
    PROVE  LET chans == {c \in Channels : lrows[c] # NoRow /\ KeyOf(lrows[c]) = k}
           IN /\ chans = {} => map'[k] = map[k]
              /\ chans # {} => \E c \in chans : map'[k] = <<Loader, c>>
<1> DEFINE loaded(l) == {c \in Channels : lrows[c] # NoRow /\ KeyOf(lrows[c]) = l}
           keys == {l \in Keys : loaded(l) # {}}
<1>1. PICK last \in [keys -> Channels] :
        /\ \A l \in keys : last[l] \in loaded(l)
        /\ map' = [l \in Keys |-> IF l \in keys THEN <<Loader, last[l]>> ELSE map[l]]
  BY DEF LoadItems
<1> QED
  BY <1>1

\* No step leaves the types, nor the order of what a handler has to do.
LEMMA TypeNext == TypeOK /\ TodoOrdered /\ [Next]_vars => (TypeOK /\ TodoOrdered)'
<1> SUFFICES ASSUME TypeOK, TodoOrdered, [Next]_vars PROVE TypeOK' /\ TodoOrdered'
  OBVIOUS
<1>1. CASE UNCHANGED vars
  BY <1>1 DEF vars, handlerVars, refresherVars, TypeOK, TodoOrdered
<1>2. ASSUME NEW h \in Requests, Starts(h) PROVE TypeOK' /\ TodoOrdered'
  <2>1. PICK t : Fit(t) /\ todo' = [todo EXCEPT ![h] = t]
    BY <1>2, StartsFit
  <2>2. todo' \in [Requests -> Seq(HandlerStep)] /\ TodoOrdered'
    BY <2>1 DEF Fit, TypeOK, TodoOrdered
  <2>3. /\ row' \in [Channels -> Row \cup {NoRow}] /\ started' \subseteq Requests
        /\ disturbed' \subseteq Keys
        /\ UNCHANGED <<enabled, map, item, refresherVars, failures>>
    BY <1>2, StartsFit
  <2> QED
    BY <2>2, <2>3 DEF TypeOK, refresherVars
<1>3. ASSUME NEW h \in Requests, Proceeds(h) PROVE TypeOK' /\ TodoOrdered'
  <2>1. todo' \in [Requests -> Seq(HandlerStep)] /\ UNCHANGED <<started, refresherVars>>
    BY <1>3, ProceedsFit
  <2>2. TodoOrdered'
    BY <1>3, ProceedsFit DEF TodoOrdered
  <2> QED
    BY <1>3, <2>1, <2>2, ProceedsType DEF TypeOK, refresherVars
<1>4. CASE LoadRows
  <2>1. \A c \in Channels : row[c] \in Row \cup {NoRow}
    BY DEF TypeOK
  <2>2. lrows' \in [Channels -> {r \in Row : HasItem(r)} \cup {NoRow}]
    BY <1>4, <2>1 DEF LoadRows
  <2> QED
    BY <1>4, <2>2 DEF LoadRows, handlerVars, TypeOK, TodoOrdered
<1>5. CASE LoadItems
  <2>1. ASSUME NEW k \in Keys PROVE map'[k] \in Items \cup {NoItem}
    <3>1. \A c \in Channels : <<Loader, c>> \in Items
      BY DEF Items
    <3> QED
      BY ZenonT(40), <1>5, <3>1, Loaded DEF TypeOK
  <2>2. map' \in [Keys -> Items \cup {NoItem}]
    <3>1. \E f : map' = [k \in Keys |-> f[k]]
      <4> DEFINE loaded(l) == {c \in Channels : lrows[c] # NoRow /\ KeyOf(lrows[c]) = l}
                 keys == {l \in Keys : loaded(l) # {}}
      <4>1. PICK last \in [keys -> Channels] :
              map' = [l \in Keys |-> IF l \in keys THEN <<Loader, last[l]>> ELSE map[l]]
        BY <1>5 DEF LoadItems
      <4>2. map' = [l \in Keys |-> map'[l]]
        BY <4>1
      <4> QED
        BY <4>2
    <3> QED
      BY <2>1, <3>1
  <2>3. ASSUME NEW i \in Items
        PROVE  item'[i] \in [key : Keys \cup {NoKey}, token : {"none", "current", "stale"}]
    <3>1. CASE i[1] = Loader /\ lrows[i[2]] # NoRow
      <4>1. item'[i] = [key |-> KeyOf(lrows[i[2]]), token |-> "none"]
        BY <1>5, <3>1 DEF LoadItems
      <4>2. lrows[i[2]] \in Row /\ HasItem(lrows[i[2]])
        BY <3>1 DEF Items, TypeOK
      <4> QED
        BY <4>1, <4>2, KeyType
    <3>2. CASE ~(i[1] = Loader /\ lrows[i[2]] # NoRow)
      BY <1>5, <3>2 DEF LoadItems, TypeOK
    <3> QED
      BY <3>1, <3>2
  <2>4. item' \in [Items -> [key : Keys \cup {NoKey}, token : {"none", "current", "stale"}]]
    <3>1. item' = [i \in Items |-> item'[i]]
      BY <1>5 DEF LoadItems
    <3> QED
      BY <2>3, <3>1
  <2>5. lrows' \in [Channels -> {r \in Row : HasItem(r)} \cup {NoRow}]
    BY <1>5 DEF LoadItems
  <2> QED
    BY <1>5, <2>2, <2>4, <2>5 DEF LoadItems, handlerVars, TypeOK, TodoOrdered
<1>6. CASE CopyMap
  BY <1>6 DEF CopyMap, handlerVars, TypeOK, TodoOrdered
<1>7. CASE RefreshNext
  <2>1. PICK k \in unrefreshed :
          Refresh(k, tmpMap[k], item[tmpMap[k]].token) /\ unrefreshed' = unrefreshed \ {k}
    BY <1>7 DEF RefreshNext
  <2>2. k \in Keys /\ tmpMap[k] \in Items
    BY <2>1 DEF TypeOK
  <2>3. item[tmpMap[k]].token \in Tokens
    BY <2>2 DEF TypeOK, Tokens
  <2>4. item' \in [Items -> [key : Keys \cup {NoKey}, token : Tokens]] /\ failures' \in 0 .. MaxFailures
    BY <2>1, <2>2, <2>3, RefreshEffect
  <2> QED
    BY <1>7, <2>1, <2>4 DEF RefreshNext, handlerVars, TypeOK, TodoOrdered, Tokens
<1>8. CASE MergeMap
  <2>1. map' \in [Keys -> Items \cup {NoItem}] /\ tmpMap' \in [Keys -> Items \cup {NoItem}]
    BY <1>8 DEF MergeMap, EndRound, TypeOK
  <2>2. unrefreshed' = {}
    BY <1>8 DEF MergeMap, EndRound
  <2> QED
    BY <1>8, <2>1, <2>2 DEF MergeMap, EndRound, handlerVars, TypeOK, TodoOrdered
<1> QED
  BY <1>1, <1>2, <1>3, <1>4, <1>5, <1>6, <1>7, <1>8 DEF Next, Refresher, Handler, Starts, Proceeds

\* Every variable of the store has the type it should have, and handlers take
\* their steps in order (TokenStoreAddItem refreshes before it stores,
\* TokenStoreRemoveChannel asks IsShared before it removes).
THEOREM TypeCorrect == Spec => [](TypeOK /\ TodoOrdered)
<1>1. Init => TypeOK /\ TodoOrdered
  BY TypeInit
<1>2. TypeOK /\ TodoOrdered /\ [Next]_vars => (TypeOK /\ TodoOrdered)'
  BY TypeNext
<1> QED
  BY <1>1, <1>2, PTL DEF Spec

----------------------------------------------------------------------------
(* Blank items. *)

Lit(i) == item[i].token # "none"

\* The item a handler is about to store has a token.
StoresLit ==
    \A h \in Requests : todo[h] # <<>> /\ todo[h][1].do = "store" => Lit(<<h, todo[h][1].chan>>)

\* A blank item of the map is one of the start-up load, and still to be
\* refreshed by the first round.
MapLit ==
    \A k \in Keys : map[k] # NoItem =>
      /\ lpc \in {"read", "load"} => Lit(map[k]) /\ map[k][1] \in Requests
      /\ lpc = "refresh" => Lit(map[k]) \/ (k \in unrefreshed /\ tmpMap[k] = map[k])
      /\ lpc = "sleep" => Lit(map[k])

\* What the round has refreshed, and will write back, has a token.
RoundLit ==
    lpc = "refresh" => \A k \in Keys : tmpMap[k] # NoItem /\ k \notin unrefreshed => Lit(tmpMap[k])

LitInv == failures = 0 => StoresLit /\ MapLit /\ RoundLit

\* A handler that starts stores nothing at once; one that has refreshed its item
\* may store it next.
LEMMA StoresLitStep ==
    ASSUME TypeOK, TodoOrdered, StoresLit, NEW h \in Requests, Starts(h) \/ Proceeds(h),
           \A j \in Items : Lit(j) => Lit(j)',
           RefreshItem(h) => item'[<<h, todo[h][1].chan>>].token # "none"
    PROVE  StoresLit'
<1>0. todo \in [Requests -> Seq(HandlerStep)] /\ \A g \in Requests, c \in Channels : <<g, c>> \in Items
  BY DEF TypeOK, Items
<1>1. \A g \in Requests \ {h} : todo'[g] = todo[g]
  BY <1>0, StartsFit, ProceedsFit
<1>2. ASSUME NEW g \in Requests \ {h}, todo[g] # <<>>, todo[g][1].do = "store"
      PROVE  Lit(<<g, todo[g][1].chan>>)'
  <2>1. Lit(<<g, todo[g][1].chan>>)
    BY <1>2 DEF StoresLit
  <2>2. todo[g][1] \in HandlerStep
    BY <1>0, <1>2, Rest
  <2>3. <<g, todo[g][1].chan>> \in Items
    BY <1>0, <1>2, <2>2, StepFields
  <2>4. item'[<<g, todo[g][1].chan>>].token # "none"
    BY <2>1, <2>3 DEF Lit
  <2> QED
    BY <1>1, <2>4 DEF Lit
<1>3. ASSUME todo'[h] # <<>>, todo'[h][1].do = "store"
      PROVE  item'[<<h, todo'[h][1].chan>>].token # "none"
  <2>1. CASE Starts(h)
    <3>1. PICK t : Fit(t) /\ todo' = [todo EXCEPT ![h] = t]
      BY <2>1, StartsFit
    <3>2. todo'[h] = t
      BY <1>0, <3>1
    <3> QED
      BY <1>3, <3>1, <3>2 DEF Fit
  <2>2. CASE SaveChannel(h)
    <3>1. todo[h] # <<>> /\ Head(todo[h]) = todo[h][1] /\ todo[h][1] \in HandlerStep
      BY <2>2, ProceedsFit DEF Proceeds
    <3>2. todo[h][1].chan \in Channels /\ todo[h][1].old \in Row /\ todo[h][1].new \in Row
      BY <2>2, <3>1, StepFields DEF SaveChannel, Step
    <3>3. todo'[h] = UpdateSteps(todo[h][1].new, todo[h][1].old, todo[h][1].chan)
      BY <1>0, <2>2, <3>1 DEF SaveChannel, Then
    <3>4. Fit(todo'[h])
      BY <3>2, <3>3, UpdateFit
    <3> QED
      BY <1>3, <3>4 DEF Fit
  <2>3. CASE Proceeds(h) /\ ~SaveChannel(h)
    <3> DEFINE t == todo[h]
    <3>1. t # <<>> /\ t \in Seq(HandlerStep) /\ Ordered(t) /\ Head(t) = t[1]
      BY <2>3, ProceedsFit DEF TodoOrdered
    <3>2. /\ Len(t) \in Nat \ {0} /\ Tail(t) \in Seq(HandlerStep) /\ Len(Tail(t)) = Len(t) - 1
          /\ \A i \in 1 .. Len(t) - 1 : Tail(t)[i] = t[i + 1]
      BY <3>1, Rest
    <3> HIDE DEF t
    <3>3. CASE todo'[h] = Tail(t)
      <4>1. Len(t) > 1 /\ Tail(t)[1] = t[2]
        <5>1. Len(Tail(t)) \in Nat \ {0}
          BY <1>3, <3>2, <3>3, EmptySeq
        <5> QED
          BY <3>2, <5>1
      <4>2. t[2].do = "store" => t[1].do = "refresh" /\ t[1].chan = t[2].chan
        <5>1. 2 \in 1 .. Len(t) /\ 2 > 1 /\ 2 - 1 = 1
          BY <3>2, <4>1
        <5> QED
          BY <3>1, <5>1 DEF Ordered
      <4>3. t[1].do = "refresh" /\ todo'[h][1].chan = t[1].chan
        BY <1>3, <3>3, <4>1, <4>2
      <4>4. RefreshItem(h)
        BY <2>3, <3>1, <4>3
        DEF Proceeds, QueryShared, TokenStoreRemoveItem, StoreItem, SaveUser, Step, t
      <4> QED
        BY <4>3, <4>4 DEF Lit, t
    <3>4. CASE QueryShared(h) /\ todo'[h] = Tail(Tail(t))
      <4>1. t[1].do = "isShared"
        BY <3>1, <3>4 DEF QueryShared, Step, t
      <4>2. Len(t) > 1 /\ t[2].do = "remove"
        BY <3>1, <3>2, <4>1 DEF Ordered
      <4>3. Tail(t) # <<>>
        <5>1. Len(Tail(t)) # 0
          BY <3>2, <4>2
        <5> QED
          BY <5>1, EmptySeq
      <4>4. /\ Len(Tail(Tail(t))) = Len(Tail(t)) - 1 /\ Tail(Tail(t)) \in Seq(HandlerStep)
            /\ \A i \in 1 .. Len(Tail(t)) - 1 : Tail(Tail(t))[i] = Tail(t)[i + 1]
        BY <3>2, <4>3, Rest
      <4>5. Len(Tail(Tail(t))) \in Nat \ {0}
        BY <1>3, <3>4, <4>4, EmptySeq
      <4>6. Len(t) > 2 /\ Tail(Tail(t))[1] = t[3]
        BY <3>2, <4>4, <4>5
      <4>7. t[3].do # "store"
        <5>1. 3 \in 1 .. Len(t) /\ 3 > 1 /\ 3 - 1 = 2
          BY <3>2, <4>6
        <5> QED
          BY <3>1, <4>2, <5>1 DEF Ordered
      <4> QED
        BY <1>3, <3>4, <4>6, <4>7
    <3> QED
      BY <1>0, <2>3, <3>3, <3>4
      DEF Proceeds, QueryShared, TokenStoreRemoveItem, RefreshItem, StoreItem, SaveUser, Then, t
  <2> QED
    BY <2>1, <2>2, <2>3
<1> QED
  BY <1>1, <1>2, <1>3 DEF StoresLit, Lit

\* As long as every refresh is answered, blank items are those of the start-up
\* load that the first round has not reached.
LEMMA LitNext == TypeOK /\ TodoOrdered /\ LitInv /\ [Next]_vars => LitInv'
<1> SUFFICES ASSUME TypeOK, TodoOrdered, LitInv, [Next]_vars, failures' = 0
             PROVE  StoresLit' /\ MapLit' /\ RoundLit'
  BY DEF LitInv
<1>0. ASSUME failures = 0 PROVE StoresLit /\ MapLit /\ RoundLit
  BY <1>0 DEF LitInv
<1>a. /\ map \in [Keys -> Items \cup {NoItem}] /\ tmpMap \in [Keys -> Items \cup {NoItem}]
      /\ unrefreshed \subseteq Keys
  BY DEF TypeOK
<1>1. CASE UNCHANGED <<map, item, todo, refresherVars, failures>>
  BY <1>0, <1>1 DEF StoresLit, MapLit, RoundLit, Lit, refresherVars
<1>2. ASSUME NEW h \in Requests, Starts(h) PROVE StoresLit' /\ MapLit' /\ RoundLit'
  <2>1. UNCHANGED <<map, item, refresherVars, failures>>
    BY <1>2, StartsFit
  <2>2. ~RefreshItem(h)
    <3>1. started' # started
      BY <1>2 DEF Starts, AddChannel, DeleteChannel, UpdateChannel, UpdateChannelStatus,
         DisableUser, EnableUser, Start
    <3> QED
      BY <3>1 DEF RefreshItem
  <2>3. StoresLit'
    <3>1. \A j \in Items : Lit(j) => Lit(j)'
      BY <2>1 DEF Lit
    <3> QED
      BY <1>0, <1>2, <2>1, <2>2, <3>1, StoresLitStep
  <2> QED
    BY <1>0, <2>1, <2>3 DEF MapLit, RoundLit, Lit, refresherVars
<1>3. ASSUME NEW h \in Requests, Proceeds(h), ~RefreshItem(h), ~StoreItem(h)
      PROVE  StoresLit' /\ MapLit' /\ RoundLit'
  <2>1. UNCHANGED <<item, refresherVars, failures>> /\ \A k \in Keys : map'[k] \in {map[k], NoItem}
    BY <1>3, <1>a DEF Proceeds, SaveChannel, QueryShared, TokenStoreRemoveItem, SaveUser
  <2>2. StoresLit'
    <3>1. \A j \in Items : Lit(j) => Lit(j)'
      BY <2>1 DEF Lit
    <3> QED
      BY <1>0, <1>3, <2>1, <3>1, StoresLitStep
  <2> QED
    BY <1>0, <2>1, <2>2 DEF MapLit, RoundLit, Lit, refresherVars
<1>4. ASSUME NEW h \in Requests, StoreItem(h) PROVE StoresLit' /\ MapLit' /\ RoundLit'
  <2>1. Proceeds(h) /\ UNCHANGED <<item, refresherVars, failures>> /\ ~RefreshItem(h)
    BY <1>4 DEF Proceeds, StoreItem, RefreshItem, Step
  <2>2. todo[h] # <<>> /\ Head(todo[h]) = todo[h][1] /\ todo[h][1].do = "store"
    BY <1>4, <2>1, ProceedsFit DEF StoreItem, Step
  <2>3. Lit(<<h, todo[h][1].chan>>)
    BY <1>0, <2>1, <2>2 DEF StoresLit
  <2>4. \A k \in Keys : map'[k] = map[k] \/ map'[k] = <<h, todo[h][1].chan>>
    BY <1>4, <1>a, <2>2 DEF StoreItem
  <2>5. StoresLit'
    <3>1. \A j \in Items : Lit(j) => Lit(j)'
      BY <2>1 DEF Lit
    <3> QED
      BY <1>0, <2>1, <3>1, StoresLitStep
  <2>6. RoundLit'
    BY <1>0, <2>1 DEF RoundLit, Lit, refresherVars
  <2>7. ASSUME NEW k \in Keys, map'[k] = <<h, todo[h][1].chan>>
        PROVE  item'[map'[k]].token # "none" /\ map'[k][1] \in Requests
    BY <2>1, <2>3, <2>7 DEF Lit
  <2>8. ASSUME NEW k \in Keys, map'[k] = map[k], map'[k] # NoItem
        PROVE  /\ lpc' \in {"read", "load"} => item'[map'[k]].token # "none" /\ map'[k][1] \in Requests
               /\ lpc' = "refresh" => item'[map'[k]].token # "none" \/ (k \in unrefreshed' /\ tmpMap'[k] = map'[k])
               /\ lpc' = "sleep" => item'[map'[k]].token # "none"
    BY <1>0, <2>1, <2>8 DEF MapLit, Lit, refresherVars
  <2>9. MapLit'
    BY <2>4, <2>7, <2>8 DEF MapLit, Lit
  <2> QED
    BY <2>5, <2>6, <2>9
<1>5. ASSUME NEW h \in Requests, RefreshItem(h) PROVE StoresLit' /\ MapLit' /\ RoundLit'
  <2>1. Proceeds(h) /\ UNCHANGED <<map, refresherVars>>
    BY <1>5 DEF Proceeds, RefreshItem
  <2>2. Head(todo[h]) = todo[h][1] /\ todo[h][1] \in HandlerStep /\ todo[h][1].do = "refresh"
    BY <1>5, <2>1, ProceedsFit DEF RefreshItem, Step
  <2>3. todo[h][1].key \in Keys /\ <<h, todo[h][1].chan>> \in Items
    BY <2>2, StepFields DEF Items
  <2>4. Refresh(todo[h][1].key, <<h, todo[h][1].chan>>, "none")
    BY <1>5, <2>2 DEF RefreshItem
  <2>5. /\ failures = 0 /\ item'[<<h, todo[h][1].chan>>].token # "none"
        /\ \A j \in Items : item[j].token # "none" => item'[j].token # "none"
    BY <2>3, <2>4, RefreshEffect DEF Tokens
  <2>6. StoresLit'
    <3>1. \A j \in Items : Lit(j) => Lit(j)'
      BY <2>5 DEF Lit
    <3> QED
      BY <1>0, <2>1, <2>5, <3>1, StoresLitStep
  <2>7. MapLit' /\ RoundLit'
    BY <1>0, <1>a, <2>1, <2>5 DEF MapLit, RoundLit, Lit, refresherVars
  <2> QED
    BY <2>6, <2>7
<1>6. CASE LoadRows
  BY <1>0, <1>6 DEF LoadRows, handlerVars, StoresLit, MapLit, RoundLit, Lit
<1>7. CASE LoadItems
  <2>1. failures = 0 /\ UNCHANGED todo /\ lpc' = "copy"
    BY <1>7 DEF LoadItems, handlerVars
  <2>2. ASSUME NEW i \in Items, i[1] # Loader PROVE item'[i] = item[i]
    BY <1>7, <2>2 DEF LoadItems
  <2>3. ASSUME NEW h \in Requests, todo[h] # <<>>, todo[h][1].do = "store"
        PROVE  item'[<<h, todo[h][1].chan>>].token # "none"
    <3>1. todo[h][1] \in HandlerStep
      BY <2>3, Rest DEF TypeOK
    <3>2. <<h, todo[h][1].chan>> \in Items /\ h # Loader
      BY <2>3, <3>1, StepFields, NoneAssumption DEF Items
    <3>3. Lit(<<h, todo[h][1].chan>>)
      BY <1>0, <2>1, <2>3 DEF StoresLit
    <3> QED
      BY <2>2, <3>2, <3>3 DEF Lit
  <2> QED
    BY <2>1, <2>3 DEF StoresLit, MapLit, RoundLit, Lit
<1>8. CASE CopyMap
  <2>1. UNCHANGED <<map, item, todo, failures>> /\ lpc' = "refresh" /\ tmpMap' = map /\ unrefreshed' = {k \in Keys : map[k] # NoItem}
    BY <1>8 DEF CopyMap, handlerVars
  <2> QED
    BY <1>0, <2>1 DEF StoresLit, MapLit, RoundLit, Lit
<1>9. CASE RefreshNext
  <2>1. PICK k \in unrefreshed :
          Refresh(k, tmpMap[k], item[tmpMap[k]].token) /\ unrefreshed' = unrefreshed \ {k}
    BY <1>9 DEF RefreshNext
  <2>2. k \in Keys /\ tmpMap[k] \in Items
    BY <2>1 DEF TypeOK
  <2>3. item[tmpMap[k]].token \in Tokens
    BY <2>2 DEF TypeOK, Tokens
  <2>4. /\ failures = 0 /\ item'[tmpMap[k]].token # "none"
        /\ \A j \in Items : item[j].token # "none" => item'[j].token # "none"
    BY <2>1, <2>2, <2>3, RefreshEffect
  <2>5. UNCHANGED <<map, todo, lpc, tmpMap>> /\ lpc = "refresh"
    BY <1>9 DEF RefreshNext, handlerVars
  <2>6. ASSUME NEW h \in Requests, todo[h] # <<>>, todo[h][1].do = "store"
        PROVE  item'[<<h, todo[h][1].chan>>].token # "none"
    <3>1. todo[h][1] \in HandlerStep
      BY <2>6, Rest DEF TypeOK
    <3>2. <<h, todo[h][1].chan>> \in Items
      BY <2>6, <3>1, StepFields DEF Items
    <3> QED
      BY <1>0, <2>4, <2>6, <3>2 DEF StoresLit, Lit
  <2>7. StoresLit'
    BY <2>5, <2>6 DEF StoresLit, Lit
  <2>8. ASSUME NEW l \in Keys, map[l] # NoItem
        PROVE  item'[map[l]].token # "none" \/ (l \in unrefreshed' /\ tmpMap[l] = map[l])
    <3>1. map[l] \in Items
      BY <1>a, <2>8
    <3>2. item[map[l]].token # "none" \/ (l \in unrefreshed /\ tmpMap[l] = map[l])
      BY <1>0, <2>4, <2>5, <2>8 DEF MapLit, Lit
    <3> QED
      BY <2>1, <2>4, <3>1, <3>2
  <2>9. ASSUME NEW l \in Keys, tmpMap[l] # NoItem, l \notin unrefreshed'
        PROVE  item'[tmpMap[l]].token # "none"
    <3>1. tmpMap[l] \in Items
      BY <1>a, <2>9
    <3>2. l = k \/ item[tmpMap[l]].token # "none"
      BY <1>0, <2>1, <2>4, <2>5, <2>9 DEF RoundLit, Lit
    <3> QED
      BY <2>4, <3>1, <3>2
  <2> QED
    BY <2>5, <2>7, <2>8, <2>9 DEF MapLit, RoundLit, Lit
<1>10. CASE MergeMap
  <2>1. /\ UNCHANGED <<item, todo, failures>> /\ lpc = "refresh" /\ unrefreshed = {} /\ lpc' = "sleep"
        /\ map' = [k \in Keys |-> IF map[k] # NoItem /\ tmpMap[k] # NoItem THEN tmpMap[k] ELSE map[k]]
    BY <1>10 DEF MergeMap, EndRound, handlerVars
  <2>2. ASSUME NEW k \in Keys, map'[k] # NoItem PROVE item[map'[k]].token # "none"
    <3>1. map[k] # NoItem => item[map[k]].token # "none"
      BY <1>0, <2>1 DEF MapLit, Lit
    <3>2. tmpMap[k] # NoItem => item[tmpMap[k]].token # "none"
      BY <1>0, <2>1 DEF RoundLit, Lit
    <3>3. map'[k] = tmpMap[k] \/ map'[k] = map[k]
      BY <2>1
    <3> QED
      BY <2>2, <3>1, <3>2, <3>3
  <2> QED
    BY <1>0, <2>1, <2>2 DEF StoresLit, MapLit, RoundLit, Lit
<1> QED
  BY <1>1, <1>2, <1>3, <1>4, <1>5, <1>6, <1>7, <1>8, <1>9, <1>10
  DEF Next, Refresher, Handler, Starts, Proceeds, vars, handlerVars

\* After a round of the refresher in which every refresh was answered, no item
\* of the store is blank, for any number of requests at the same time: the
\* start-up load and the write-back of tmpMap overwrite items of handlers, but
\* only with items that have been refreshed by then (TokenStoreInit).
THEOREM NeverBlankAfterRound == Spec => []NotBlankAfterRound
<1>1. Init => TypeOK /\ TodoOrdered /\ LitInv
  <2>1. Init => LitInv
    BY DEF Init, LitInv, StoresLit, MapLit, RoundLit
  <2> QED
    BY <2>1, TypeInit
<1>2. TypeOK /\ TodoOrdered /\ LitInv /\ [Next]_vars => (TypeOK /\ TodoOrdered /\ LitInv)'
  BY TypeNext, LitNext
<1>3. LitInv => NotBlankAfterRound
  BY DEF LitInv, MapLit, Lit, NotBlankAfterRound
<1> QED
  BY <1>1, <1>2, <1>3, PTL DEF Spec

----------------------------------------------------------------------------
(* Needed items. *)

\* The credentials the code keeps track of.
Kept == {k \in Keys \ disturbed : IsFilled(k)}

\* The store has an item for k, or gets it from the start-up load.
Available(k) ==
    \/ map[k] # NoItem
    \/ lpc = "load" /\ \E c \in Channels : lrows[c] # NoRow /\ KeyOf(lrows[c]) = k

\* A handler that has t to do stores an item for k.
Stores(t, k) == \E j \in 1 .. Len(t) : t[j].do = "store" /\ t[j].key = k

\* From its i-th step on, it stores one, or disables the user of all channels
\* that need it.
Mends(t, i, k) ==
    \E j \in i .. Len(t) :
      \/ t[j].do = "store" /\ t[j].key = k
      \/ t[j].do = "disable" /\ \A c \in RowsWith(k) : Owner[c] = t[j].user

Mended(k) == \E h \in Requests : Mends(todo[h], 1, k)

\* While a handler may remove the item of k, no other one is at it.
Apart(k) ==
    \A g, h \in Requests : g # h => ~(Drops(todo[g], k) /\ Concerns(todo[h], k))

\* An item that is needed is there, or is going to be.
Covered(k) == lpc # "read" /\ Needed(k) => Available(k) \/ Mended(k)

\* A removal is skipped, or not felt, or mended by the same handler.
RemovalsOK(k) ==
    \A h \in Requests : \A i \in 1 .. Len(todo[h]) :
      todo[h][i].do = "remove" /\ todo[h][i].key = k =>
        /\ IsShared(k) \/ RowsWith(k) = {} \/ Mends(todo[h], i + 1, k)
        /\ i = 1 => ~IsShared(k)

\* A user is enabled after the items of its channels have been stored ...
EnablesOK(k) ==
    \A h \in Requests : \A i \in 1 .. Len(todo[h]) : \A c \in RowsWith(k) :
      todo[h][i].do = "enable" /\ todo[h][i].user = Owner[c] /\ lpc # "read" =>
        Available(k) \/ \E g \in Requests : Stores(todo[g], k)

\* ... by a handler that removes nothing.
EnablesPlain ==
    \A h \in Requests : \A i, j \in 1 .. Len(todo[h]) :
      todo[h][i].do = "enable" => todo[h][j].do \in {"refresh", "store", "enable"}

\* A request that has not arrived has nothing to do.
Fresh == \A h \in Requests : h \notin started => todo[h] = <<>>

KeyInv(k) == Apart(k) /\ Covered(k) /\ RemovalsOK(k) /\ EnablesOK(k)

NeedInv == Fresh /\ EnablesPlain /\ \A k \in Kept : KeyInv(k)

\* A key that is not shared has one row.
LEMMA OnlyRow ==
    ASSUME NEW k, ~IsShared(k), NEW c \in RowsWith(k)
    PROVE  RowsWith(k) = {c}
<1>1. IsFiniteSet(RowsWith(k))
  <2>1. RowsWith(k) \in SUBSET Channels
    BY DEF RowsWith
  <2> QED
    BY <2>1, FS_Subset, ChannelsAssumption
<1>2. Cardinality(RowsWith(k)) \in Nat /\ ~(Cardinality(RowsWith(k)) > 1)
  BY <1>1, FS_CardinalityType DEF IsShared
<1>3. Cardinality(RowsWith(k)) # 0
  BY <1>1, FS_EmptySet
<1>4. Cardinality(RowsWith(k)) = 1
  BY <1>2, <1>3
<1>5. \E x : RowsWith(k) = {x}
  BY <1>1, <1>4, FS_Singleton
<1> QED
  BY <1>5

\* The rows with the credentials k are the rows that are k.
LEMMA RowsOf ==
    ASSUME TypeOK, NEW k \in Keys
    PROVE  /\ RowsWith(k) = {c \in Channels : row[c] = k}
           /\ RowsWith(k)' = {c \in Channels : row'[c] # NoRow /\ KeyOf(row'[c]) = k}
           /\ k \in Row /\ HasItem(k) /\ k # NoRow /\ KeyOf(k) = k
<1>1. k \in Row /\ HasItem(k) /\ k # NoRow
  BY NoneAssumption DEF Keys
<1>2. KeyOf(k) = k
  BY <1>1, KeyType
<1>3. \A c \in Channels : row[c] # NoRow => KeyOf(row[c]) = row[c]
  BY KeyType DEF TypeOK
<1> QED
  BY <1>1, <1>2, <1>3 DEF RowsWith

\* What concerns k concerned it before, unless a row has got the credentials.
LEMMA ConcernsRows ==
    ASSUME NEW t, NEW k, RowsWith(k)' \subseteq RowsWith(k), Concerns(t, k)'
    PROVE  Concerns(t, k)
  BY DEF Concerns, Drops

\* What stores an item is at it.
LEMMA StoresConcern ==
    ASSUME NEW t, NEW k
    PROVE  /\ Stores(t, k) => Concerns(t, k) /\ Mends(t, 1, k)
           /\ Drops(t, k) => Concerns(t, k)
  BY DEF Stores, Concerns, Mends

\* A step takes the first of the things to do away, or the first two when an
\* item is shared.
Takes(t, v, d) ==
    /\ v \in Seq(HandlerStep)
    /\ Len(v) = Len(t) - d
    /\ \A i \in 1 .. Len(v) : v[i] = t[i + d]
    /\ d = 2 => t[1].do = "isShared" /\ t[2].do = "remove"
    /\ Len(v) > 0 /\ v[1].do = "remove" => ~IsShared(v[1].key)

\* Every step of a handler but the saving of a channel is of this kind.
LEMMA TakesSteps ==
    ASSUME TypeOK, TodoOrdered, NEW h \in Requests, Proceeds(h), ~SaveChannel(h)
    PROVE  UNCHANGED row /\ \E d \in {1, 2} : Takes(todo[h], todo'[h], d)
<1> DEFINE t == todo[h]
           v == todo'[h]
<1>0. UNCHANGED row
  BY DEF Proceeds, QueryShared, TokenStoreRemoveItem, RefreshItem, StoreItem, SaveUser
<1>1. t # <<>> /\ t \in Seq(HandlerStep) /\ Ordered(t) /\ Head(t) = t[1]
  BY ProceedsFit DEF TodoOrdered
<1>2. /\ Len(t) \in Nat \ {0} /\ Tail(t) \in Seq(HandlerStep) /\ Len(Tail(t)) = Len(t) - 1
      /\ \A i \in 1 .. Len(t) - 1 : Tail(t)[i] = t[i + 1]
  BY <1>1, Rest
<1>3. \/ QueryShared(h) /\ IsShared(t[1].key) /\ v = Tail(Tail(t))
      \/ QueryShared(h) /\ ~IsShared(t[1].key) /\ v = Tail(t)
      \/ t[1].do # "isShared" /\ v = Tail(t)
  BY <1>1 DEF Proceeds, QueryShared, TokenStoreRemoveItem, RefreshItem, StoreItem, SaveUser, Then, Step, TypeOK
<1>4. QueryShared(h) => t[1].do = "isShared"
  BY <1>1 DEF QueryShared, Step
<1> HIDE DEF t, v
<1>5. CASE v = Tail(t) /\ (t[1].do = "isShared" => ~IsShared(t[1].key))
  <2>1. Len(v) > 0 /\ v[1].do = "remove" => ~IsShared(v[1].key)
    <3> SUFFICES ASSUME Len(v) > 0, v[1].do = "remove" PROVE ~IsShared(v[1].key)
      OBVIOUS
    <3>1. v[1] = t[2] /\ 2 \in 1 .. Len(t) /\ 2 > 1 /\ 2 - 1 = 1
      BY <1>2, <1>5
    <3>2. t[1].do = "isShared" /\ t[1].key = t[2].key
      BY <1>1, <3>1 DEF Ordered
    <3> QED
      BY <1>5, <3>1, <3>2
  <2>2. Takes(t, v, 1)
    BY <1>2, <1>5, <2>1 DEF Takes
  <2> QED
    BY <1>0, <2>2 DEF t, v
<1>6. CASE v = Tail(Tail(t)) /\ t[1].do = "isShared"
  <2>1. Len(t) > 1 /\ t[2].do = "remove"
    BY <1>1, <1>2, <1>6 DEF Ordered
  <2>2. Len(Tail(t)) # 0
    BY <1>2, <2>1
  <2>3. Tail(t) # <<>>
    BY <2>2, EmptySeq
  <2>4. /\ Len(v) = Len(Tail(t)) - 1 /\ v \in Seq(HandlerStep)
        /\ \A i \in 1 .. Len(Tail(t)) - 1 : v[i] = Tail(t)[i + 1]
    BY <1>2, <1>6, <2>3, Rest
  <2>5. \A i \in 1 .. Len(v) : v[i] = t[i + 2]
    <3> TAKE i \in 1 .. Len(v)
    <3>1. v[i] = Tail(t)[i + 1] /\ i + 1 \in 1 .. Len(t) - 1 /\ (i + 1) + 1 = i + 2
      BY <1>2, <2>4
    <3>2. Tail(t)[i + 1] = t[(i + 1) + 1]
      BY <1>2, <3>1
    <3> QED
      BY <3>1, <3>2
  <2>6. Len(v) > 0 => v[1].do # "remove"
    <3> SUFFICES ASSUME Len(v) > 0 PROVE v[1].do # "remove"
      OBVIOUS
    <3>1. v[1] = t[3] /\ 3 \in 1 .. Len(t) /\ 3 > 1 /\ 3 - 1 = 2
      BY <1>2, <2>4, <2>5
    <3> QED
      BY <1>1, <2>1, <3>1 DEF Ordered
  <2>7. Takes(t, v, 2)
    BY <1>2, <1>6, <2>1, <2>4, <2>5, <2>6 DEF Takes
  <2> QED
    BY <1>0, <2>7 DEF t, v
<1> QED
  BY <1>3, <1>4, <1>5, <1>6

\* What is left to do after such a step.
LEMMA TakesRest ==
    ASSUME NEW t \in Seq(HandlerStep), t # <<>>, NEW v, NEW d \in {1, 2}, Takes(t, v, d), NEW k
    PROVE  /\ Drops(v, k) => Drops(t, k)
           /\ Concerns(v, k) => Concerns(t, k)
           /\ Stores(t, k) => Stores(v, k) \/ (t[1].do = "store" /\ t[1].key = k)
           /\ Mends(t, 1, k) => \/ Mends(v, 1, k)
                                \/ t[1].do = "store" /\ t[1].key = k
                                \/ t[1].do = "disable" /\ \A c \in RowsWith(k) : Owner[c] = t[1].user
           /\ Mends(t, 1 + 1, k) => Mends(v, 1, k)
           /\ \A i \in 1 .. Len(v) : Mends(t, (i + d) + 1, k) => Mends(v, i + 1, k)
<1>1. /\ v \in Seq(HandlerStep) /\ Len(v) = Len(t) - d
      /\ \A i \in 1 .. Len(v) : v[i] = t[i + d]
      /\ d = 2 => t[2].do = "remove"
  BY DEF Takes
<1>2. Len(t) \in Nat /\ Len(v) \in Nat
  BY <1>1, LenProperties
<1>3. \A i \in 1 .. Len(v) : i + d \in 1 .. Len(t) /\ v[i] = t[i + d]
  BY <1>1, <1>2
<1>4. ASSUME NEW j \in 1 .. Len(t)
      PROVE  j = 1 \/ (j = 2 /\ t[j].do = "remove") \/ (j - d \in 1 .. Len(v) /\ v[j - d] = t[j])
  <2>1. CASE j > d
    <3>1. j - d \in 1 .. Len(v) /\ (j - d) + d = j
      BY <1>1, <1>2, <2>1
    <3> QED
      BY <1>3, <3>1
  <2>2. CASE ~(j > d)
    BY <1>1, <2>2
  <2> QED
    BY <2>1, <2>2
<1>5. Drops(v, k) => Drops(t, k)
  BY <1>3 DEF Drops
<1>6. Concerns(v, k) => Concerns(t, k)
  BY <1>3, <1>5 DEF Concerns
<1>7. Stores(t, k) => Stores(v, k) \/ (t[1].do = "store" /\ t[1].key = k)
  BY <1>4 DEF Stores
<1>8. ASSUME Mends(t, 1, k)
      PROVE  \/ Mends(v, 1, k)
             \/ t[1].do = "store" /\ t[1].key = k
             \/ t[1].do = "disable" /\ \A c \in RowsWith(k) : Owner[c] = t[1].user
  BY <1>4, <1>8 DEF Mends
<1>9. ASSUME Mends(t, 1 + 1, k) PROVE Mends(v, 1, k)
  <2>1. PICK j \in 1 + 1 .. Len(t) :
          \/ t[j].do = "store" /\ t[j].key = k
          \/ t[j].do = "disable" /\ \A c \in RowsWith(k) : Owner[c] = t[j].user
    BY <1>9 DEF Mends
  <2>2. j \in 1 .. Len(t) /\ j # 1
    BY <1>2
  <2>3. j - d \in 1 .. Len(v) /\ v[j - d] = t[j]
    BY <1>4, <2>1, <2>2
  <2> QED
    BY <2>1, <2>3 DEF Mends
<1>10. ASSUME NEW i \in 1 .. Len(v), Mends(t, (i + d) + 1, k) PROVE Mends(v, i + 1, k)
  <2>1. PICK j \in (i + d) + 1 .. Len(t) :
          \/ t[j].do = "store" /\ t[j].key = k
          \/ t[j].do = "disable" /\ \A c \in RowsWith(k) : Owner[c] = t[j].user
    BY <1>10 DEF Mends
  <2>2. j - d \in i + 1 .. Len(v) /\ j - d \in 1 .. Len(v) /\ (j - d) + d = j
    BY <1>1, <1>2
  <2>3. v[j - d] = t[j]
    BY <1>3, <2>2
  <2> QED
    BY <2>1, <2>2, <2>3 DEF Mends
<1> QED
  BY <1>5, <1>6, <1>7, <1>8, <1>9, <1>10

\* What is needed after a step of a handler was needed before, or is an item of
\* the user that is enabled.
LEMMA NeededStep ==
    ASSUME TypeOK, TodoOrdered, NEW h \in Requests, Proceeds(h), ~SaveChannel(h), NEW k \in Keys
    PROVE  /\ RowsWith(k)' = RowsWith(k) /\ IsShared(k)' = IsShared(k)
           /\ Needed(k)' => \/ Needed(k)
                            \/ /\ todo[h][1].do = "enable"
                               /\ \E c \in RowsWith(k) : Owner[c] = todo[h][1].user
           /\ Needed(k)' /\ todo[h][1].do = "disable" => \E c \in RowsWith(k) : Owner[c] # todo[h][1].user
           /\ Needed(k)' => RowsWith(k) # {}
<1>1. UNCHANGED row
  BY TakesSteps
<1>2. RowsWith(k)' = RowsWith(k) /\ IsShared(k)' = IsShared(k)
  BY <1>1 DEF RowsWith, IsShared
<1>3. Head(todo[h]) = todo[h][1]
  BY ProceedsFit
<1>4. \/ enabled' = enabled /\ todo[h][1].do \notin {"disable", "enable"}
      \/ todo[h][1].do = "disable" /\ enabled' = enabled \ {todo[h][1].user}
      \/ todo[h][1].do = "enable" /\ enabled' = enabled \cup {todo[h][1].user}
  BY <1>3 DEF Proceeds, QueryShared, TokenStoreRemoveItem, RefreshItem, StoreItem, SaveUser, Step
<1>5. Needed(k)' => IsFilled(k) /\ \E c \in RowsWith(k) : Owner[c] \in enabled' /\ HasItem(row[c])
  BY <1>1, <1>2 DEF Needed
<1> QED
  BY <1>2, <1>4, <1>5 DEF Needed

\* The store loses no item in a step but the one that is removed, and stores the
\* one that is to be stored.
LEMMA AvailableStep ==
    ASSUME TypeOK, TodoOrdered, NEW h \in Requests, Proceeds(h), NEW k \in Keys
    PROVE  /\ Available(k) => \/ Available(k)'
                              \/ TokenStoreRemoveItem(h) /\ todo[h][1].do = "remove" /\ todo[h][1].key = k
           /\ Proceeds(h) /\ todo[h][1].do = "store" /\ todo[h][1].key = k => Available(k)'
<1>1. Head(todo[h]) = todo[h][1] /\ UNCHANGED <<lpc, lrows>>
  BY ProceedsFit DEF refresherVars
<1>2. /\ map \in [Keys -> Items \cup {NoItem}]
      /\ todo[h][1].do = "store" => <<h, todo[h][1].chan>> # NoItem
  <2>1. todo[h][1] \in HandlerStep
    BY ProceedsFit
  <2>2. todo[h][1].do = "store" => <<h, todo[h][1].chan>> \in Items
    BY <2>1, StepFields DEF Items
  <2> QED
    BY <2>2, NoneAssumption DEF TypeOK
<1>3. CASE TokenStoreRemoveItem(h)
  BY <1>1, <1>2, <1>3 DEF TokenStoreRemoveItem, Step, Available, TypeOK
<1>4. CASE StoreItem(h)
  BY <1>1, <1>2, <1>4 DEF StoreItem, Step, Available, TypeOK
<1>5. CASE UNCHANGED map /\ todo[h][1].do # "store"
  BY <1>1, <1>5 DEF Available
<1> QED
  BY <1>1, <1>3, <1>4, <1>5 DEF Proceeds, SaveChannel, QueryShared, RefreshItem, SaveUser, Step

\* A step of a handler other than the saving of a channel: what was available or
\* mended still is, unless it is no longer needed.
LEMMA KeyProceeds ==
    ASSUME TypeOK, TodoOrdered, EnablesPlain, NEW h \in Requests, Proceeds(h), ~SaveChannel(h),
           NEW k \in Keys, KeyInv(k)
    PROVE  KeyInv(k)'
<1>1. PICK t, v : t = todo[h] /\ v = todo'[h]
  OBVIOUS
<1>2. PICK d \in {1, 2} : Takes(t, v, d)
  BY <1>1, TakesSteps
<1>3. /\ t \in Seq(HandlerStep) /\ t # <<>> /\ Len(t) \in Nat \ {0} /\ Ordered(t)
      /\ UNCHANGED <<row, lpc, lrows>>
      /\ \A g \in Requests \ {h} : todo'[g] = todo[g]
  BY <1>1, ProceedsFit, TakesSteps DEF TodoOrdered, refresherVars
<1>4. v \in Seq(HandlerStep) /\ Len(v) = Len(t) - d /\ \A i \in 1 .. Len(v) : v[i] = t[i + d]
  BY <1>2 DEF Takes
<1>5. Len(v) \in Nat
  BY <1>4, LenProperties
<1>6. \A i \in 1 .. Len(v) : v[i] = t[i + d] /\ i + d \in 1 .. Len(t)
  BY <1>3, <1>4, <1>5
<1>7. RowsWith(k)' = RowsWith(k) /\ IsShared(k)' = IsShared(k)
  BY NeededStep
<1>8. /\ Drops(v, k) => Drops(t, k)
      /\ Concerns(v, k) => Concerns(t, k)
      /\ Stores(t, k) => Stores(v, k) \/ (t[1].do = "store" /\ t[1].key = k)
      /\ Mends(t, 1, k) => \/ Mends(v, 1, k)
                           \/ t[1].do = "store" /\ t[1].key = k
                           \/ t[1].do = "disable" /\ \A c \in RowsWith(k) : Owner[c] = t[1].user
      /\ Mends(t, 1 + 1, k) => Mends(v, 1, k)
      /\ \A i \in 1 .. Len(v) : Mends(t, (i + d) + 1, k) => Mends(v, i + 1, k)
  BY <1>2, <1>3, TakesRest
<1>9. 1 \in 1 .. Len(t)
  BY <1>3
\* The rows of k stay, so what a list of steps does for k stays as well.
<1>10. \A w, i : (Mends(w, i, k)' <=> Mends(w, i, k)) /\ (Concerns(w, k)' <=> Concerns(w, k))
  BY <1>7 DEF Mends, Concerns, Drops
<1>11. Mends(v, 1, k) => Mended(k)'
  BY <1>1, <1>7 DEF Mended, Mends
<1>12. ASSUME Mended(k), Needed(k)' PROVE Available(k)' \/ Mended(k)'
  <2>1. PICK g \in Requests : Mends(todo[g], 1, k)
    BY <1>12 DEF Mended
  <2>2. CASE g # h
    BY <1>3, <1>7, <2>1, <2>2 DEF Mended, Mends
  <2>3. CASE g = h
    <3>1. ~(t[1].do = "disable" /\ \A c \in RowsWith(k) : Owner[c] = t[1].user)
      BY <1>1, <1>12, NeededStep
    <3>2. t[1].do = "store" /\ t[1].key = k => Available(k)'
      BY <1>1, AvailableStep
    <3> QED
      BY <1>1, <1>8, <1>11, <2>1, <2>3, <3>1, <3>2
  <2> QED
    BY <2>2, <2>3
<1>13. ASSUME Available(k), Needed(k)' PROVE Available(k)' \/ Mended(k)'
  <2>1. CASE Available(k)'
    BY <2>1
  <2>2. CASE t[1].do = "remove" /\ t[1].key = k
    <3>1. IsShared(k) \/ RowsWith(k) = {} \/ Mends(t, 1 + 1, k)
      BY <1>1, <1>9, <2>2 DEF KeyInv, RemovalsOK
    <3>2. ~IsShared(k)
      BY <1>1, <1>9, <2>2 DEF KeyInv, RemovalsOK
    <3>3. RowsWith(k) # {}
      BY <1>13, NeededStep
    <3> QED
      BY <1>8, <1>11, <3>1, <3>2, <3>3
  <2> QED
    BY <1>1, <1>13, <2>1, <2>2, AvailableStep
\* The item of a user that is going to be enabled.
<1>14. ASSUME NEW g \in Requests, NEW i \in 1 .. Len(todo[g]), todo[g][i].do = "enable",
              NEW c \in RowsWith(k), todo[g][i].user = Owner[c], lpc # "read"
       PROVE  Available(k)' \/ \E f \in Requests : Stores(todo[f], k)'
  <2>1. CASE Available(k)
    <3>1. ASSUME t[1].do = "remove", t[1].key = k PROVE FALSE
      <4>1. g # h
        BY <1>1, <1>9, <1>14, <3>1 DEF EnablesPlain
      <4>2. Drops(todo[h], k)
        BY <1>1, <1>9, <3>1 DEF Drops
      <4>3. Concerns(todo[g], k)
        BY <1>14 DEF Concerns
      <4> QED
        BY <4>1, <4>2, <4>3 DEF KeyInv, Apart
    <3> QED
      BY <1>1, <2>1, <3>1, AvailableStep
  <2>2. ASSUME NEW f \in Requests, Stores(todo[f], k)
        PROVE  Available(k)' \/ \E e \in Requests : Stores(todo[e], k)'
    <3>1. CASE f # h
      BY <1>3, <2>2, <3>1 DEF Stores
    <3>2. CASE f = h
      <4>1. Stores(v, k) => Stores(todo[f], k)'
        BY <1>1, <3>2 DEF Stores
      <4>2. t[1].do = "store" /\ t[1].key = k => Available(k)'
        BY <1>1, AvailableStep
      <4> QED
        BY <1>1, <1>8, <2>2, <3>2, <4>1, <4>2
    <3> QED
      BY <3>1, <3>2
  <2> QED
    BY <1>14, <2>1, <2>2 DEF KeyInv, EnablesOK
<1>15. Apart(k)'
  <2>1. \A g \in Requests : Drops(todo[g], k)' => Drops(todo[g], k)
    BY <1>1, <1>3, <1>8 DEF Drops
  <2>2. ASSUME NEW g \in Requests, Concerns(todo[g], k)' PROVE Concerns(todo[g], k)
    <3>1. PICK w : w = todo'[g]
      OBVIOUS
    <3>2. Concerns(w, k)'
      BY <2>2, <3>1 DEF Concerns, Drops
    <3>3. Concerns(w, k)
      BY <1>10, <3>2
    <3> QED
      BY <1>1, <1>3, <1>8, <3>1, <3>3
  <2> QED
    BY <2>1, <2>2 DEF KeyInv, Apart
<1>16. Covered(k)'
  <2> SUFFICES ASSUME lpc # "read", Needed(k)' PROVE Available(k)' \/ Mended(k)'
    BY <1>3 DEF Covered
  <2>1. CASE Needed(k)
    BY <1>12, <1>13, <2>1 DEF KeyInv, Covered
  <2>2. CASE ~Needed(k)
    <3>1. PICK c \in RowsWith(k) : t[1].do = "enable" /\ t[1].user = Owner[c]
      BY <1>1, <2>2, NeededStep
    <3>2. Available(k)' \/ \E f \in Requests : Stores(todo[f], k)'
      BY <1>1, <1>9, <1>14, <3>1
    <3>3. \A f \in Requests : Stores(todo[f], k)' => Mends(todo[f], 1, k)'
      BY DEF Stores, Mends
    <3> QED
      BY <3>2, <3>3 DEF Mended
  <2> QED
    BY <2>1, <2>2
<1>17. RemovalsOK(k)'
  <2>1. ASSUME NEW i \in 1 .. Len(v), v[i].do = "remove", v[i].key = k
        PROVE  /\ IsShared(k) \/ RowsWith(k) = {} \/ Mends(v, i + 1, k)
               /\ i = 1 => ~IsShared(k)
    <3>1. IsShared(k) \/ RowsWith(k) = {} \/ Mends(t, (i + d) + 1, k)
      BY <1>1, <1>6, <2>1 DEF KeyInv, RemovalsOK
    <3>2. i = 1 => ~IsShared(k)
      BY <1>2, <1>5, <2>1 DEF Takes
    <3> QED
      BY <1>8, <3>1, <3>2
  <2>2. ASSUME NEW i \in 1 .. Len(v), Mends(v, i + 1, k) PROVE Mends(todo[h], i + 1, k)'
    BY <1>1, <1>7, <2>2 DEF Mends
  <2>3. ASSUME NEW g \in Requests, g # h, NEW i \in 1 .. Len(todo[g]), Mends(todo[g], i + 1, k)
        PROVE  Mends(todo[g], i + 1, k)'
    BY <1>3, <1>7, <2>3 DEF Mends
  <2>4. ASSUME NEW g \in Requests, NEW i \in 1 .. Len(todo'[g]), todo'[g][i].do = "remove", todo'[g][i].key = k
        PROVE  /\ IsShared(k)' \/ RowsWith(k)' = {} \/ Mends(todo[g], i + 1, k)'
               /\ i = 1 => ~IsShared(k)'
    <3>1. CASE g = h
      BY <1>1, <1>7, <2>1, <2>2, <2>4, <3>1
    <3>2. CASE g # h
      BY <1>3, <1>7, <2>3, <2>4, <3>2 DEF KeyInv, RemovalsOK
    <3> QED
      BY <3>1, <3>2
  <2> QED
    BY <2>4 DEF RemovalsOK
<1>18. EnablesOK(k)'
  <2> SUFFICES ASSUME NEW g \in Requests, NEW i \in 1 .. Len(todo'[g]), NEW c \in RowsWith(k)',
                      todo'[g][i].do = "enable", todo'[g][i].user = Owner[c], lpc' # "read"
               PROVE  Available(k)' \/ \E f \in Requests : Stores(todo[f], k)'
    BY DEF EnablesOK
  <2>1. \E j \in 1 .. Len(todo[g]) : todo[g][j] = todo'[g][i]
    BY <1>1, <1>3, <1>6
  <2> QED
    BY <1>3, <1>7, <1>14, <2>1
<1> QED
  BY <1>15, <1>16, <1>17, <1>18 DEF KeyInv

\* A handler that starts, or saves a channel: it has nothing but the saving to
\* do before, and v afterwards. It is enough that no other handler is at an
\* item it may remove, nor may remove one it is at; that it stores the item of
\* a row that is new; and that its removals and its enabling are in order.
LEMMA KeyReshaped ==
    ASSUME TypeOK, NEW h \in Requests, NEW v, v \in Seq(HandlerStep), NEW k \in Keys, KeyInv(k),
           todo' = [todo EXCEPT ![h] = v], UNCHANGED <<enabled, map, lpc, lrows>>,
           \A i \in 1 .. Len(todo[h]) : todo[h][i].do = "save",
           \A g \in Requests \ {h} : Drops(todo[g], k) => ~Concerns(v, k)' /\ RowsWith(k)' = RowsWith(k),
           \A g \in Requests \ {h} : Drops(v, k) => ~Concerns(todo[g], k)',
           RowsWith(k)' \subseteq RowsWith(k) \/ Stores(v, k),
           \A i \in 1 .. Len(v) : v[i].do = "remove" /\ v[i].key = k =>
             (IsShared(k)' \/ RowsWith(k)' = {} \/ Mends(v, i + 1, k)') /\ i # 1,
           \A i \in 1 .. Len(v) : \A c \in RowsWith(k)' :
             v[i].do = "enable" /\ v[i].user = Owner[c] => Stores(v, k)
    PROVE  KeyInv(k)'
<1>1. todo'[h] = v /\ \A g \in Requests \ {h} : todo'[g] = todo[g]
  BY DEF TypeOK
<1>2. /\ ~Stores(todo[h], k)
      /\ ~Mends(todo[h], 1, k)
  BY DEF Stores, Mends
<1>3. /\ Stores(v, k) => Stores(todo[h], k)' /\ Mended(k)'
      /\ \A g \in Requests \ {h} : Stores(todo[g], k) => Stores(todo[g], k)'
  <2>1. Stores(v, k) => Stores(todo[h], k)'
    BY <1>1 DEF Stores
  <2>2. Stores(todo[h], k)' => Mends(todo[h], 1, k)'
    BY DEF Stores, Mends
  <2>3. ASSUME NEW g \in Requests \ {h}, Stores(todo[g], k) PROVE Stores(todo[g], k)'
    BY <1>1, <2>3 DEF Stores
  <2> QED
    BY <2>1, <2>2, <2>3 DEF Mended
<1>4. Available(k)' = Available(k)
  BY DEF Available
<1>5. Apart(k)'
  <2> SUFFICES ASSUME NEW f \in Requests, NEW g \in Requests, f # g, Drops(todo[f], k)', Concerns(todo[g], k)'
               PROVE  FALSE
    BY DEF Apart
  <2>1. CASE f = h
    <3>1. Drops(v, k)
      BY <1>1, <2>1 DEF Drops
    <3> QED
      BY <2>1, <3>1
  <2>2. CASE f # h
    <3>1. Drops(todo[f], k)
      BY <1>1, <2>2 DEF Drops
    <3>2. CASE g = h
      <4>1. Concerns(v, k)'
        BY <1>1, <3>2 DEF Concerns, Drops
      <4> QED
        BY <2>2, <3>1, <4>1
    <3>3. CASE g # h
      <4>1. RowsWith(k)' = RowsWith(k)
        BY <2>2, <3>1
      <4>2. Concerns(todo[g], k)
        BY <1>1, <3>3, <4>1 DEF Concerns, Drops
      <4> QED
        BY <3>1, <4>2 DEF KeyInv, Apart
    <3> QED
      BY <3>2, <3>3
  <2> QED
    BY <2>1, <2>2
<1>6. Covered(k)'
  <2> SUFFICES ASSUME lpc # "read", Needed(k)', ~Stores(v, k) PROVE Available(k)' \/ Mended(k)'
    BY <1>3 DEF Covered
  <2>1. RowsWith(k)' \subseteq RowsWith(k)
    OBVIOUS
  <2>2. Needed(k)
    <3>1. PICK c \in RowsWith(k)' : Owner[c] \in enabled /\ IsFilled(k)
      BY DEF Needed
    <3>2. c \in RowsWith(k) /\ row[c] = k /\ HasItem(k)
      BY <2>1, <3>1, RowsOf
    <3> QED
      BY <3>1, <3>2 DEF Needed
  <2>3. ASSUME NEW g \in Requests, Mends(todo[g], 1, k) PROVE Mended(k)'
    <3>1. g # h
      BY <1>2, <2>3
    <3>2. Mends(todo[g], 1, k)'
      BY <1>1, <2>1, <2>3, <3>1 DEF Mends
    <3> QED
      BY <3>2 DEF Mended
  <2> QED
    BY <1>4, <2>2, <2>3 DEF KeyInv, Covered, Mended
<1>7. RemovalsOK(k)'
  <2> SUFFICES ASSUME NEW g \in Requests, NEW i \in 1 .. Len(todo'[g]), todo'[g][i].do = "remove", todo'[g][i].key = k
               PROVE  /\ IsShared(k)' \/ RowsWith(k)' = {} \/ Mends(todo[g], i + 1, k)'
                      /\ i = 1 => ~IsShared(k)'
    BY DEF RemovalsOK
  <2>1. CASE g = h
    <3>1. (IsShared(k)' \/ RowsWith(k)' = {} \/ Mends(v, i + 1, k)') /\ i # 1
      BY <1>1, <2>1
    <3>2. Mends(v, i + 1, k)' => Mends(todo[g], i + 1, k)'
      BY <1>1, <2>1 DEF Mends
    <3> QED
      BY <3>1, <3>2
  <2>2. CASE g # h
    <3>1. todo'[g] = todo[g] /\ Drops(todo[g], k)
      BY <1>1, <2>2 DEF Drops
    <3>2. RowsWith(k)' = RowsWith(k)
      BY <2>2, <3>1
    <3>3. IsShared(k)' = IsShared(k)
      BY <3>2 DEF IsShared
    <3>4. Mends(todo[g], i + 1, k) => Mends(todo[g], i + 1, k)'
      BY <3>1, <3>2 DEF Mends
    <3> QED
      BY <3>1, <3>2, <3>3, <3>4 DEF KeyInv, RemovalsOK
  <2> QED
    BY <2>1, <2>2
<1>8. EnablesOK(k)'
  <2> SUFFICES ASSUME NEW g \in Requests, NEW i \in 1 .. Len(todo'[g]), NEW c \in RowsWith(k)',
                      todo'[g][i].do = "enable", todo'[g][i].user = Owner[c], lpc # "read", ~Stores(v, k)
               PROVE  Available(k)' \/ \E f \in Requests : Stores(todo[f], k)'
    BY <1>3 DEF EnablesOK
  <2>1. g # h
    BY <1>1
  <2>2. c \in RowsWith(k) /\ todo'[g] = todo[g]
    BY <1>1, <2>1
  <2>3. Available(k) \/ \E f \in Requests : Stores(todo[f], k)
    BY <2>2 DEF KeyInv, EnablesOK
  <2> QED
    BY <1>2, <1>3, <1>4, <2>3
<1> QED
  BY <1>5, <1>6, <1>7, <1>8 DEF KeyInv

\* TokenStoreUpdateChannel step by step: the old item is removed, and the item
\* of the updated key is stored last.
LEMMA UpdateShape ==
    ASSUME NEW old \in Row, NEW new \in Row, NEW c \in Channels
    PROVE  LET v == UpdateSteps(new, old, c)
           IN /\ \A i \in 1 .. Len(v) :
                   /\ v[i].do \in {"isShared", "remove"} => v[i].key = KeyOf(old)
                   /\ v[i].do = "remove" => i = 2
                   /\ v[i].do \in {"refresh", "store"} => v[i].key = UpdatedKey(new, old)
              /\ HasItem(old) /\ IsFilled(UpdatedKey(new, old)) =>
                   Len(v) = 4 /\ v[4].do = "store" /\ v[4].key = UpdatedKey(new, old)
<1>1. CASE HasItem(old)
  <2> DEFINE a == [do |-> "isShared", key |-> KeyOf(old)]
             b == [do |-> "remove", key |-> KeyOf(old)]
             x == [do |-> "refresh", key |-> UpdatedKey(new, old), chan |-> c]
             y == [do |-> "store", key |-> UpdatedKey(new, old), chan |-> c]
             v == UpdateSteps(new, old, c)
  <2>1. v = <<a, b>> \o (IF IsFilled(UpdatedKey(new, old)) THEN <<x, y>> ELSE <<>>)
    BY <1>1 DEF UpdateSteps, DropSteps, PutSteps
  <2>2. /\ a.do = "isShared" /\ a.key = KeyOf(old) /\ b.do = "remove" /\ b.key = KeyOf(old)
        /\ x.do = "refresh" /\ x.key = UpdatedKey(new, old)
        /\ y.do = "store" /\ y.key = UpdatedKey(new, old)
    OBVIOUS
  <2> HIDE DEF a, b, x, y, v
  <2>3. CASE IsFilled(UpdatedKey(new, old))
    <3>1. v = <<a, b>> \o <<x, y>>
      BY <2>1, <2>3
    <3> DEFINE S == {a, b, x, y}
    <3>5. /\ <<a, b>> \in Seq(S) /\ Len(<<a, b>>) = 2 /\ <<a, b>>[1] = a /\ <<a, b>>[2] = b
          /\ <<x, y>> \in Seq(S) /\ Len(<<x, y>>) = 2 /\ <<x, y>>[1] = x /\ <<x, y>>[2] = y
      OBVIOUS
    <3> HIDE DEF S
    <3>6. /\ Len(v) = 2 + 2
          /\ \A i \in 1 .. 2 + 2 : v[i] = IF i <= 2 THEN <<a, b>>[i] ELSE <<x, y>>[i - 2]
      BY <3>1, <3>5, ConcatProperties
    <3>2. Len(v) = 4 /\ v[1] = a /\ v[2] = b /\ v[3] = x /\ v[4] = y
      BY <3>5, <3>6
    <3>3. \A i \in 1 .. 4 : i = 1 \/ i = 2 \/ i = 3 \/ i = 4
      OBVIOUS
    <3>4. \A i \in 1 .. Len(v) :
            /\ v[i].do \in {"isShared", "remove"} => v[i].key = KeyOf(old)
            /\ v[i].do = "remove" => i = 2
            /\ v[i].do \in {"refresh", "store"} => v[i].key = UpdatedKey(new, old)
      BY <2>2, <3>2, <3>3
    <3> QED
      BY <2>2, <3>2, <3>4 DEF v
  <2>4. CASE ~IsFilled(UpdatedKey(new, old))
    <3>1. v = <<a, b>>
      BY <2>1, <2>4
    <3>2. Len(v) = 2 /\ v[1] = a /\ v[2] = b
      BY <3>1
    <3>3. \A i \in 1 .. 2 : i = 1 \/ i = 2
      OBVIOUS
    <3>4. \A i \in 1 .. Len(v) :
            /\ v[i].do \in {"isShared", "remove"} => v[i].key = KeyOf(old)
            /\ v[i].do = "remove" => i = 2
            /\ v[i].do \in {"refresh", "store"} => v[i].key = UpdatedKey(new, old)
      BY <2>2, <3>2, <3>3
    <3> QED
      BY <2>4, <3>4 DEF v
  <2> QED
    BY <2>3, <2>4
<1>2. CASE ~HasItem(old)
  <2>1. UpdateSteps(new, old, c) = <<>>
    BY <1>2 DEF UpdateSteps
  <2> QED
    BY <1>2, <2>1, EmptySeq
<1> QED
  BY <1>1, <1>2

\* If the change is followed and the new row needs an item, the updated key is
\* its key.
LEMMA UpdatedKeyIsKey ==
    ASSUME NEW old \in Row, NEW new \in Row, ~NotFollowed(new, old), HasItem(new), IsFilled(KeyOf(new))
    PROVE  HasItem(old) /\ UpdatedKey(new, old) = KeyOf(new)
<1>1. new.type = old.type /\ (old.type = "corp_app" => new.app = old.app)
  BY DEF NotFollowed
<1>2. new.app # Blank /\ new.secret # Blank /\ new.type \in TokenTypes
  BY DEF IsFilled, KeyOf, HasItem
<1>3. HasItem(old)
  BY <1>1, <1>2 DEF HasItem, TokenTypes
<1>4. old.type = "test" \/ new.app = old.app
  BY <1>1, <1>2 DEF TokenTypes
<1> QED
  BY <1>1, <1>2, <1>3, <1>4 DEF UpdatedKey, KeyOf

\* The saving of a channel: what the new row needs is stored, what the old row
\* had is not needed any more, or stored again.
LEMMA KeySave ==
    ASSUME TypeOK, TodoOrdered, NEW h \in Requests, SaveChannel(h),
           NEW k \in Keys, IsFilled(k), k \notin disturbed', KeyInv(k)
    PROVE  KeyInv(k)'
<1>1. Proceeds(h)
  BY DEF Proceeds
<1>2. PICK s : s = todo[h][1]
  OBVIOUS
<1>3. todo[h] # <<>> /\ Head(todo[h]) = s /\ s \in HandlerStep /\ Len(todo[h]) \in Nat \ {0} /\ Ordered(todo[h])
  BY <1>1, <1>2, ProceedsFit DEF TodoOrdered
<1>4. s.do = "save" /\ Len(todo[h]) = 1
  <2>1. s.do = "save" /\ 1 \in 1 .. Len(todo[h])
    BY <1>3 DEF SaveChannel, Step
  <2> QED
    BY <1>2, <1>3, <2>1 DEF Ordered
<1>5. PICK c \in Channels, old \in Row, new \in Row : c = s.chan /\ old = s.old /\ new = s.new
  BY <1>3, <1>4, StepFields
<1>6. KeyOf(old) = old /\ KeyOf(new) = new /\ old # NoRow /\ new # NoRow
  BY KeyType, NoneAssumption
<1>7. /\ \A x \in Channels \ {c} : row'[x] = row[x]
      /\ row'[c] = IF row[c] = NoRow THEN NoRow ELSE new
  <2>1. row' = IF row[c] = NoRow THEN row ELSE [row EXCEPT ![c] = new]
    BY <1>3, <1>5 DEF SaveChannel
  <2> QED
    BY <2>1 DEF TypeOK
<1>8. PICK v : v = UpdateSteps(new, old, c)
  OBVIOUS
<1>9. todo' = [todo EXCEPT ![h] = v]
  BY <1>3, <1>5, <1>8 DEF SaveChannel, Then
<1>10. UNCHANGED <<enabled, map, lpc, lrows>>
  BY DEF SaveChannel, refresherVars
<1>11. /\ ~(k = old /\ GivenUp(k, c))
       /\ ~(k = new /\ NotFollowed(new, old))
       /\ row[c] \notin {NoRow, old} => KeyOf(row[c]) # k /\ new # k
  <2>1. k \notin SaveDisturbs(s)
    BY <1>3 DEF SaveChannel
  <2> QED
    BY <1>5, <1>6, <2>1 DEF SaveDisturbs, SavedOver
<1>12. /\ RowsWith(k) = {x \in Channels : row[x] = k}
       /\ k \in Row /\ HasItem(k) /\ k # NoRow /\ KeyOf(k) = k
  BY RowsOf
<1>13. RowsWith(k)' = {x \in Channels : row'[x] = k}
  <2>1. RowsWith(k)' = {x \in Channels : row'[x] # NoRow /\ KeyOf(row'[x]) = k}
    BY RowsOf
  <2>2. \A x \in Channels : row'[x] # NoRow => KeyOf(row'[x]) = row'[x]
    BY <1>1, ProceedsType, KeyType
  <2> QED
    BY <1>12, <2>1, <2>2
<1>14. /\ v \in Seq(HandlerStep)
       /\ \A i \in 1 .. Len(v) :
            /\ v[i].do \in {"isShared", "remove", "refresh", "store"}
            /\ v[i].do \in {"isShared", "remove"} => v[i].key = old
            /\ v[i].do = "remove" => i = 2
            /\ v[i].do \in {"refresh", "store"} => v[i].key = UpdatedKey(new, old)
       /\ HasItem(old) /\ IsFilled(UpdatedKey(new, old)) =>
            Len(v) = 4 /\ v[4].do = "store" /\ v[4].key = UpdatedKey(new, old)
  BY <1>6, <1>8, UpdateShape, UpdateFit DEF Fit
\* What the handler is at was known before.
<1>15. /\ k = old => Drops(todo[h], k)
       /\ k \in {new, UpdatedKey(new, old)} => Concerns(todo[h], k)
  BY <1>2, <1>4, <1>5, <1>6 DEF Drops, Concerns
<1>16. Drops(v, k) => k = old
  BY <1>14 DEF Drops
<1>17. Concerns(v, k)' => k \in {old, UpdatedKey(new, old)}
  BY <1>14, <1>16 DEF Concerns, Drops
<1>18. k = new => Len(v) = 4 /\ v[4].do = "store" /\ v[4].key = k
  BY <1>6, <1>11, <1>12, <1>14, UpdatedKeyIsKey
<1>19. ASSUME NEW x \in RowsWith(k)', x \notin RowsWith(k)
       PROVE  k = new /\ k # old
  BY <1>7, <1>11, <1>12, <1>13, <1>19
<1>20. ASSUME NEW x \in RowsWith(k), x \notin RowsWith(k)'
       PROVE  k = old
  <2>1. x = c /\ row[c] = k
    BY <1>7, <1>12, <1>13, <1>20
  <2> QED
    BY <1>11, <1>12, <2>1
<1>21. \A i \in 1 .. Len(todo[h]) : todo[h][i].do = "save"
  BY <1>2, <1>4
<1>22. \A g \in Requests \ {h} : Drops(todo[g], k) => ~Concerns(v, k)' /\ RowsWith(k)' = RowsWith(k)
  <2> SUFFICES ASSUME NEW g \in Requests \ {h}, Drops(todo[g], k)
               PROVE  ~Concerns(v, k)' /\ RowsWith(k)' = RowsWith(k)
    OBVIOUS
  <2>1. ~Concerns(todo[h], k)
    BY DEF KeyInv, Apart
  <2>2. k # old /\ k # new /\ k # UpdatedKey(new, old)
    BY <1>15, <2>1, StoresConcern
  <2> QED
    BY <1>17, <1>19, <1>20, <2>2
<1>23. \A g \in Requests \ {h} : Drops(v, k) => ~Concerns(todo[g], k)'
  <2> SUFFICES ASSUME NEW g \in Requests \ {h}, Drops(v, k), Concerns(todo[g], k)' PROVE FALSE
    OBVIOUS
  <2>1. k = old /\ Drops(todo[h], k)
    BY <1>15, <1>16
  <2>2. RowsWith(k)' \subseteq RowsWith(k)
    BY <1>19, <2>1
  <2>3. PICK w : w = todo[g]
    OBVIOUS
  <2>4. w = todo'[g]
    BY <1>9, <2>3 DEF TypeOK
  <2>5. Concerns(w, k)'
    BY <2>4 DEF Concerns, Drops
  <2>6. Concerns(todo[g], k)
    BY <2>2, <2>3, <2>5, ConcernsRows
  <2> QED
    BY <2>1, <2>6 DEF KeyInv, Apart
<1>24. k = new => Stores(v, k) /\ \A i \in 1 .. 4 : Mends(v, i, k)'
  <2>1. 4 \in 1 .. 4 /\ \A i \in 1 .. 4 : 4 \in i .. 4
    OBVIOUS
  <2> QED
    BY <1>18, <2>1 DEF Stores, Mends
<1>25. RowsWith(k)' \subseteq RowsWith(k) \/ Stores(v, k)
  BY <1>19, <1>24
<1>26. ASSUME NEW i \in 1 .. Len(v), v[i].do = "remove", v[i].key = k
       PROVE  (IsShared(k)' \/ RowsWith(k)' = {} \/ Mends(v, i + 1, k)') /\ i # 1
  <2>1. i = 2 /\ k = old
    BY <1>14, <1>26
  <2>2. CASE k = new
    BY <1>24, <2>1, <2>2
  <2>3. CASE k # new
    <3>1. RowsWith(k) \ {c} = {}
      BY <1>11, <2>1 DEF GivenUp
    <3>2. c \notin RowsWith(k)'
      BY <1>7, <1>12, <1>13, <2>3
    <3>3. RowsWith(k)' = {}
      BY <1>19, <2>3, <3>1, <3>2
    <3> QED
      BY <2>1, <3>3
  <2> QED
    BY <2>2, <2>3
<1>27. \A i \in 1 .. Len(v) : v[i].do # "enable"
  BY <1>14
<1> QED
  BY <1>9, <1>10, <1>14, <1>21, <1>22, <1>23, <1>25, <1>26, <1>27, KeyReshaped

\* A handler that starts: what it is about to do and what the others still have
\* to do do not cross.
LEMMA KeyStart ==
    ASSUME TypeOK, NEW h \in Requests, todo[h] = <<>>, NEW t, Fit(t), Starts(h),
           todo' = [todo EXCEPT ![h] = t], NEW k \in Keys, KeyInv(k), k \notin Crossed(t),
           RowsWith(k)' \subseteq RowsWith(k) \/ (Stores(t, k) /\ ~Drops(t, k)),
           RowsWith(k) \subseteq RowsWith(k)' \/ Drops(t, k),
           \A i \in 1 .. Len(t) : t[i].do = "remove" /\ t[i].key = k =>
             IsShared(k)' \/ RowsWith(k)' = {} \/ Mends(t, i + 1, k)',
           \A i \in 1 .. Len(t) : t[i].do = "enable" =>
             UNCHANGED row /\ \A c \in RowsWith(k) : t[i].user = Owner[c] => Stores(t, k)
    PROVE  KeyInv(k)'
<1>1. UNCHANGED <<enabled, map, lpc, lrows>>
  BY StartsFit DEF refresherVars
<1>2. t \in Seq(HandlerStep)
  BY DEF Fit
<1>3. \A g \in Requests : ~(Drops(t, k) /\ Concerns(todo[g], k)) /\ ~(Concerns(t, k) /\ Drops(todo[g], k))
  BY DEF Crossed
<1>4. \A i \in 1 .. Len(todo[h]) : todo[h][i].do = "save"
  BY EmptySeq
<1>5. ASSUME NEW g \in Requests \ {h}, Drops(todo[g], k)
      PROVE  ~Concerns(t, k)' /\ RowsWith(k)' = RowsWith(k)
  <2>1. ~Concerns(t, k)
    BY <1>3, <1>5
  <2>2. RowsWith(k)' = RowsWith(k)
    BY <2>1, StoresConcern
  <2> QED
    BY <2>1, <2>2, ConcernsRows
<1>6. ASSUME NEW g \in Requests \ {h}, Drops(t, k), Concerns(todo[g], k)' PROVE FALSE
  <2>1. RowsWith(k)' \subseteq RowsWith(k)
    BY <1>6
  <2>2. PICK w : w = todo[g]
    OBVIOUS
  <2>3. w = todo'[g]
    BY <2>2 DEF TypeOK
  <2>4. Concerns(w, k)'
    BY <1>6, <2>3 DEF Concerns, Drops
  <2>5. Concerns(todo[g], k)
    BY <2>1, <2>2, <2>4, ConcernsRows
  <2> QED
    BY <1>3, <1>6, <2>5
<1>7. ASSUME NEW i \in 1 .. Len(t), t[i].do = "remove" PROVE i # 1
  <2>1. t # <<>>
    BY <1>7, EmptySeq
  <2> QED
    BY <1>7, <2>1 DEF Fit
<1>8. ASSUME NEW i \in 1 .. Len(t), NEW c \in RowsWith(k)', t[i].do = "enable", t[i].user = Owner[c]
      PROVE  Stores(t, k)
  <2>1. RowsWith(k)' = RowsWith(k)
    BY <1>8 DEF RowsWith
  <2> QED
    BY <1>8, <2>1
<1> QED
  BY <1>1, <1>2, <1>4, <1>5, <1>6, <1>7, <1>8, KeyReshaped

\* Each kind of request, as it starts.
LEMMA KeyStarts ==
    ASSUME TypeOK, Fresh, NEW h \in Requests, Starts(h),
           NEW k \in Keys, IsFilled(k), k \notin disturbed', KeyInv(k)
    PROVE  KeyInv(k)'
<1>1. /\ row \in [Channels -> Row \cup {NoRow}] /\ row' \in [Channels -> Row \cup {NoRow}]
      /\ todo[h] = <<>> /\ UNCHANGED enabled
  BY StartsFit DEF TypeOK, Fresh, Starts, AddChannel, DeleteChannel, UpdateChannel,
     UpdateChannelStatus, DisableUser, EnableUser, Start
<1>2. PICK t : Fit(t) /\ todo' = [todo EXCEPT ![h] = t]
  BY StartsFit
<1>3. t \in Seq(HandlerStep) /\ Len(t) \in Nat /\ todo'[h] = t
  BY <1>2, LenProperties DEF Fit, TypeOK
<1>4. ASSUME NEW w, NEW lost, Start(h, w, lost)
      PROVE  t = w /\ k \notin Crossed(t) /\ k \notin lost
  BY <1>3, <1>4 DEF Start, TypeOK
<1>5. /\ RowsWith(k) = {x \in Channels : row[x] = k}
      /\ RowsWith(k)' = {x \in Channels : row'[x] = k}
      /\ k \in Row /\ HasItem(k) /\ k # NoRow /\ KeyOf(k) = k
  <2>1. \A x \in Channels : row'[x] # NoRow => KeyOf(row'[x]) = row'[x]
    BY <1>1, KeyType
  <2> QED
    BY <2>1, RowsOf
<1>6. UNCHANGED row => RowsWith(k)' = RowsWith(k) /\ IsShared(k)' = IsShared(k)
  BY DEF RowsWith, IsShared
<1>7. CASE AddChannel(h)
  <2>1. PICK c \in Channels, r \in Inputs :
          /\ row[c] = NoRow /\ row' = [row EXCEPT ![c] = r]
          /\ Start(h, IF HasItem(r) THEN PutSteps(KeyOf(r), c) ELSE <<>>, {})
    BY <1>7 DEF AddChannel
  <2>2. t = (IF HasItem(r) THEN PutSteps(KeyOf(r), c) ELSE <<>>) /\ k \notin Crossed(t)
    BY <1>4, <2>1
  <2>3. r \in Row /\ KeyOf(r) = r /\ row'[c] = r /\ \A x \in Channels \ {c} : row'[x] = row[x]
    BY <1>1, <2>1, InputsAssumption, KeyType
  <2>4. \A i \in 1 .. Len(t) : t[i].do \in {"refresh", "store"}
    BY <2>2, EmptySeq DEF PutSteps
  <2>5. ~Drops(t, k)
    BY <2>4 DEF Drops
  <2>6. RowsWith(k) \subseteq RowsWith(k)'
    BY <1>5, <2>1, <2>3
  <2>7. ASSUME NEW x \in RowsWith(k)', x \notin RowsWith(k) PROVE Stores(t, k)
    <3>1. x = c /\ r = k
      BY <1>5, <2>3, <2>7
    <3>2. t = PutSteps(k, c)
      BY <1>5, <2>2, <3>1
    <3>3. Len(t) = 2 /\ t[2].do = "store" /\ t[2].key = k /\ 2 \in 1 .. 2
      BY <3>2, PutFit
    <3> QED
      BY <3>3 DEF Stores
  <2> QED
    BY <1>1, <1>2, <2>2, <2>4, <2>5, <2>6, <2>7, KeyStart
<1>8. CASE DeleteChannel(h)
  <2>1. PICK c \in Channels :
          /\ row[c] # NoRow /\ row' = [row EXCEPT ![c] = NoRow]
          /\ Start(h, IF HasItem(row[c]) THEN DropSteps(KeyOf(row[c])) ELSE <<>>,
                   {l \in Keys : l = KeyOf(row[c]) /\ GivenUp(l, c)})
    BY <1>8 DEF DeleteChannel
  <2>2. /\ t = IF HasItem(row[c]) THEN DropSteps(KeyOf(row[c])) ELSE <<>>
        /\ k \notin Crossed(t)
        /\ ~(k = KeyOf(row[c]) /\ GivenUp(k, c))
    BY <1>4, <2>1
  <2>3. /\ row'[c] = NoRow /\ \A x \in Channels \ {c} : row'[x] = row[x]
        /\ row[c] \in Row /\ KeyOf(row[c]) = row[c]
    BY <1>1, <2>1, KeyType
  <2>4. \A i \in 1 .. Len(t) : t[i].do \in {"isShared", "remove"} /\ t[i].key = row[c]
    BY <2>2, <2>3, EmptySeq DEF DropSteps
  <2>5. RowsWith(k)' \subseteq RowsWith(k)
    BY <1>5, <2>3
  <2>6. ASSUME k = row[c] PROVE RowsWith(k)' = {}
    <3>1. RowsWith(k) \ {c} = {}
      BY <2>2, <2>3, <2>6 DEF GivenUp
    <3> QED
      BY <1>5, <2>3, <2>5, <3>1
  <2>7. ASSUME NEW x \in RowsWith(k), x \notin RowsWith(k)' PROVE Drops(t, k)
    <3>1. k = row[c]
      BY <1>5, <2>3, <2>7
    <3>2. t = DropSteps(k)
      BY <1>5, <2>2, <2>3, <3>1
    <3>3. 1 \in 1 .. Len(t) /\ t[1].do = "isShared" /\ t[1].key = k
      BY <3>2 DEF DropSteps
    <3> QED
      BY <3>3 DEF Drops
  <2>8. \A i \in 1 .. Len(t) : t[i].do = "remove" /\ t[i].key = k => RowsWith(k)' = {}
    BY <2>4, <2>6
  <2>9. \A i \in 1 .. Len(t) : t[i].do # "enable"
    BY <2>4
  <2> QED
    BY <1>1, <1>2, <2>2, <2>5, <2>7, <2>8, <2>9, KeyStart
<1>9. CASE UpdateChannel(h) \/ UpdateChannelStatus(h)
  <2>1. UNCHANGED row /\ \E s : s.do = "save" /\ Start(h, <<s>>, {})
    <3>1. CASE UpdateChannel(h)
      <4>1. PICK c \in Channels, input \in Inputs :
              /\ LET old == row[c]
                     new == [input EXCEPT !.secret = IF @ = Blank THEN old.secret ELSE @]
                 IN Start(h, <<[do |-> "save", chan |-> c, old |-> old, new |-> new]>>, {})
              /\ UNCHANGED row
        BY <3>1 DEF UpdateChannel
      <4> QED
        BY <4>1
    <3>2. CASE UpdateChannelStatus(h)
      <4>1. PICK c \in Channels :
              /\ Start(h, <<[do |-> "save", chan |-> c, old |-> row[c], new |-> row[c]]>>, {})
              /\ UNCHANGED row
        BY <3>2 DEF UpdateChannelStatus
      <4> QED
        BY <4>1
    <3> QED
      BY <1>9, <3>1, <3>2
  <2>2. PICK s : s.do = "save" /\ Start(h, <<s>>, {})
    BY <2>1
  <2>3. t = <<s>> /\ k \notin Crossed(t)
    BY <1>4, <2>2
  <2>4. \A i \in 1 .. Len(t) : t[i].do = "save"
    BY <2>2, <2>3
  <2> QED
    BY <1>1, <1>2, <1>6, <2>1, <2>3, <2>4, KeyStart
<1>10. CASE DisableUser(h)
  <2>1. PICK u \in enabled :
          /\ Start(h, RemoveUserSteps(u) \o <<[do |-> "disable", user |-> u]>>, {})
          /\ UNCHANGED row
    BY <1>10 DEF DisableUser
  <2>2. u \in Users
    BY DEF TypeOK
  <2> DEFINE w == RemoveUserSteps(u) \o <<[do |-> "disable", user |-> u]>>
  <2>3. t = w /\ k \notin Crossed(t)
    BY <1>4, <2>1
  <2>4. /\ w[Len(w)].do = "disable" /\ w[Len(w)].user = u
        /\ \A i \in 1 .. Len(w) : w[i].do = "remove" => i < Len(w) /\
             \E c \in Channels : Owner[c] = u /\ row[c] # NoRow /\ w[i].key = KeyOf(row[c])
        /\ \A i \in 1 .. Len(w) : w[i].do \in {"isShared", "remove", "disable"}
    BY <2>2, RemoveUserFit
  <2> HIDE DEF w
  <2>5. ASSUME NEW i \in 1 .. Len(t), t[i].do = "remove", t[i].key = k
        PROVE  IsShared(k)' \/ Mends(t, i + 1, k)'
    <3>1. PICK c \in Channels : Owner[c] = u /\ row[c] # NoRow /\ KeyOf(row[c]) = k
      BY <2>3, <2>4, <2>5
    <3>2. c \in RowsWith(k)
      BY <3>1 DEF RowsWith
    <3>3. ~IsShared(k) => \A x \in RowsWith(k) : Owner[x] = t[Len(t)].user
      BY <2>3, <2>4, <3>1, <3>2, OnlyRow
    <3>4. Len(t) \in (i + 1) .. Len(t)
      BY <1>3, <2>3, <2>4, <2>5
    <3>5. t[Len(t)].do = "disable"
      BY <2>3, <2>4
    <3>6. ~IsShared(k) => Mends(t, i + 1, k)'
      BY <1>6, <2>1, <3>3, <3>4, <3>5 DEF Mends
    <3> QED
      BY <1>6, <2>1, <3>6
  <2>6. \A i \in 1 .. Len(t) : t[i].do # "enable"
    BY <2>3, <2>4
  <2> QED
    BY <1>1, <1>2, <1>6, <2>1, <2>3, <2>5, <2>6, KeyStart
<1>11. CASE EnableUser(h)
  <2>1. PICK u \in Users :
          /\ Start(h, AddUserSteps(u) \o <<[do |-> "enable", user |-> u]>>, {})
          /\ UNCHANGED row
    BY <1>11 DEF EnableUser
  <2> DEFINE w == AddUserSteps(u) \o <<[do |-> "enable", user |-> u]>>
  <2>2. t = w /\ k \notin Crossed(t)
    BY <1>4, <2>1
  <2>3. /\ \A i \in 1 .. Len(w) : w[i].do \in {"refresh", "store", "enable"}
        /\ \A i \in 1 .. Len(w) : w[i].do = "enable" => w[i].user = u
        /\ \A c \in Channels :
             Owner[c] = u /\ row[c] # NoRow /\ HasItem(row[c]) /\ IsFilled(KeyOf(row[c])) =>
               \E i \in 1 .. Len(w) : w[i].do = "store" /\ w[i].key = KeyOf(row[c])
    BY AddUserFit
  <2> HIDE DEF w
  <2>4. ASSUME NEW c \in RowsWith(k), Owner[c] = u PROVE Stores(t, k)
    <3>1. c \in Channels /\ row[c] = k
      BY <1>5
    <3> QED
      BY <1>5, <2>2, <2>3, <2>4, <3>1 DEF Stores
  <2>5. \A i \in 1 .. Len(t) : t[i].do = "enable" => \A c \in RowsWith(k) : t[i].user = Owner[c] => Stores(t, k)
    BY <2>2, <2>3, <2>4
  <2>6. \A i \in 1 .. Len(t) : t[i].do # "remove"
    BY <2>2, <2>3
  <2> QED
    BY <1>1, <1>2, <1>6, <2>1, <2>2, <2>5, <2>6, KeyStart
<1> QED
  BY <1>7, <1>8, <1>9, <1>10, <1>11 DEF Starts

\* The start-up load and the rounds of the refresher lose no item.
LEMMA KeyRefresher ==
    ASSUME TypeOK, Refresher, NEW k \in Keys, KeyInv(k)
    PROVE  KeyInv(k)'
<1>1. UNCHANGED <<row, enabled, todo>>
  BY DEF Refresher, LoadRows, LoadItems, CopyMap, RefreshNext, MergeMap, EndRound, handlerVars
<1>2. /\ RowsWith(k)' = RowsWith(k) /\ IsShared(k)' = IsShared(k) /\ Needed(k)' = Needed(k)
      /\ Mended(k)' = Mended(k)
  BY <1>1 DEF RowsWith, IsShared, Needed, Mended, Mends
<1>3. ASSUME Available(k), ~LoadRows PROVE Available(k)'
  <2>1. CASE LoadItems
    <3> DEFINE chans == {c \in Channels : lrows[c] # NoRow /\ KeyOf(lrows[c]) = k}
    <3>1. chans = {} => map'[k] = map[k]
      BY <2>1, Loaded
    <3>2. chans # {} => \E c \in chans : map'[k] = <<Loader, c>>
      BY <2>1, Loaded
    <3>3. \A c \in chans : <<Loader, c>> # NoItem
      BY NoneAssumption DEF Items
    <3> QED
      BY <1>3, <3>1, <3>2, <3>3 DEF Available
  <2>2. CASE CopyMap
    BY <1>3, <2>2 DEF CopyMap, Available
  <2>3. CASE RefreshNext
    BY <1>3, <2>3 DEF RefreshNext, Available
  <2>4. CASE MergeMap
    BY <1>3, <2>4 DEF MergeMap, EndRound, Available
  <2> QED
    BY <1>3, <2>1, <2>2, <2>3, <2>4 DEF Refresher
\* The load finds all rows that have an item.
<1>4. ASSUME LoadRows, NEW c \in RowsWith(k) PROVE Available(k)'
  <2>1. c \in Channels /\ row[c] = k /\ HasItem(k) /\ k # NoRow /\ KeyOf(k) = k
    BY RowsOf
  <2> QED
    BY <1>4, <2>1 DEF LoadRows, Available
<1>5. ASSUME ~LoadRows PROVE lpc # "read"
  BY <1>5 DEF Refresher, LoadItems, CopyMap, RefreshNext, MergeMap, EndRound
<1>6. Covered(k)'
  <2> SUFFICES ASSUME Needed(k)' PROVE Available(k)' \/ Mended(k)'
    BY DEF Covered
  <2>1. CASE LoadRows
    <3>1. \E c : c \in RowsWith(k)
      BY <1>2 DEF Needed
    <3> QED
      BY <1>4, <2>1, <3>1
  <2>2. CASE ~LoadRows
    BY <1>2, <1>3, <1>5, <2>2 DEF KeyInv, Covered
  <2> QED
    BY <2>1, <2>2
<1>7. Apart(k)'
  BY <1>1 DEF KeyInv, Apart, Drops, Concerns, RowsWith
<1>8. RemovalsOK(k)'
  BY <1>1, <1>2 DEF KeyInv, RemovalsOK, Mends
<1>9. EnablesOK(k)'
  <2> SUFFICES ASSUME NEW h \in Requests, NEW i \in 1 .. Len(todo[h]), NEW c \in RowsWith(k),
                      todo[h][i].do = "enable", todo[h][i].user = Owner[c]
               PROVE  Available(k)' \/ \E g \in Requests : Stores(todo[g], k)
    BY <1>1, <1>2 DEF EnablesOK, Stores
  <2>1. CASE LoadRows
    BY <1>4, <2>1
  <2>2. CASE ~LoadRows
    BY <1>3, <1>5, <2>2 DEF KeyInv, EnablesOK
  <2> QED
    BY <2>1, <2>2
<1> QED
  BY <1>6, <1>7, <1>8, <1>9 DEF KeyInv

\* A handler that starts is new, and one that enables a user removes nothing.
LEMMA HandlerShape ==
    ASSUME TypeOK, TodoOrdered, Fresh, EnablesPlain, NEW h \in Requests, Starts(h) \/ Proceeds(h)
    PROVE  Fresh' /\ EnablesPlain' /\ disturbed \subseteq disturbed'
<1>1. CASE Starts(h)
  <2>1. PICK t : Fit(t) /\ todo' = [todo EXCEPT ![h] = t]
    BY <1>1, StartsFit
  <2>2. todo'[h] = t /\ \A g \in Requests \ {h} : todo'[g] = todo[g]
    BY <2>1 DEF TypeOK
  <2>3. started' = started \cup {h} /\ disturbed \subseteq disturbed'
    BY <1>1 DEF Starts, AddChannel, DeleteChannel, UpdateChannel, UpdateChannelStatus,
       DisableUser, EnableUser, Start
  <2>4. \A w, lost : Start(h, w, lost) => t = w
    BY <2>2 DEF Start, TypeOK
  <2>5. \A i, j \in 1 .. Len(t) : t[i].do = "enable" => t[j].do \in {"refresh", "store", "enable"}
    <3>1. CASE AddChannel(h)
      <4>1. PICK c \in Channels, r \in Inputs :
              Start(h, IF HasItem(r) THEN PutSteps(KeyOf(r), c) ELSE <<>>, {})
        BY <3>1 DEF AddChannel
      <4>2. t = IF HasItem(r) THEN PutSteps(KeyOf(r), c) ELSE <<>>
        BY <2>4, <4>1
      <4> QED
        BY <4>2, EmptySeq DEF PutSteps
    <3>2. CASE DeleteChannel(h)
      <4>1. PICK c \in Channels :
              Start(h, IF HasItem(row[c]) THEN DropSteps(KeyOf(row[c])) ELSE <<>>,
                    {k \in Keys : k = KeyOf(row[c]) /\ GivenUp(k, c)})
        BY <3>2 DEF DeleteChannel
      <4>2. t = IF HasItem(row[c]) THEN DropSteps(KeyOf(row[c])) ELSE <<>>
        BY <2>4, <4>1
      <4> QED
        BY <4>2, EmptySeq DEF DropSteps
    <3>3. CASE UpdateChannel(h)
      <4>1. PICK c, old, new : Start(h, <<[do |-> "save", chan |-> c, old |-> old, new |-> new]>>, {})
        BY <3>3 DEF UpdateChannel
      <4>2. t = <<[do |-> "save", chan |-> c, old |-> old, new |-> new]>>
        BY <2>4, <4>1
      <4> QED
        BY <4>2
    <3>4. CASE UpdateChannelStatus(h)
      <4>1. PICK c, old, new : Start(h, <<[do |-> "save", chan |-> c, old |-> old, new |-> new]>>, {})
        BY <3>4 DEF UpdateChannelStatus
      <4>2. t = <<[do |-> "save", chan |-> c, old |-> old, new |-> new]>>
        BY <2>4, <4>1
      <4> QED
        BY <4>2
    <3>5. CASE DisableUser(h)
      <4>1. PICK u \in enabled : Start(h, RemoveUserSteps(u) \o <<[do |-> "disable", user |-> u]>>, {})
        BY <3>5 DEF DisableUser
      <4>2. t = RemoveUserSteps(u) \o <<[do |-> "disable", user |-> u]>> /\ u \in Users
        BY <2>4, <4>1 DEF TypeOK
      <4> QED
        BY <4>2, RemoveUserFit
    <3>6. CASE EnableUser(h)
      <4>1. PICK u \in Users : Start(h, AddUserSteps(u) \o <<[do |-> "enable", user |-> u]>>, {})
        BY <3>6 DEF EnableUser
      <4>2. t = AddUserSteps(u) \o <<[do |-> "enable", user |-> u]>>
        BY <2>4, <4>1
      <4> QED
        BY <4>2, AddUserFit
    <3> QED
      BY <1>1, <3>1, <3>2, <3>3, <3>4, <3>5, <3>6 DEF Starts
  <2>6. Fresh'
    BY <2>2, <2>3 DEF Fresh
  <2>7. EnablesPlain'
    BY <2>2, <2>5 DEF EnablesPlain
  <2> QED
    BY <2>3, <2>6, <2>7
<1>2. CASE Proceeds(h)
  <2>1. /\ todo[h] # <<>> /\ UNCHANGED started /\ \A g \in Requests \ {h} : todo'[g] = todo[g]
        /\ Head(todo[h]) = todo[h][1]
    BY <1>2, ProceedsFit
  <2>2. Fresh'
    BY <2>1 DEF Fresh
  <2>3. disturbed \subseteq disturbed'
    BY <1>2 DEF Proceeds, SaveChannel, QueryShared, TokenStoreRemoveItem, RefreshItem, StoreItem, SaveUser
  <2>4. PICK v : v = todo'[h]
    OBVIOUS
  <2>5. ASSUME NEW i \in 1 .. Len(v), NEW j \in 1 .. Len(v), v[i].do = "enable"
        PROVE  v[j].do \in {"refresh", "store", "enable"}
    <3>1. CASE SaveChannel(h)
      <4>1. todo[h][1] \in HandlerStep /\ todo[h][1].do = "save"
        BY <1>2, <2>1, <3>1, ProceedsFit DEF SaveChannel, Step
      <4>2. PICK c \in Channels, old \in Row, new \in Row : v = UpdateSteps(new, old, c)
        BY <2>1, <2>4, <3>1, <4>1, StepFields DEF SaveChannel, Then, TypeOK
      <4> QED
        BY <2>5, <4>2, UpdateFit
    <3>2. CASE ~SaveChannel(h)
      <4>1. PICK d \in {1, 2} : Takes(todo[h], v, d)
        BY <1>2, <2>4, <3>2, TakesSteps
      <4>2. /\ v \in Seq(HandlerStep) /\ Len(v) = Len(todo[h]) - d
            /\ \A l \in 1 .. Len(v) : v[l] = todo[h][l + d]
        BY <4>1 DEF Takes
      <4>3. Len(v) \in Nat /\ Len(todo[h]) \in Nat
        BY <4>2, LenProperties DEF TypeOK
      <4>4. /\ i + d \in 1 .. Len(todo[h]) /\ v[i] = todo[h][i + d]
            /\ j + d \in 1 .. Len(todo[h]) /\ v[j] = todo[h][j + d]
        BY <4>2, <4>3
      <4> QED
        BY <2>5, <4>4 DEF EnablesPlain
    <3> QED
      BY <3>1, <3>2
  <2>6. EnablesPlain'
    BY <2>1, <2>4, <2>5 DEF EnablesPlain
  <2> QED
    BY <2>2, <2>3, <2>6
<1> QED
  BY <1>1, <1>2

\* At the start no handler is at work and the refresher has not read the rows.
LEMMA NeedInit == Init => NeedInv
<1> SUFFICES ASSUME Init PROVE NeedInv
  OBVIOUS
<1>1. \A h \in Requests : todo[h] = <<>> /\ 1 .. Len(todo[h]) = {}
  BY EmptySeq DEF Init
<1>2. Fresh /\ EnablesPlain
  BY <1>1 DEF Fresh, EnablesPlain
<1>3. \A k \in Kept : KeyInv(k)
  BY <1>1 DEF Init, KeyInv, Apart, Drops, Covered, RemovalsOK, EnablesOK
<1> QED
  BY <1>2, <1>3 DEF NeedInv

\* No step of a handler or of the refresher loses an item that is needed.
LEMMA NeedNext == TypeOK /\ TodoOrdered /\ NeedInv /\ [Next]_vars => NeedInv'
<1> SUFFICES ASSUME TypeOK, TodoOrdered, NeedInv, [Next]_vars PROVE NeedInv'
  OBVIOUS
<1>1. CASE UNCHANGED vars
  <2>1. UNCHANGED <<row, enabled, map, todo, started, lpc, lrows, disturbed>>
    BY <1>1 DEF vars, handlerVars, refresherVars
  <2>2. Fresh' /\ EnablesPlain'
    BY <2>1 DEF NeedInv, Fresh, EnablesPlain
  <2>3. ASSUME NEW k, KeyInv(k) PROVE KeyInv(k)'
    <3>1. Apart(k)'
      BY <2>1, <2>3 DEF KeyInv, Apart, Drops, Concerns, RowsWith
    <3>2. Covered(k)'
      BY <2>1, <2>3 DEF KeyInv, Covered, Needed, Available, Mended, Mends, RowsWith
    <3>3. RemovalsOK(k)'
      BY <2>1, <2>3 DEF KeyInv, RemovalsOK, IsShared, Mends, RowsWith
    <3>4. EnablesOK(k)'
      BY <2>1, <2>3 DEF KeyInv, EnablesOK, Available, Stores, RowsWith
    <3> QED
      BY <3>1, <3>2, <3>3, <3>4 DEF KeyInv
  <2> QED
    BY <2>1, <2>2, <2>3 DEF NeedInv, Kept
<1>2. CASE Refresher
  <2>1. UNCHANGED <<todo, started, disturbed>>
    BY <1>2 DEF Refresher, LoadRows, LoadItems, CopyMap, RefreshNext, MergeMap, EndRound, handlerVars
  <2>2. Fresh' /\ EnablesPlain'
    BY <2>1 DEF NeedInv, Fresh, EnablesPlain
  <2>3. \A k \in Kept : KeyInv(k)'
    BY <1>2, KeyRefresher DEF NeedInv, Kept
  <2> QED
    BY <2>1, <2>2, <2>3 DEF NeedInv, Kept
<1>3. ASSUME NEW h \in Requests, Handler(h) PROVE NeedInv'
  <2>1. Starts(h) \/ Proceeds(h)
    BY <1>3 DEF Handler, Starts, Proceeds
  <2>2. Fresh' /\ EnablesPlain' /\ disturbed \subseteq disturbed'
    BY <2>1, HandlerShape DEF NeedInv
  <2>3. ASSUME NEW k \in Kept' PROVE KeyInv(k)'
    <3>1. k \in Keys /\ IsFilled(k) /\ k \notin disturbed' /\ KeyInv(k)
      BY <2>2, <2>3 DEF NeedInv, Kept
    <3> QED
      BY <2>1, <3>1, KeyStarts, KeySave, KeyProceeds DEF NeedInv
  <2> QED
    BY <2>2, <2>3 DEF NeedInv
<1> QED
  BY <1>1, <1>2, <1>3 DEF Next

\* TokenStoreGetToken finds an item for every channel of an enabled user once
\* the handlers are done, for any number of requests at the same time: no order
\* of additions, updates, deletions and changes of users, beside the start-up
\* load and the rounds of the refresher, loses an item that is needed, but for
\* the credentials in `disturbed`, each of which met one of the named cases.
THEOREM NeededAlwaysPresent == Spec => []NeededPresent
<1>1. NeedInv => NeededPresent
  <2> SUFFICES ASSUME NeedInv, Settled, NEW k \in Keys \ disturbed, Needed(k) PROVE map[k] # NoItem
    BY DEF NeededPresent
  <2>1. ~Mended(k)
    BY EmptySeq DEF Settled, Active, Mended, Mends
  <2>2. k \in Kept
    BY DEF Needed, Kept
  <2>3. Available(k)
    BY <2>1, <2>2 DEF Settled, NeedInv, KeyInv, Covered
  <2> QED
    BY <2>3 DEF Settled, Available
<1> QED
  BY <1>1, TypeCorrect, NeedInit, NeedNext, PTL DEF Spec
=============================================================================
