------------------------- MODULE MessageListProofs -------------------------
(***************************************************************************)
(* Proofs about MessageList: the rows of the list are different messages,  *)
(* a deleted message is not brought back by a late load, the list does not *)
(* stay loading, and the page has one stream, for every size of a page,    *)
(* every number of messages and every number of requests.                  *)
(*                                                                         *)
(* The second part is about the server's end of that stream                *)
(* (MessageStream): nobody sends on a closed channel, whoever opens and    *)
(* leaves the page.                                                        *)
(***************************************************************************)
EXTENDS MessageList, MessageStream, Integers, FiniteSetTheorems, TLAPS

----------------------------------------------------------------------------
(* Sequences of different members. *)

Different(s) == \A i, j \in DOMAIN s : i # j => s[i] # s[j]

\* How many members of a set are smaller tells its members apart.
LEMMA RankInjective ==
  ASSUME NEW S \in SUBSET Nat, IsFiniteSet(S), NEW x \in S, NEW z \in S, x < z
  PROVE  Cardinality({y \in S : y < x}) < Cardinality({y \in S : y < z})
  <1> DEFINE A == {y \in S : y < x}
  <1> DEFINE B == {y \in S : y < z}
  <1> S \subseteq Int
    OBVIOUS
  <1>a. \A y \in S : y < x => y < z
    OBVIOUS
  <1>b. ~(x < x)
    OBVIOUS
  <1>1. A \in SUBSET B /\ x \in B /\ x \notin A
    BY <1>a, <1>b
  <1>2. B \in SUBSET S
    OBVIOUS
  <1> HIDE DEF A, B
  <1>3. IsFiniteSet(B)
    BY <1>2, FS_Subset
  <1>4. /\ IsFiniteSet(A) /\ Cardinality(A) <= Cardinality(B)
        /\ Cardinality(B) = Cardinality(A) => B = A
    BY <1>1, <1>3, FS_Subset
  <1>5. Cardinality(A) \in Nat /\ Cardinality(B) \in Nat
    BY <1>3, <1>4, FS_CardinalityType
  <1>6. Cardinality(A) # Cardinality(B)
    BY <1>1, <1>4
  <1>7. Cardinality(A) < Cardinality(B)
    BY <1>4, <1>5, <1>6
  <1> QED
    BY <1>7 DEF A, B

\* The members of a finite set are fewer or as many; those before a member fewer.
LEMMA RankRange ==
  ASSUME NEW S \in SUBSET Nat, IsFiniteSet(S), NEW x \in S
  PROVE  Cardinality({y \in S : y < x}) \in 0 .. (Cardinality(S) - 1)
  <1> DEFINE A == {y \in S : y < x}
  <1>1. A \in SUBSET S /\ x \in S /\ x \notin A
    OBVIOUS
  <1> HIDE DEF A
  <1>2. /\ IsFiniteSet(A) /\ Cardinality(A) <= Cardinality(S)
        /\ Cardinality(S) = Cardinality(A) => S = A
    BY <1>1, FS_Subset
  <1>3. Cardinality(A) \in Nat /\ Cardinality(S) \in Nat
    BY <1>2, FS_CardinalityType
  <1>4. Cardinality(A) # Cardinality(S)
    BY <1>1, <1>2
  <1>5. Cardinality(A) \in 0 .. (Cardinality(S) - 1)
    BY <1>2, <1>3, <1>4
  <1> QED
    BY <1>5 DEF A

\* Ascending has every member of the set in one place, and nothing else.
LEMMA AscendingIs ==
  ASSUME NEW S \in SUBSET Nat, IsFiniteSet(S)
  PROVE  /\ Ascending(S) \in Seq(S)
         /\ Len(Ascending(S)) = Cardinality(S)
         /\ Different(Ascending(S))
         /\ \A x \in S : \E i \in DOMAIN Ascending(S) : Ascending(S)[i] = x
  <1> DEFINE n == Cardinality(S)
  <1> DEFINE Rank(x) == Cardinality({y \in S : y < x})
  <1> DEFINE f == [x \in S |-> Rank(x)]
  <1> DEFINE g == Ascending(S)
  <1>1. n \in Nat
    BY FS_CardinalityType
  <1>2. \A x \in S : Rank(x) \in 0 .. (n - 1)
    BY RankRange
  <1>3. \A x, z \in S : x < z => Rank(x) < Rank(z)
    BY RankInjective
  <1>4. g = [i \in 1 .. n |-> CHOOSE x \in S : Rank(x) = i - 1]
    BY DEF Ascending
  <1> HIDE DEF Rank, n, g
  <1>5. f \in [S -> 0 .. (n - 1)]
    BY <1>2
  <1>6. \A a, b \in S : f[a] = f[b] => a = b
    <2> SUFFICES ASSUME NEW a \in S, NEW b \in S, f[a] = f[b], a # b
                 PROVE  FALSE
      OBVIOUS
    <2>1. Rank(a) = Rank(b) /\ Rank(a) \in Int
      BY <1>2, <1>1
    <2>2. a < b \/ b < a
      OBVIOUS
    <2> QED
      BY <2>1, <2>2, <1>3
  <1>7. f \in Injection(S, 0 .. (n - 1))
    BY <1>5, <1>6, Zenon DEF Injection, IsInjective
  <1>8. IsFiniteSet(0 .. (n - 1)) /\ Cardinality(0 .. (n - 1)) = n
    <2>1. 0 \in Int /\ n - 1 \in Int
      BY <1>1
    <2>2. IsFiniteSet(0 .. (n - 1))
          /\ Cardinality(0 .. (n - 1)) = IF 0 > n - 1 THEN 0 ELSE (n - 1) - 0 + 1
      BY <2>1, FS_Interval
    <2> QED
      BY <2>2, <1>1
  <1>9. f \in Surjection(S, 0 .. (n - 1))
    <2>1. Cardinality(S) = Cardinality(0 .. (n - 1))
      BY <1>8 DEF n
    <2> HIDE DEF f
    <2> QED
      BY <2>1, <1>7, <1>8, FS_Injection
  <1>10. \A i \in 1 .. n : g[i] \in S /\ Rank(g[i]) = i - 1
    <2> TAKE i \in 1 .. n
    <2>1. i - 1 \in 0 .. (n - 1)
      BY <1>1
    <2>2. \E x \in S : f[x] = i - 1
      BY <1>9, <2>1 DEF Surjection
    <2>3. \E x \in S : Rank(x) = i - 1
      BY <2>2
    <2>4. g[i] = CHOOSE x \in S : Rank(x) = i - 1
      BY <1>4
    <2> QED
      BY <2>3, <2>4
  <1>11. g \in Seq(S) /\ Len(g) = n /\ DOMAIN g = 1 .. n
    BY <1>1, <1>4, <1>10
  <1>12. Different(g)
    <2> SUFFICES ASSUME NEW i \in 1 .. n, NEW j \in 1 .. n, i # j, g[i] = g[j]
                 PROVE  FALSE
      BY <1>11 DEF Different
    <2>1. i - 1 = j - 1
      BY <1>10
    <2> QED
      BY <2>1, <1>1
  <1>13. \A x \in S : \E i \in DOMAIN g : g[i] = x
    <2> TAKE x \in S
    <2>1. Rank(x) \in 0 .. (n - 1)
      BY <1>2
    <2>2. Rank(x) + 1 \in 1 .. n /\ (Rank(x) + 1) - 1 = Rank(x)
      BY <2>1, <1>1
    <2>3. g[Rank(x) + 1] \in S /\ Rank(g[Rank(x) + 1]) = Rank(x)
      BY <2>2, <1>10
    <2>4. f[g[Rank(x) + 1]] = f[x]
      BY <2>3
    <2>5. g[Rank(x) + 1] = x
      BY <2>3, <2>4, <1>6
    <2> QED
      BY <2>2, <2>5, <1>11
  <1> QED
    BY <1>11, <1>12, <1>13 DEF g, n

\* A sequence backwards: the same rows, as different as before.
LEMMA ReverseIs ==
  ASSUME NEW S, NEW s \in Seq(S)
  PROVE  /\ Reverse(s) \in Seq(S) /\ Len(Reverse(s)) = Len(s)
         /\ ToSet(Reverse(s)) = ToSet(s)
         /\ Different(s) => Different(Reverse(s))
  <1> DEFINE r == Reverse(s)
  <1>1. Len(s) \in Nat /\ DOMAIN s = 1 .. Len(s)
    OBVIOUS
  <1>2. r = [i \in 1 .. Len(s) |-> s[(Len(s) - i) + 1]]
    BY DEF Reverse
  <1>3. \A i \in 1 .. Len(s) : (Len(s) - i) + 1 \in 1 .. Len(s) /\ (Len(s) - ((Len(s) - i) + 1)) + 1 = i
    BY <1>1
  <1> HIDE DEF r
  <1>4. r \in Seq(S) /\ Len(r) = Len(s) /\ DOMAIN r = 1 .. Len(s)
    BY <1>1, <1>2, <1>3
  <1>5. ToSet(r) \subseteq ToSet(s)
    BY <1>1, <1>2, <1>3, <1>4 DEF ToSet
  <1>6. ToSet(s) \subseteq ToSet(r)
    <2> SUFFICES ASSUME NEW i \in 1 .. Len(s) PROVE s[i] \in ToSet(r)
      BY <1>1 DEF ToSet
    <2>1. r[(Len(s) - i) + 1] = s[i]
      BY <1>2, <1>3
    <2> QED
      BY <2>1, <1>3, <1>4 DEF ToSet
  <1>7. Different(s) => Different(r)
    <2> SUFFICES ASSUME Different(s), NEW i \in 1 .. Len(s), NEW j \in 1 .. Len(s), i # j
                 PROVE  r[i] # r[j]
      BY <1>4 DEF Different
    <2>1. (Len(s) - i) + 1 # (Len(s) - j) + 1
      BY <1>1
    <2> QED
      BY <2>1, <1>1, <1>2, <1>3 DEF Different
  <1> QED
    BY <1>4, <1>5, <1>6, <1>7 DEF r

\* The server's order: every stored message once.
LEMMA NewestFirstIs ==
  ASSUME NEW S \in SUBSET Nat, IsFiniteSet(S)
  PROVE  /\ NewestFirst(S) \in Seq(S)
         /\ Len(NewestFirst(S)) = Cardinality(S)
         /\ Different(NewestFirst(S))
  <1>1. /\ Ascending(S) \in Seq(S) /\ Len(Ascending(S)) = Cardinality(S)
        /\ Different(Ascending(S))
    BY AscendingIs
  <1> QED
    BY <1>1, ReverseIs DEF NewestFirst

\* A page of it: stored messages, each once.
LEMMA PageIs ==
  ASSUME NEW S \in SUBSET Nat, IsFiniteSet(S), NEW pageNo \in Nat
  PROVE  PageOf(S, pageNo) \in Seq(S) /\ Different(PageOf(S, pageNo))
  <1> DEFINE s == NewestFirst(S)
  <1> DEFINE m == pageNo * ItemsPerPage + 1
  <1> DEFINE n == IF (pageNo + 1) * ItemsPerPage < Cardinality(S) THEN (pageNo + 1) * ItemsPerPage ELSE Cardinality(S)
  <1>1. s \in Seq(S) /\ Len(s) = Cardinality(S) /\ Different(s)
    BY NewestFirstIs
  <1>2. Cardinality(S) \in Nat
    BY FS_CardinalityType
  <1>3. ItemsPerPage \in Nat
    BY BoundsAssumption
  <1>4. pageNo * ItemsPerPage \in Nat /\ (pageNo + 1) * ItemsPerPage \in Nat
    BY <1>3
  <1>5. m \in Nat /\ 1 <= m /\ n \in Nat /\ n <= Len(s)
    BY <1>1, <1>2, <1>4
  <1>6. PageOf(S, pageNo) = SubSeq(s, m, n)
    BY DEF PageOf
  <1> HIDE DEF s, m, n
  <1>7. \A k \in 1 .. Len(SubSeq(s, m, n)) : k + m - 1 \in 1 .. Len(s) /\ SubSeq(s, m, n)[k] = s[k + m - 1]
    BY <1>1, <1>5
  <1>8. SubSeq(s, m, n) \in Seq(S)
    BY <1>1, <1>5
  <1>9. Different(SubSeq(s, m, n))
    <2> SUFFICES ASSUME NEW i \in 1 .. Len(SubSeq(s, m, n)), NEW j \in 1 .. Len(SubSeq(s, m, n)), i # j
                 PROVE  SubSeq(s, m, n)[i] # SubSeq(s, m, n)[j]
      BY <1>8 DEF Different
    <2>1. i \in Int /\ j \in Int
      BY <1>8
    <2>2. i + m - 1 # j + m - 1
      BY <2>1, <1>5
    <2>3. i + m - 1 \in DOMAIN s /\ j + m - 1 \in DOMAIN s
      <3>1. DOMAIN s = 1 .. Len(s)
        BY <1>1
      <3> QED
        BY <3>1, <1>7
    <2>4. s[i + m - 1] # s[j + m - 1]
      BY <2>2, <2>3, <1>1 DEF Different
    <2> QED
      BY <2>4, <1>7
  <1> QED
    BY <1>6, <1>8, <1>9
\* The positions of a sequence that are kept are a finite set of numbers.
LEMMA KeptFinite ==
  ASSUME NEW S, NEW s \in Seq(S), NEW P \in SUBSET DOMAIN s
  PROVE  P \in SUBSET Nat /\ IsFiniteSet(P)
  <1>1. DOMAIN s = 1 .. Len(s) /\ Len(s) \in Nat
    OBVIOUS
  <1>2. 1 \in Int /\ Len(s) \in Int
    BY <1>1
  <1>3. IsFiniteSet(1 .. Len(s))
    BY <1>2, FS_Interval
  <1>4. P \in SUBSET (1 .. Len(s))
    BY <1>1
  <1> QED
    BY <1>1, <1>3, <1>4, FS_Subset

\* Leaving out rows leaves the others, once each if they were.
LEMMA WithoutIs ==
  ASSUME NEW S, NEW s \in Seq(S), NEW ids
  PROVE  /\ Without(s, ids) \in Seq(S)
         /\ ToSet(Without(s, ids)) = ToSet(s) \ ids
         /\ Different(s) => Different(Without(s, ids))
  <1> DEFINE P == {i \in DOMAIN s : s[i] \notin ids}
  <1> DEFINE k == Ascending(P)
  <1> DEFINE r == Without(s, ids)
  <1>1. P \in SUBSET DOMAIN s /\ \A i \in DOMAIN s : i \in P <=> s[i] \notin ids
    OBVIOUS
  <1>2. r = [i \in DOMAIN k |-> s[k[i]]]
    BY DEF Without
  <1> HIDE DEF P, r
  <1>3. P \in SUBSET Nat /\ IsFiniteSet(P)
    BY <1>1, KeptFinite
  <1>4. /\ k \in Seq(P) /\ Different(k)
        /\ \A x \in P : \E i \in DOMAIN k : k[i] = x
    BY <1>3, AscendingIs
  <1> HIDE DEF k
  <1>5. \A i \in DOMAIN k : k[i] \in P
    BY <1>4
  <1>6. DOMAIN k = 1 .. Len(k) /\ Len(k) \in Nat
    BY <1>4
  <1>7. \A i \in DOMAIN s : s[i] \in S
    OBVIOUS
  <1>8. \A i \in 1 .. Len(k) : s[k[i]] \in S
    BY <1>1, <1>5, <1>6, <1>7
  <1>9. r \in Seq(S) /\ DOMAIN r = DOMAIN k
    BY <1>2, <1>6, <1>8
  <1>10. ToSet(r) \subseteq ToSet(s) \ ids
    BY <1>1, <1>2, <1>5, <1>9 DEF ToSet
  <1>11. ToSet(s) \ ids \subseteq ToSet(r)
    <2> SUFFICES ASSUME NEW i \in DOMAIN s, s[i] \notin ids PROVE s[i] \in ToSet(r)
      BY DEF ToSet
    <2>1. PICK j \in DOMAIN k : k[j] = i
      BY <1>1, <1>4
    <2>2. r[j] = s[i] /\ j \in DOMAIN r
      BY <2>1, <1>2, <1>9
    <2> QED
      BY <2>2 DEF ToSet
  <1>12. Different(s) => Different(r)
    BY <1>1, <1>2, <1>4, <1>5, <1>9 DEF Different
  <1> QED
    BY <1>9, <1>10, <1>11, <1>12 DEF r

\* Rows behind rows.
LEMMA ConcatIs ==
  ASSUME NEW S, NEW s \in Seq(S), NEW t \in Seq(S)
  PROVE  /\ s \o t \in Seq(S)
         /\ ToSet(s \o t) = ToSet(s) \cup ToSet(t)
         /\ Different(s) /\ Different(t) /\ ToSet(s) \cap ToSet(t) = {} => Different(s \o t)
  <1> DEFINE c == s \o t
  <1>1. c \in Seq(S) /\ Len(c) = Len(s) + Len(t) /\ Len(s) \in Nat /\ Len(t) \in Nat
    OBVIOUS
  <1>2. DOMAIN c = 1 .. (Len(s) + Len(t)) /\ DOMAIN s = 1 .. Len(s) /\ DOMAIN t = 1 .. Len(t)
    BY <1>1
  <1>3. \A i \in 1 .. Len(s) : i \in DOMAIN c /\ c[i] = s[i]
    BY <1>1, <1>2
  <1>4. \A i \in 1 .. Len(t) : Len(s) + i \in DOMAIN c /\ c[Len(s) + i] = t[i]
    BY <1>1, <1>2
  <1> HIDE DEF c
  <1>5. \A i \in DOMAIN c :
          \/ i \in 1 .. Len(s) /\ c[i] = s[i]
          \/ i - Len(s) \in 1 .. Len(t) /\ c[i] = t[i - Len(s)]
    <2> TAKE i \in DOMAIN c
    <2>1. i \in 1 .. Len(s) \/ (i - Len(s) \in 1 .. Len(t) /\ i = Len(s) + (i - Len(s)))
      BY <1>1, <1>2
    <2> QED
      BY <2>1, <1>3, <1>4
  <1>6. ToSet(c) \subseteq ToSet(s) \cup ToSet(t)
    BY <1>2, <1>5 DEF ToSet
  <1>7. ToSet(s) \cup ToSet(t) \subseteq ToSet(c)
    BY <1>2, <1>3, <1>4 DEF ToSet
  <1>8. ASSUME Different(s), Different(t), ToSet(s) \cap ToSet(t) = {}
        PROVE  Different(c)
    <2> SUFFICES ASSUME NEW i \in DOMAIN c, NEW j \in DOMAIN c, i # j, c[i] = c[j]
                 PROVE  FALSE
      BY DEF Different
    <2>1. CASE i \in 1 .. Len(s) /\ c[i] = s[i] /\ j \in 1 .. Len(s) /\ c[j] = s[j]
      BY <2>1, <1>2, <1>8 DEF Different
    <2>2. CASE /\ i - Len(s) \in 1 .. Len(t) /\ c[i] = t[i - Len(s)]
               /\ j - Len(s) \in 1 .. Len(t) /\ c[j] = t[j - Len(s)]
      <3>1. i - Len(s) # j - Len(s)
        BY <1>1, <1>2
      <3> QED
        BY <2>2, <3>1, <1>2, <1>8 DEF Different
    <2>3. CASE i \in 1 .. Len(s) /\ c[i] = s[i] /\ j - Len(s) \in 1 .. Len(t) /\ c[j] = t[j - Len(s)]
      BY <2>3, <1>2, <1>8 DEF ToSet
    <2>4. CASE j \in 1 .. Len(s) /\ c[j] = s[j] /\ i - Len(s) \in 1 .. Len(t) /\ c[i] = t[i - Len(s)]
      BY <2>4, <1>2, <1>8 DEF ToSet
    <2> QED
      BY <2>1, <2>2, <2>3, <2>4, <1>5
  <1> QED
    BY <1>1, <1>6, <1>7, <1>8 DEF c

\* Another order of the same rows.
LEMMA RearrangedIs ==
  ASSUME NEW S, NEW s \in Seq(S), NEW r \in Rearranged(s)
  PROVE  /\ r \in Seq(S)
         /\ ToSet(r) = ToSet(s)
         /\ Different(s) => Different(r)
  <1>1. PICK p \in Bijection(DOMAIN s, DOMAIN s) : r = [i \in DOMAIN s |-> s[p[i]]]
    BY DEF Rearranged
  <1>2. /\ p \in [DOMAIN s -> DOMAIN s]
        /\ \A i, j \in DOMAIN s : p[i] = p[j] => i = j
        /\ \A t \in DOMAIN s : \E i \in DOMAIN s : p[i] = t
    BY Zenon DEF Bijection, Injection, Surjection, IsInjective
  <1>3. DOMAIN s = 1 .. Len(s) /\ Len(s) \in Nat /\ \A i \in DOMAIN s : s[i] \in S
    OBVIOUS
  <1>4. \A i \in 1 .. Len(s) : r[i] \in S
    BY <1>1, <1>2, <1>3
  <1>5. r \in Seq(S) /\ DOMAIN r = DOMAIN s
    BY <1>1, <1>3, <1>4
  <1>6. ToSet(r) = ToSet(s)
    BY <1>1, <1>2, <1>5 DEF ToSet
  <1>7. Different(s) => Different(r)
    BY <1>1, <1>2, <1>5 DEF Different
  <1> QED
    BY <1>5, <1>6, <1>7

----------------------------------------------------------------------------
(* The inductive invariant. *)

\* What shows that the list is loading, or searching, has a request to wait for.
Awaited ==
    /\ loading => \E q \in requests :
                      \/ q.kind \in Loads /\ q.seq = loadSeq
                      \/ q.kind \in {"reload", "view", "delete"}
    /\ searching => \E q \in requests : q.kind = "search"

\* The list, and what an answer will make of it, has no message twice.
RowsDiffer == Different(messages) /\ \A q \in requests : Different(q.answer.rows)

\* What a request under way knows of deletions: a deletion that succeeded is
\* one of a message that was stored; an answer that will be applied as the
\* newest load was given after every deletion the page was told of.
OfRequest(q) ==
    /\ q.kind = "delete" /\ q.answer.ok => q.arg \in 1 .. lastId /\ q.arg \notin stored
    /\ q.kind \in Loads => q.seq <= loadSeq
    /\ q.kind \in Loads /\ q.seq = loadSeq => confirmed \cap ToSet(q.answer.rows) = {}

\* A message that was deleted is not stored again.
DeletedGone ==
    /\ confirmed \cap stored = {}
    /\ \A q \in requests : OfRequest(q)
    /\ DeletedStayAway

ListInv == TypeOK /\ OneStream /\ Awaited /\ RowsDiffer /\ DeletedGone

\* What a request is when it is sent.
LEMMA NewRequest ==
  ASSUME TypeOK, NEW kind \in Kinds, NEW arg \in Nat, NEW seq \in Nat, NEW then \in Nat
  PROVE  /\ Request(kind, arg, seq, then) \in Requests
         /\ Request(kind, arg, seq, then).kind = kind
         /\ Request(kind, arg, seq, then).arg = arg
         /\ Request(kind, arg, seq, then).seq = seq
         /\ Request(kind, arg, seq, then).then = then
         /\ ~Request(kind, arg, seq, then).answer.done
         /\ ~Request(kind, arg, seq, then).answer.ok
         /\ Request(kind, arg, seq, then).answer.rows = << >>
  <1>1. sent + 1 \in Nat
    BY BoundsAssumption DEF TypeOK
  <1>2. << >> \in Seq(Ids)
    OBVIOUS
  <1> QED
    BY <1>1, <1>2 DEF Request, Requests, NoAnswer

\* An answer changes nothing else of the request.
LEMMA AnswerKeeps ==
  ASSUME NEW q \in Requests, NEW a \in [done : BOOLEAN, ok : BOOLEAN, rows : Seq(Ids)]
  PROVE  /\ [q EXCEPT !.answer = a] \in Requests
         /\ [q EXCEPT !.answer = a].kind = q.kind
         /\ [q EXCEPT !.answer = a].arg = q.arg
         /\ [q EXCEPT !.answer = a].seq = q.seq
         /\ [q EXCEPT !.answer = a].answer = a
  BY DEF Requests

\* A sequence over a set is one over a greater set, and its rows are members.
LEMMA RowsAre ==
  ASSUME NEW A, NEW B, NEW s \in Seq(A), A \subseteq B
  PROVE  s \in Seq(B) /\ ToSet(s) \subseteq A
  BY DEF ToSet

\* What the server can answer: stored messages, each once.
LEMMA Served ==
  ASSUME TypeOK, NEW pageNo \in Nat
  PROVE  /\ PageOf(stored, pageNo) \in Seq(Ids) /\ ToSet(PageOf(stored, pageNo)) \subseteq stored
         /\ Different(PageOf(stored, pageNo))
         /\ NewestFirst(stored \cap Matches) \in Seq(Ids)
         /\ Different(NewestFirst(stored \cap Matches))
  <1>1. stored \subseteq Ids /\ Ids \subseteq Nat /\ IsFiniteSet(Ids)
    <2>1. 1 \in Int /\ MaxId \in Int
      BY BoundsAssumption
    <2>2. IsFiniteSet(1 .. MaxId)
      BY <2>1, FS_Interval
    <2> QED
      BY <2>2, BoundsAssumption DEF TypeOK, Ids
  <1>2. IsFiniteSet(stored) /\ IsFiniteSet(stored \cap Matches)
    <2>1. stored \in SUBSET Ids /\ stored \cap Matches \in SUBSET Ids
      BY <1>1
    <2> QED
      BY <1>1, <2>1, FS_Subset
  <1>3. PageOf(stored, pageNo) \in Seq(stored) /\ Different(PageOf(stored, pageNo))
    <2>1. stored \in SUBSET Nat
      BY <1>1
    <2> QED
      BY <1>2, <2>1, PageIs
  <1>4. NewestFirst(stored \cap Matches) \in Seq(stored \cap Matches)
        /\ Different(NewestFirst(stored \cap Matches))
    <2>1. stored \cap Matches \in SUBSET Nat
      BY <1>1
    <2> QED
      BY <1>2, <2>1, NewestFirstIs
  <1>5. stored \cap Matches \subseteq Ids
    BY <1>1
  <1> QED
    BY <1>1, <1>3, <1>4, <1>5, RowsAre

\* The answers are answers.
LEMMA AnswersAre ==
  /\ \A rows \in Seq(Ids) :
        /\ Answer(rows) \in [done : BOOLEAN, ok : BOOLEAN, rows : Seq(Ids)]
        /\ Answer(rows).rows = rows /\ Answer(rows).ok /\ Answer(rows).done
  /\ Failure \in [done : BOOLEAN, ok : BOOLEAN, rows : Seq(Ids)]
  /\ Failure.rows = << >> /\ ~Failure.ok /\ Failure.done
  BY DEF Answer, Failure

\* The steps that answer a request, and what they do.
Answering(q, a) ==
    /\ a \in [done : BOOLEAN, ok : BOOLEAN, rows : Seq(Ids)]
    /\ Answered(q, a)
    /\ Different(a.rows)
    /\ q.kind \in Loads => ToSet(a.rows) \subseteq stored
    /\ q.kind = "delete" /\ a.ok => q.arg \in stored /\ q.arg \notin stored'
    /\ stored' \subseteq stored
    /\ rateLimited' \in BOOLEAN
    /\ UNCHANGED <<lastId, events, messages, loadSeq, loading, searching, activePage, sent, stream, history>>

\* Serve and FailRequest give an answer, and only a deletion changes the table.
LEMMA AnsweringIs ==
  ASSUME TypeOK, NEW q \in requests, Serve(q) \/ FailRequest(q)
  PROVE  \E a : Answering(q, a)
  <1>1. q \in Requests /\ q.kind \in Kinds /\ q.arg \in Nat
    BY DEF TypeOK, Requests
  <1>2. Different(<< >>) /\ ToSet(<< >>) \subseteq stored
    BY DEF Different, ToSet
  <1>3. CASE FailRequest(q)
    <2>1. rateLimited' \in BOOLEAN /\ stored' \subseteq stored
      BY <1>3 DEF FailRequest, TypeOK
    <2>2. Answering(q, Failure)
      BY <1>2, <1>3, <2>1, AnswersAre DEF FailRequest, Answering
    <2> QED
      BY <2>2
  <1>4. CASE Serve(q)
    <2>1. /\ UNCHANGED <<lastId, events, messages, loadSeq, loading, searching, activePage, sent, stream, history>>
          /\ rateLimited' \in BOOLEAN
      BY <1>4 DEF Serve, TypeOK
    <2>2. CASE q.kind \in Loads /\ Answered(q, Answer(PageOf(stored, q.arg))) /\ UNCHANGED stored
      <3> DEFINE rows == PageOf(stored, q.arg)
      <3>1. rows \in Seq(Ids) /\ Different(rows) /\ ToSet(rows) \subseteq stored
        BY <1>1, Served
      <3> HIDE DEF rows
      <3>2. Answering(q, Answer(rows))
        BY <2>1, <2>2, <3>1, AnswersAre DEF Answering, rows, Loads
      <3> QED
        BY <3>2
    <2>3. CASE q.kind = "search" /\ Answered(q, Answer(NewestFirst(stored \cap Matches))) /\ UNCHANGED stored
      <3> DEFINE rows == NewestFirst(stored \cap Matches)
      <3>1. rows \in Seq(Ids) /\ Different(rows)
        BY <1>1, Served
      <3> HIDE DEF rows
      <3>2. Answering(q, Answer(rows))
        BY <2>1, <2>3, <3>1, AnswersAre DEF Answering, rows, Loads
      <3> QED
        BY <3>2
    <2>4. CASE q.kind \in {"view", "delete"} /\ q.arg \notin stored /\ Answered(q, Failure) /\ UNCHANGED stored
      <3>1. Answering(q, Failure)
        BY <1>2, <2>1, <2>4, AnswersAre DEF Answering
      <3> QED
        BY <3>1
    <2>5. CASE q.kind \in {"view", "delete"} /\ q.arg \in stored /\ Answered(q, Answer(<<q.arg>>))
               /\ (q.kind = "view" => UNCHANGED stored) /\ (q.kind = "delete" => stored' = stored \ {q.arg})
      <3> DEFINE rows == <<q.arg>>
      <3>a. q.arg \in Ids
        <4>1. stored \subseteq Ids
          BY BoundsAssumption DEF TypeOK, Ids
        <4> QED
          BY <2>5, <4>1
      <3>1. rows \in Seq(Ids) /\ Different(rows)
        BY <3>a DEF Different
      <3> HIDE DEF rows
      <3>2. Answering(q, Answer(rows))
        BY <2>1, <2>5, <3>1, AnswersAre DEF Answering, rows, Loads
      <3> QED
        BY <3>2
    <2> QED
      BY <1>4, <2>2, <2>3, <2>4, <2>5 DEF Serve
  <1> QED
    BY <1>3, <1>4

\* The steps that send a request, or none, for the user or the timer.
Sending(m) ==
    /\ m \in Requests
    /\ ~m.answer.ok /\ m.answer.rows = << >>
    /\ requests' = requests \cup {m}
    /\ sent' = sent + 1 /\ sent < MaxRequests
    /\ \/ m.kind = "load" /\ m.seq = loadSeq + 1 /\ loadSeq' = loadSeq + 1 /\ loading' /\ UNCHANGED searching
       \/ m.kind = "search" /\ searching' /\ UNCHANGED <<loadSeq, loading>>
       \/ m.kind \in {"view", "delete"} /\ loading' /\ UNCHANGED <<loadSeq, searching>>
    /\ loading' \in BOOLEAN /\ searching' \in BOOLEAN

Sends ==
    \/ \E pageNo \in 1 .. (MaxId + 2) : OnPaginationChange(pageNo)
    \/ \E kind \in {"view", "delete"}, id \in Ids : ManageMessage(kind, id)
    \/ Refresh \/ SearchMessages \/ AutoRefresh

\* loadMessages sends one request, with a new number.
LEMMA LoadSends ==
  ASSUME TypeOK, NEW pageNo \in Nat, NEW then \in Nat, LoadMessages("load", pageNo, then, requests),
         UNCHANGED searching
  PROVE  \E m : Sending(m)
  <1>0. loadSeq + 1 \in Nat /\ "load" \in Kinds
    BY BoundsAssumption DEF TypeOK, Kinds, Loads
  <1>1. PICK seq \in Nat, kind \in Kinds : seq = loadSeq + 1 /\ kind = "load"
    BY <1>0
  <1> DEFINE m == Request(kind, pageNo, seq, then)
  <1>2. m \in Requests /\ m.kind = kind /\ m.seq = seq /\ ~m.answer.ok /\ m.answer.rows = << >>
    BY NewRequest
  <1>3. /\ sent < MaxRequests /\ loadSeq' = loadSeq + 1 /\ loading' = TRUE /\ sent' = sent + 1
        /\ requests' = requests \cup {m}
    BY <1>1 DEF LoadMessages
  <1> HIDE DEF m
  <1>4. Sending(m)
    BY <1>1, <1>2, <1>3 DEF Sending, TypeOK
  <1> QED
    BY <1>4

\* Every other request is sent alike.
LEMMA OtherSends ==
  ASSUME TypeOK, NEW kind \in {"search", "view", "delete"}, NEW id \in Nat, Send(kind, id),
         UNCHANGED loadSeq,
         \/ kind = "search" /\ searching' = TRUE /\ UNCHANGED loading
         \/ kind # "search" /\ loading' = TRUE /\ UNCHANGED searching
  PROVE  \E m : Sending(m)
  <1> DEFINE m == Request(kind, id, 0, 0)
  <1>1. kind \in Kinds
    BY DEF Kinds
  <1>2. m \in Requests /\ m.kind = kind /\ ~m.answer.ok /\ m.answer.rows = << >>
    BY <1>1, NewRequest
  <1>3. sent < MaxRequests /\ sent' = sent + 1 /\ requests' = requests \cup {m}
    BY DEF Send
  <1> HIDE DEF m
  <1>4. Sending(m)
    BY <1>2, <1>3 DEF Sending, TypeOK
  <1> QED
    BY <1>4

\* What the user and the timer start: at most one request.
LEMMA SendsIs ==
  ASSUME TypeOK, Sends
  PROVE  /\ UNCHANGED <<server, messages, stream, rateLimited, history>>
         /\ activePage' \in Nat \ {0}
         /\ UNCHANGED <<loadSeq, loading, searching, requests, sent>> \/ \E m : Sending(m)
  <1>1. ASSUME NEW pageNo \in 1 .. (MaxId + 2), OnPaginationChange(pageNo)
        PROVE  /\ UNCHANGED <<server, messages, stream, rateLimited, history>>
               /\ activePage' \in Nat \ {0}
               /\ UNCHANGED <<loadSeq, loading, searching, requests, sent>> \/ \E m : Sending(m)
    <2>1. pageNo \in Nat \ {0} /\ pageNo - 1 \in Nat
      BY BoundsAssumption
    <2>2. UNCHANGED <<server, messages, searching, stream, rateLimited, history>>
      BY <1>1 DEF OnPaginationChange
    <2>3. CASE LoadMessages("load", pageNo - 1, pageNo, requests) /\ UNCHANGED activePage
      <3>1. \E m : Sending(m)
        BY <2>1, <2>2, <2>3, LoadSends
      <3> QED
        BY <3>1, <2>2, <2>3 DEF TypeOK
    <2>4. CASE activePage' = pageNo /\ UNCHANGED <<loadSeq, loading, requests, sent>>
      BY <2>1, <2>2, <2>4
    <2> QED
      BY <1>1, <2>3, <2>4 DEF OnPaginationChange
  <1>2. ASSUME NEW kind \in {"view", "delete"}, NEW id \in Ids, ManageMessage(kind, id)
        PROVE  UNCHANGED <<server, messages, activePage, stream, rateLimited, history>> /\ \E m : Sending(m)
    <2>1. id \in Nat /\ kind \in {"search", "view", "delete"} /\ kind # "search"
      BY BoundsAssumption DEF Ids
    <2>2. /\ UNCHANGED <<server, messages, loadSeq, searching, activePage, stream, rateLimited, history>>
          /\ Send(kind, id) /\ loading' = TRUE
      BY <1>2 DEF ManageMessage
    <2> QED
      BY <2>1, <2>2, OtherSends
  <1>3. ASSUME Refresh \/ AutoRefresh
        PROVE  UNCHANGED <<server, messages, activePage, stream, rateLimited, history>> /\ \E m : Sending(m)
    <2>1. /\ LoadMessages("load", 0, 1, requests)
          /\ UNCHANGED <<server, messages, searching, activePage, stream, rateLimited, history>>
      BY <1>3 DEF Refresh, AutoRefresh
    <2> QED
      BY <2>1, LoadSends
  <1>4. ASSUME SearchMessages
        PROVE  UNCHANGED <<server, messages, activePage, stream, rateLimited, history>> /\ \E m : Sending(m)
    <2>1. UNCHANGED <<server, messages, activePage, stream, rateLimited, history>>
      BY <1>4 DEF SearchMessages
    <2>2. CASE LoadMessages("load", 0, 1, requests) /\ UNCHANGED searching
      BY <2>1, <2>2, LoadSends
    <2>3. CASE SearchSends
      BY <2>1, <2>3, OtherSends DEF SearchSends
    <2> QED
      BY <1>4, <2>2, <2>3 DEF SearchMessages
  <1>5. activePage \in Nat \ {0}
    BY DEF TypeOK
  <1> QED
    BY <1>1, <1>2, <1>3, <1>4, <1>5 DEF Sends

----------------------------------------------------------------------------
(* Every step keeps the types. *)

\* The new list is a list of messages, after an answer, a sort or an event.
LEMMA ListsAre ==
  ASSUME TypeOK
  PROVE  /\ \A rows \in Seq(Ids) :
               /\ Appended(rows) \in Seq(Ids)
               /\ ToSet(Appended(rows)) = ToSet(messages) \cup ToSet(rows)
               /\ Different(messages) /\ Different(rows) => Different(Appended(rows))
         /\ \A ids :
               /\ Without(messages, ids) \in Seq(Ids)
               /\ ToSet(Without(messages, ids)) = ToSet(messages) \ ids
               /\ Different(messages) => Different(Without(messages, ids))
         /\ \A id \in Ids :
               /\ <<id>> \o messages \in Seq(Ids)
               /\ ToSet(<<id>> \o messages) = {id} \cup ToSet(messages)
               /\ Different(messages) /\ id \notin ToSet(messages) => Different(<<id>> \o messages)
  <1>1. messages \in Seq(Ids)
    BY DEF TypeOK
  <1>2. ASSUME NEW rows \in Seq(Ids)
        PROVE  /\ Appended(rows) \in Seq(Ids)
               /\ ToSet(Appended(rows)) = ToSet(messages) \cup ToSet(rows)
               /\ Different(messages) /\ Different(rows) => Different(Appended(rows))
    <2> DEFINE new == Without(rows, ToSet(messages))
    <2>1. /\ new \in Seq(Ids) /\ ToSet(new) = ToSet(rows) \ ToSet(messages)
          /\ Different(rows) => Different(new)
      BY WithoutIs
    <2>2. Appended(rows) = messages \o new
      BY DEF Appended
    <2> HIDE DEF new
    <2>3. /\ messages \o new \in Seq(Ids)
          /\ ToSet(messages \o new) = ToSet(messages) \cup ToSet(new)
          /\ Different(messages) /\ Different(new) /\ ToSet(messages) \cap ToSet(new) = {}
                => Different(messages \o new)
      BY <1>1, <2>1, ConcatIs
    <2>4. ToSet(messages) \cap ToSet(new) = {}
      BY <2>1
    <2>5. ToSet(messages) \cup ToSet(new) = ToSet(messages) \cup ToSet(rows)
      BY <2>1
    <2> QED
      BY <2>1, <2>2, <2>3, <2>4, <2>5
  <1>3. ASSUME NEW id \in Ids
        PROVE  /\ <<id>> \o messages \in Seq(Ids)
               /\ ToSet(<<id>> \o messages) = {id} \cup ToSet(messages)
               /\ Different(messages) /\ id \notin ToSet(messages) => Different(<<id>> \o messages)
    <2> DEFINE new == <<id>>
    <2>1. new \in Seq(Ids) /\ ToSet(new) = {id} /\ Different(new)
      BY DEF ToSet, Different
    <2> HIDE DEF new
    <2>2. /\ new \o messages \in Seq(Ids)
          /\ ToSet(new \o messages) = ToSet(new) \cup ToSet(messages)
          /\ Different(new) /\ Different(messages) /\ ToSet(new) \cap ToSet(messages) = {}
                => Different(new \o messages)
      BY <1>1, <2>1, ConcatIs
    <2>3. id \notin ToSet(messages) => ToSet(new) \cap ToSet(messages) = {}
      BY <2>1
    <2> QED
      BY <2>1, <2>2, <2>3 DEF new
  <1> QED
    BY <1>1, <1>2, <1>3, WithoutIs

\* A sort shows the same messages.
LEMMA SortIs ==
  ASSUME TypeOK, SortMessage
  PROVE  /\ messages' \in Seq(Ids) /\ ToSet(messages') = ToSet(messages)
         /\ Different(messages) => Different(messages')
  <1>1. PICK sorted \in Rearranged(messages) :
           messages' = IF Head(sorted) = Head(messages) THEN Reverse(sorted) ELSE sorted
    BY DEF SortMessage
  <1>2. messages \in Seq(Ids)
    BY DEF TypeOK
  <1>3. /\ sorted \in Seq(Ids) /\ ToSet(sorted) = ToSet(messages)
        /\ Different(messages) => Different(sorted)
    BY <1>2, RearrangedIs
  <1>4. /\ Reverse(sorted) \in Seq(Ids) /\ ToSet(Reverse(sorted)) = ToSet(sorted)
        /\ Different(sorted) => Different(Reverse(sorted))
    BY <1>3, ReverseIs
  <1> QED
    BY <1>1, <1>3, <1>4

\* An answered load makes the list what it was, its rows, or both.
LEMMA LoadShows ==
  ASSUME TypeOK, NEW q \in requests, LoadAnswered(q)
  PROVE  /\ q.answer.rows \in Seq(Ids)
         /\ \/ messages' = messages
            \/ q.seq = loadSeq /\ messages' \in {q.answer.rows, Appended(q.answer.rows)}
  <1>1. q \in Requests
    BY DEF TypeOK
  <1>2. q.answer.rows \in Seq(Ids) /\ q.answer.ok \in BOOLEAN /\ q.arg \in Nat
    BY <1>1 DEF Requests
  <1>3. CASE ~IsNewest(q) \/ ~q.answer.ok
    BY <1>2, <1>3 DEF LoadAnswered
  <1>4. CASE IsNewest(q) /\ q.answer.ok /\ q.arg = 0
    BY <1>2, <1>4 DEF LoadAnswered, IsNewest
  <1>5. CASE IsNewest(q) /\ q.answer.ok /\ q.arg # 0
    BY <1>2, <1>5 DEF LoadAnswered, IsNewest
  <1> QED
    BY <1>2, <1>3, <1>4, <1>5

\* The server only ever has ids it has given out.
LEMMA TypeServer ==
  ASSUME TypeOK, PushMessage
  PROVE  TypeOK'
  <1>1. /\ lastId + 1 \in 0 .. MaxId /\ lastId + 1 \in 1 .. (lastId + 1)
        /\ 1 .. lastId \subseteq 1 .. (lastId + 1)
    BY BoundsAssumption DEF TypeOK, PushMessage
  <1>2. /\ lastId' = lastId + 1 /\ stored' = stored \cup {lastId + 1} /\ events' = events \cup {lastId + 1}
        /\ UNCHANGED <<list, stream, rateLimited, history>>
    BY DEF PushMessage
  <1>3. /\ lastId' \in 0 .. MaxId /\ stored' \subseteq 1 .. lastId' /\ events' \subseteq 1 .. lastId'
        /\ confirmed' \subseteq 1 .. lastId'
    BY <1>1, <1>2 DEF TypeOK, history
  <1> QED
    BY <1>2, <1>3 DEF TypeOK, list, stream, history

\* Every step keeps the types; a confirmed id was one of the server's.
LEMMA TypeNext == TypeOK /\ DeletedGone /\ [Next]_vars => TypeOK'
  <1> SUFFICES ASSUME TypeOK, DeletedGone, [Next]_vars PROVE TypeOK'
    OBVIOUS
  <1> USE BoundsAssumption
  <1>1. CASE UNCHANGED vars
    BY <1>1 DEF TypeOK, vars, server, list, stream, history
  <1>2. CASE Sends
    <2>1. /\ UNCHANGED <<server, messages, stream, rateLimited, history>>
          /\ activePage' \in Nat \ {0}
          /\ UNCHANGED <<loadSeq, loading, searching, requests, sent>> \/ \E m : Sending(m)
      BY <1>2, SendsIs
    <2>2. CASE UNCHANGED <<loadSeq, loading, searching, requests, sent>>
      BY <2>1, <2>2 DEF TypeOK, server, stream, history
    <2>3. CASE \E m : Sending(m)
      <3>1. PICK m : Sending(m)
        BY <2>3
      <3>2. sent' \in 0 .. MaxRequests /\ loadSeq' \in 0 .. sent'
        BY <3>1 DEF Sending, TypeOK
      <3>3. requests' \subseteq Requests /\ loading' \in BOOLEAN /\ searching' \in BOOLEAN
        BY <3>1 DEF Sending, TypeOK
      <3> QED
        BY <2>1, <3>2, <3>3 DEF TypeOK, server, stream, history
    <2> QED
      BY <2>1, <2>2, <2>3
  <1>3. ASSUME NEW q \in requests, Serve(q) \/ FailRequest(q)
        PROVE  TypeOK'
    <2>1. PICK a : Answering(q, a)
      BY <1>3, AnsweringIs
    <2>2. q \in Requests
      BY DEF TypeOK
    <2>3. requests' \subseteq Requests
      BY <2>1, <2>2, AnswerKeeps DEF Answering, Answered, TypeOK
    <2> QED
      BY <2>1, <2>3 DEF Answering, TypeOK, stream, history
  <1>4. ASSUME NEW q \in requests, LoadAnswered(q)
        PROVE  TypeOK'
    <2>1. q \in Requests /\ q.then \in Nat
      BY DEF TypeOK, Requests
    <2>2. messages' \in Seq(Ids)
      BY <1>4, LoadShows, ListsAre DEF TypeOK
    <2>3. requests' \subseteq Requests /\ activePage' \in Nat \ {0} /\ loading' \in BOOLEAN
      BY <1>4, <2>1 DEF LoadAnswered, TypeOK
    <2> QED
      BY <1>4, <2>2, <2>3 DEF LoadAnswered, TypeOK, server, stream, history
  <1>5. ASSUME NEW q \in requests, SearchAnswered(q)
        PROVE  TypeOK'
    <2>1. q \in Requests /\ q.answer.rows \in Seq(Ids)
      BY DEF TypeOK, Requests
    <2>2. messages' \in Seq(Ids) /\ activePage' \in Nat \ {0} /\ revived' \subseteq confirmed
      <3>1. CASE q.answer.ok
        <4>1. messages' \in Seq(Ids)
          BY <1>5, <2>1, <3>1 DEF SearchAnswered
        <4>2. activePage' \in Nat \ {0}
          BY <1>5, <3>1 DEF SearchAnswered
        <4>3. revived' \subseteq confirmed
          BY <1>5, <3>1 DEF SearchAnswered, TypeOK
        <4> QED
          BY <4>1, <4>2, <4>3
      <3>2. CASE ~q.answer.ok
        BY <1>5, <3>2 DEF SearchAnswered, TypeOK
      <3> QED
        BY <3>1, <3>2
    <2> QED
      BY <1>5, <2>2 DEF SearchAnswered, TypeOK, server, stream
  <1>6. ASSUME NEW q \in requests, ManageAnswered(q)
        PROVE  TypeOK'
    BY <1>6 DEF ManageAnswered, TypeOK, server, stream, history
  <1>7. ASSUME NEW q \in requests, DeleteAnswered(q)
        PROVE  TypeOK'
    <2>1. UNCHANGED <<server, searching, activePage, stream, rateLimited, revived>>
      BY <1>7 DEF DeleteAnswered
    <2>2. CASE /\ q.answer.ok
               /\ messages' = Without(messages, {q.arg})
               /\ LoadMessages("reload", 0, 0, requests \ {q})
               /\ confirmed' = confirmed \cup {q.arg}
      <3>1. messages' \in Seq(Ids)
        BY <2>2, ListsAre
      <3>2. confirmed' \subseteq 1 .. lastId
        BY <1>7, <2>2 DEF DeletedGone, OfRequest, DeleteAnswered, TypeOK
      <3>3. sent' \in 0 .. MaxRequests /\ loadSeq' \in 0 .. sent' /\ loading' \in BOOLEAN
        BY <2>2 DEF LoadMessages, TypeOK
      <3>4. requests' \subseteq Requests
        <4>1. loadSeq + 1 \in Nat /\ "reload" \in Kinds
          BY DEF TypeOK, Kinds, Loads
        <4>2. Request("reload", 0, loadSeq + 1, 0) \in Requests
          BY <4>1, NewRequest
        <4> QED
          BY <2>2, <4>2 DEF LoadMessages, TypeOK
      <3> QED
        BY <2>1, <2>2, <3>1, <3>2, <3>3, <3>4 DEF TypeOK, server, stream
    <2>3. CASE /\ requests' = requests \ {q}
               /\ loading' = FALSE
               /\ UNCHANGED <<messages, loadSeq, sent, confirmed>>
      BY <2>1, <2>3 DEF TypeOK, server, stream
    <2> QED
      BY <1>7, <2>2, <2>3 DEF DeleteAnswered
  <1>8. CASE PushMessage
    BY <1>8, TypeServer
  <1>9. CASE LoseEvent
    BY <1>9 DEF LoseEvent, TypeOK, list, stream, history
  <1>10. CASE EndCoolDown
    BY <1>10 DEF EndCoolDown, TypeOK, server, list, stream, history
  <1>11. CASE SortMessage
    <2>1. messages' \in Seq(Ids)
      BY <1>11, SortIs
    <2> QED
      BY <1>11, <2>1 DEF SortMessage, TypeOK, server, stream, history
  <1>12. CASE OnMessage
    <2>1. PICK id \in events :
             /\ events' = events \ {id}
             /\ messages' = IF id \in ToSet(messages) THEN messages ELSE <<id>> \o messages
             /\ revived' = revived \cup (confirmed \cap {id})
      BY <1>12 DEF OnMessage
    <2>2. id \in Ids
      BY DEF TypeOK, Ids
    <2>3. messages' \in Seq(Ids)
      BY <2>1, <2>2, ListsAre DEF TypeOK
    <2>4. revived' \subseteq confirmed /\ events' \subseteq 1 .. lastId
      BY <2>1 DEF TypeOK
    <2> QED
      BY <1>12, <2>3, <2>4 DEF OnMessage, TypeOK, stream
  <1>13. CASE OnError \/ ConnectEventSource
    <2>1. sources' \in Nat
      BY <1>13 DEF OnError, CloseSource, ConnectEventSource, TypeOK
    <2> QED
      BY <1>13, <2>1 DEF OnError, ConnectEventSource, TypeOK, server, list, history
  <1>14. CASE Unmount
    <2>1. sources' \in Nat
      BY <1>14 DEF Unmount, TypeOK
    <2>2. messages' \in Seq(Ids) /\ requests' \subseteq Requests
      BY <1>14 DEF Unmount
    <2>3. activePage' \in Nat \ {0}
      BY <1>14 DEF Unmount
    <2>4. /\ UNCHANGED <<server, loadSeq, sent, rateLimited, history>>
          /\ loading' = FALSE /\ searching' = FALSE /\ retryTimer' = FALSE /\ closed' = TRUE
      BY <1>14 DEF Unmount
    <2> QED
      BY <2>1, <2>2, <2>3, <2>4 DEF TypeOK, server, history
  <1>15. CASE Mount
    <2>1. sources' \in Nat
      BY <1>15 DEF Mount, TypeOK
    <2>2. requests' \subseteq Requests
      <3>1. "load" \in Kinds
        BY DEF Kinds, Loads
      <3>2. Request("load", 0, 1, 0) \in Requests
        BY <3>1, NewRequest
      <3> QED
        BY <1>15, <3>2 DEF Mount, Requests
    <2>3. messages' \in Seq(Ids) /\ sent' \in 0 .. MaxRequests /\ loadSeq' \in 0 .. sent'
      BY <1>15 DEF Mount
    <2>4. activePage' \in Nat \ {0}
      BY <1>15 DEF Mount
    <2>5. /\ UNCHANGED <<server, rateLimited, history>>
          /\ loading' = TRUE /\ searching' = FALSE /\ retryTimer' = FALSE /\ closed' = FALSE
      BY <1>15 DEF Mount
    <2> QED
      BY <2>1, <2>2, <2>3, <2>4, <2>5 DEF TypeOK, server, history
  <1> QED
    BY <1>1, <1>2, <1>3, <1>4, <1>5, <1>6, <1>7, <1>8, <1>9, <1>10, <1>11, <1>12, <1>13, <1>14, <1>15
    DEF Next, Sends

----------------------------------------------------------------------------
(* Every step keeps the rest of the invariant. *)

\* Opening, breaking, retrying, leaving and entering keep one stream.
LEMMA EventStreamNext == TypeOK /\ OneStream /\ [Next]_vars => OneStream'
  <1> SUFFICES ASSUME TypeOK, OneStream, [Next]_vars PROVE OneStream'
    OBVIOUS
  <1>1. sources \in Nat /\ retryTimer \in BOOLEAN /\ closed \in BOOLEAN
    BY DEF TypeOK
  <1>2. CASE UNCHANGED stream
    BY <1>2 DEF OneStream, stream
  <1>3. CASE OnError
    BY <1>1, <1>3 DEF OneStream, OnError, CloseSource
  <1>4. CASE ConnectEventSource
    BY <1>1, <1>4 DEF OneStream, ConnectEventSource
  <1>5. CASE Unmount
    BY <1>1, <1>5 DEF OneStream, Unmount
  <1>6. CASE Mount
    BY <1>1, <1>6 DEF OneStream, Mount
  <1>7. CASE Sends
    BY <1>2, <1>7, SendsIs
  <1>8. ASSUME NEW q \in requests,
               \/ Serve(q) \/ FailRequest(q)
               \/ LoadAnswered(q) \/ SearchAnswered(q) \/ ManageAnswered(q) \/ DeleteAnswered(q)
        PROVE  UNCHANGED stream
    BY <1>8 DEF Serve, FailRequest, LoadAnswered, SearchAnswered, ManageAnswered, DeleteAnswered
  <1>9. CASE PushMessage \/ LoseEvent \/ EndCoolDown \/ SortMessage \/ OnMessage \/ UNCHANGED vars
    BY <1>2, <1>9 DEF PushMessage, LoseEvent, EndCoolDown, SortMessage, OnMessage, vars
  <1> QED
    BY <1>2, <1>3, <1>4, <1>5, <1>6, <1>7, <1>8, <1>9 DEF Next, Sends

\* What shows that the list is loading keeps a request to wait for: an answer
\* that is dropped as out of date leaves the newest load under way.
LEMMA AwaitedNext == TypeOK /\ Awaited /\ [Next]_vars => Awaited'
  <1> SUFFICES ASSUME TypeOK, Awaited, [Next]_vars PROVE Awaited'
    OBVIOUS
  <1>1. CASE UNCHANGED <<loading, searching, requests, loadSeq>>
    BY <1>1 DEF Awaited
  <1>2. CASE Sends
    <2>1. CASE UNCHANGED <<loadSeq, loading, searching, requests, sent>>
      BY <1>1, <2>1
    <2>2. ASSUME NEW m, Sending(m)
          PROVE  Awaited'
      <3>1. requests' = requests \cup {m}
        BY <2>2 DEF Sending
      <3>2. CASE m.kind = "load" /\ m.seq = loadSeq + 1 /\ loadSeq' = loadSeq + 1 /\ loading' /\ UNCHANGED searching
        BY <3>1, <3>2 DEF Awaited, Loads
      <3>3. CASE m.kind = "search" /\ searching' /\ UNCHANGED <<loadSeq, loading>>
        BY <3>1, <3>3 DEF Awaited
      <3>4. CASE m.kind \in {"view", "delete"} /\ loading' /\ UNCHANGED <<loadSeq, searching>>
        BY <3>1, <3>4 DEF Awaited
      <3> QED
        BY <2>2, <3>2, <3>3, <3>4 DEF Sending
    <2> QED
      BY <1>2, <2>1, <2>2, SendsIs
  <1>3. ASSUME NEW q \in requests, Serve(q) \/ FailRequest(q)
        PROVE  Awaited'
    <2>1. PICK a : Answering(q, a)
      BY <1>3, AnsweringIs
    <2>2. PICK b : b.kind = q.kind /\ b.seq = q.seq /\ requests' = (requests \ {q}) \cup {b}
      BY <2>1, AnswerKeeps DEF Answering, Answered, TypeOK
    <2>3. UNCHANGED <<loading, searching, loadSeq>>
      BY <2>1 DEF Answering
    <2> QED
      BY <2>2, <2>3 DEF Awaited
  <1>4. ASSUME NEW q \in requests, LoadAnswered(q)
        PROVE  Awaited'
    <2>1. /\ q.kind \in Loads /\ requests' = requests \ {q} /\ UNCHANGED <<loadSeq, searching>>
          /\ loading' = (loading /\ ~IsNewest(q) /\ q.kind = "load")
      BY <1>4 DEF LoadAnswered
    <2>2. searching' => \E s \in requests' : s.kind = "search"
      BY <2>1 DEF Awaited, Loads
    <2>3. ASSUME loading'
          PROVE  \E s \in requests' : \/ s.kind \in Loads /\ s.seq = loadSeq'
                                      \/ s.kind \in {"reload", "view", "delete"}
      <3>1. loading /\ q.seq # loadSeq /\ q.kind = "load"
        BY <2>1, <2>3 DEF IsNewest
      <3>2. PICK s \in requests : \/ s.kind \in Loads /\ s.seq = loadSeq
                                  \/ s.kind \in {"reload", "view", "delete"}
        BY <3>1 DEF Awaited
      <3>3. s # q
        BY <3>1, <3>2
      <3> QED
        BY <2>1, <3>2, <3>3
    <2> QED
      BY <2>2, <2>3 DEF Awaited
  <1>5. ASSUME NEW q \in requests, SearchAnswered(q)
        PROVE  Awaited'
    <2>1. /\ q.kind = "search" /\ requests' = requests \ {q} /\ ~searching'
          /\ UNCHANGED <<loadSeq, loading>>
      BY <1>5 DEF SearchAnswered
    <2> QED
      BY <2>1 DEF Awaited, Loads
  <1>6. ASSUME NEW q \in requests, ManageAnswered(q)
        PROVE  Awaited'
    <2>1. q.kind = "view" /\ requests' = requests \ {q} /\ ~loading' /\ UNCHANGED searching
      BY <1>6 DEF ManageAnswered
    <2> QED
      BY <2>1 DEF Awaited
  <1>7. ASSUME NEW q \in requests, DeleteAnswered(q)
        PROVE  Awaited'
    <2>1. q.kind = "delete" /\ UNCHANGED searching
      BY <1>7 DEF DeleteAnswered
    <2>2. CASE LoadMessages("reload", 0, 0, requests \ {q})
      <3>1. PICK m : m.kind = "reload" /\ requests' = (requests \ {q}) \cup {m}
        <4>1. loadSeq + 1 \in Nat /\ "reload" \in Kinds
          BY BoundsAssumption DEF TypeOK, Kinds, Loads
        <4>2. Request("reload", 0, loadSeq + 1, 0).kind = "reload"
          BY <4>1, NewRequest
        <4> QED
          BY <2>2, <4>2 DEF LoadMessages
      <3> QED
        BY <2>1, <3>1 DEF Awaited
    <2>3. CASE requests' = requests \ {q} /\ loading' = FALSE
      BY <2>1, <2>3 DEF Awaited
    <2> QED
      BY <1>7, <2>2, <2>3 DEF DeleteAnswered
  <1>8. CASE SortMessage
    BY <1>8 DEF SortMessage, Awaited
  <1>9. CASE Unmount
    BY <1>9 DEF Unmount, Awaited
  <1>10. CASE Mount
    <2>1. "load" \in Kinds /\ 0 \in Nat /\ 1 \in Nat
      BY DEF Kinds, Loads
    <2>2. Request("load", 0, 1, 0) \in Requests /\ Request("load", 0, 1, 0).kind = "load" /\ Request("load", 0, 1, 0).seq = 1
      BY <2>1, NewRequest
    <2>3. PICK m : m.kind = "load" /\ m.seq = 1 /\ requests' = {m}
      BY <1>10, <2>2 DEF Mount, Requests
    <2> QED
      BY <1>10, <2>3 DEF Mount, Awaited, Loads
  <1>11. CASE PushMessage \/ LoseEvent \/ EndCoolDown \/ OnMessage \/ OnError \/ ConnectEventSource \/ UNCHANGED vars
    BY <1>1, <1>11 DEF PushMessage, LoseEvent, EndCoolDown, OnMessage, OnError, ConnectEventSource, vars, list
  <1> QED
    BY <1>2, <1>3, <1>4, <1>5, <1>6, <1>7, <1>8, <1>9, <1>10, <1>11 DEF Next, Sends

\* No step shows a message twice.
LEMMA RowsNext == TypeOK /\ RowsDiffer /\ [Next]_vars => RowsDiffer'
  <1> SUFFICES ASSUME TypeOK, RowsDiffer, [Next]_vars PROVE RowsDiffer'
    OBVIOUS
  <1>0. Different(<< >>)
    BY DEF Different
  <1>1. CASE messages' = messages /\ requests' \subseteq requests
    BY <1>1 DEF RowsDiffer
  <1>2. CASE Sends
    <2>1. CASE UNCHANGED <<loadSeq, loading, searching, requests, sent>>
      BY <1>1, <1>2, <2>1, SendsIs
    <2>2. ASSUME NEW m, Sending(m)
          PROVE  RowsDiffer'
      BY <1>0, <1>2, <2>2, SendsIs DEF Sending, RowsDiffer
    <2> QED
      BY <1>2, <2>1, <2>2, SendsIs
  <1>3. ASSUME NEW q \in requests, Serve(q) \/ FailRequest(q)
        PROVE  RowsDiffer'
    <2>1. PICK a : Answering(q, a)
      BY <1>3, AnsweringIs
    <2>2. PICK b : b.answer = a /\ requests' = (requests \ {q}) \cup {b}
      BY ZenonT(40), <2>1, AnswerKeeps DEF Answering, Answered, TypeOK
    <2> QED
      BY <2>1, <2>2 DEF Answering, RowsDiffer
  <1>4. ASSUME NEW q \in requests, LoadAnswered(q)
        PROVE  RowsDiffer'
    <2>1. Different(messages')
      BY <1>4, LoadShows, ListsAre DEF RowsDiffer
    <2>2. requests' = requests \ {q}
      BY <1>4 DEF LoadAnswered
    <2> QED
      BY <2>1, <2>2 DEF RowsDiffer
  <1>5. ASSUME NEW q \in requests, SearchAnswered(q)
        PROVE  RowsDiffer'
    <2>1. requests' = requests \ {q} /\ messages' \in {messages, q.answer.rows}
      BY <1>5 DEF SearchAnswered
    <2> QED
      BY <2>1 DEF RowsDiffer
  <1>6. ASSUME NEW q \in requests, ManageAnswered(q)
        PROVE  RowsDiffer'
    BY <1>1, <1>6 DEF ManageAnswered
  <1>7. ASSUME NEW q \in requests, DeleteAnswered(q)
        PROVE  RowsDiffer'
    <2>1. CASE messages' = Without(messages, {q.arg}) /\ LoadMessages("reload", 0, 0, requests \ {q})
      <3>1. PICK m : m.answer.rows = << >> /\ requests' = (requests \ {q}) \cup {m}
        <4>1. Request("reload", 0, loadSeq + 1, 0).answer.rows = << >>
          BY DEF Request, NoAnswer
        <4> QED
          BY <2>1, <4>1 DEF LoadMessages
      <3>2. Different(messages')
        BY <2>1, ListsAre DEF RowsDiffer
      <3> QED
        BY <1>0, <3>1, <3>2 DEF RowsDiffer
    <2>2. CASE requests' = requests \ {q} /\ UNCHANGED messages
      BY <1>1, <2>2
    <2> QED
      BY <1>7, <2>1, <2>2 DEF DeleteAnswered
  <1>8. CASE SortMessage
    <2>1. Different(messages')
      BY <1>8, SortIs DEF RowsDiffer
    <2> QED
      BY <1>8, <2>1 DEF SortMessage, RowsDiffer
  <1>9. CASE OnMessage
    <2>1. PICK id \in events : messages' = IF id \in ToSet(messages) THEN messages ELSE <<id>> \o messages
      BY <1>9 DEF OnMessage
    <2>2. id \in Ids
      BY BoundsAssumption DEF TypeOK, Ids
    <2>3. Different(messages')
      BY <2>1, <2>2, ListsAre DEF RowsDiffer
    <2> QED
      BY <1>9, <2>3 DEF OnMessage, RowsDiffer
  <1>10. CASE Unmount
    BY <1>0, <1>10 DEF Unmount, RowsDiffer
  <1>11. CASE Mount
    <2>1. "load" \in Kinds /\ 0 \in Nat /\ 1 \in Nat
      BY DEF Kinds, Loads
    <2>2. Request("load", 0, 1, 0) \in Requests /\ Request("load", 0, 1, 0).answer.rows = << >>
      BY <2>1, NewRequest
    <2>3. PICK m : m.answer.rows = << >> /\ requests' = {m}
      BY <1>11, <2>2 DEF Mount, Requests
    <2> QED
      BY <1>0, <1>11, <2>3 DEF Mount, RowsDiffer
  <1>12. CASE PushMessage \/ LoseEvent \/ EndCoolDown \/ OnError \/ ConnectEventSource \/ UNCHANGED vars
    BY <1>1, <1>12 DEF PushMessage, LoseEvent, EndCoolDown, OnError, ConnectEventSource, vars, list
  <1> QED
    BY <1>2, <1>3, <1>4, <1>5, <1>6, <1>7, <1>8, <1>9, <1>10, <1>11, <1>12 DEF Next, Sends

\* No step forgets a deletion: a load is numbered after it, and its answer is
\* given after it, so that what is applied as the newest load does not have it.
LEMMA DeletedNext == TypeOK /\ DeletedGone /\ [Next]_vars => DeletedGone'
  <1> SUFFICES ASSUME TypeOK, DeletedGone, [Next]_vars PROVE DeletedGone'
    OBVIOUS
  <1>a. ToSet(<< >>) = {}
    BY DEF ToSet
  <1>b. /\ loadSeq \in Nat /\ lastId \in Nat
        /\ \A q \in requests : q.seq \in Nat
    BY BoundsAssumption DEF TypeOK, Requests
  <1>c. confirmed \subseteq 1 .. lastId /\ lastId + 1 \notin 1 .. lastId /\ lastId + 1 \in Nat
    BY <1>b DEF TypeOK
  <1>1. CASE requests' \subseteq requests /\ UNCHANGED <<stored, lastId, loadSeq, messages, history>>
    BY <1>1 DEF DeletedGone, DeletedStayAway, OfRequest, history
  <1>2. CASE Sends
    <2>0. UNCHANGED <<server, messages, stream, rateLimited, history>>
      BY <1>2, SendsIs
    <2>1. CASE UNCHANGED <<loadSeq, loading, searching, requests, sent>>
      BY <1>1, <2>0, <2>1 DEF server
    <2>2. ASSUME NEW m, Sending(m)
          PROVE  DeletedGone'
      <3>1. UNCHANGED <<stored, lastId, messages, confirmed, revived>>
        BY <2>0 DEF server, history
      <3>2. requests' = requests \cup {m} /\ loadSeq' \in {loadSeq, loadSeq + 1}
        BY <2>2 DEF Sending
      <3>3. \A q \in requests : OfRequest(q)'
        BY <1>b, <3>1, <3>2 DEF DeletedGone, OfRequest
      <3>4. OfRequest(m)'
        BY <1>a, <1>b, <2>2, <3>1 DEF Sending, OfRequest, Loads
      <3> QED
        BY <3>1, <3>2, <3>3, <3>4 DEF DeletedGone, DeletedStayAway
    <2> QED
      BY <1>2, <2>1, <2>2, SendsIs
  <1>3. ASSUME NEW q \in requests, Serve(q) \/ FailRequest(q)
        PROVE  DeletedGone'
    <2>1. PICK a : Answering(q, a)
      BY <1>3, AnsweringIs
    <2>2. PICK b : /\ b.answer = a /\ b.kind = q.kind /\ b.seq = q.seq /\ b.arg = q.arg
                   /\ requests' = (requests \ {q}) \cup {b}
      BY ZenonT(40), <2>1, AnswerKeeps DEF Answering, Answered, TypeOK
    <2>3. stored' \subseteq stored /\ UNCHANGED <<lastId, loadSeq, messages, confirmed, revived>>
      BY <2>1 DEF Answering, history
    <2>4. \A r \in requests : OfRequest(r)'
      BY <2>3 DEF DeletedGone, OfRequest
    <2>5. OfRequest(b)'
      <3>1. b.kind = "delete" /\ b.answer.ok => b.arg \in 1 .. lastId /\ b.arg \notin stored'
        BY <2>1, <2>2 DEF Answering, TypeOK
      <3>2. b.kind \in Loads => b.seq <= loadSeq
        BY <2>2 DEF DeletedGone, OfRequest
      <3>3. b.kind \in Loads => confirmed \cap ToSet(b.answer.rows) = {}
        BY <2>1, <2>2 DEF Answering, DeletedGone
      <3> QED
        BY <2>3, <3>1, <3>2, <3>3 DEF OfRequest
    <2> QED
      BY <2>2, <2>3, <2>4, <2>5 DEF DeletedGone, DeletedStayAway
  <1>4. ASSUME NEW q \in requests, LoadAnswered(q)
        PROVE  DeletedGone'
    <2>1. requests' = requests \ {q} /\ UNCHANGED <<stored, lastId, loadSeq, confirmed, revived>>
      BY <1>4 DEF LoadAnswered, server, history
    <2>2. confirmed \cap ToSet(messages') \subseteq revived
      <3>1. CASE messages' = messages
        BY <3>1 DEF DeletedGone, DeletedStayAway
      <3>2. CASE q.seq = loadSeq /\ messages' \in {q.answer.rows, Appended(q.answer.rows)}
        <4>1. q.kind \in Loads
          BY <1>4 DEF LoadAnswered
        <4>2. confirmed \cap ToSet(q.answer.rows) = {}
          BY <3>2, <4>1 DEF DeletedGone, OfRequest
        <4>3. ToSet(messages') \subseteq ToSet(messages) \cup ToSet(q.answer.rows)
          BY <1>4, <3>2, LoadShows, ListsAre
        <4> QED
          BY <4>2, <4>3 DEF DeletedGone, DeletedStayAway
      <3> QED
        BY <1>4, <3>1, <3>2, LoadShows
    <2> QED
      BY <2>1, <2>2 DEF DeletedGone, DeletedStayAway, OfRequest
  <1>5. ASSUME NEW q \in requests, SearchAnswered(q)
        PROVE  DeletedGone'
    <2>1. requests' = requests \ {q} /\ UNCHANGED <<stored, lastId, loadSeq, confirmed>>
      BY <1>5 DEF SearchAnswered, server
    <2>2. confirmed \cap ToSet(messages') \subseteq revived'
      BY <1>5 DEF SearchAnswered, DeletedGone, DeletedStayAway
    <2> QED
      BY <2>1, <2>2 DEF DeletedGone, DeletedStayAway, OfRequest
  <1>6. ASSUME NEW q \in requests, ManageAnswered(q)
        PROVE  DeletedGone'
    BY <1>1, <1>6 DEF ManageAnswered, server
  <1>7. ASSUME NEW q \in requests, DeleteAnswered(q)
        PROVE  DeletedGone'
    <2>1. UNCHANGED <<stored, lastId, revived>> /\ q.kind = "delete"
      BY <1>7 DEF DeleteAnswered, server
    <2>2. CASE /\ q.answer.ok
               /\ messages' = Without(messages, {q.arg})
               /\ LoadMessages("reload", 0, 0, requests \ {q})
               /\ confirmed' = confirmed \cup {q.arg}
      <3>1. PICK m : /\ m.kind = "reload" /\ m.seq = loadSeq + 1 /\ m.answer.rows = << >>
                     /\ requests' = (requests \ {q}) \cup {m} /\ loadSeq' = loadSeq + 1
        <4>1. loadSeq + 1 \in Nat /\ "reload" \in Kinds
          BY <1>b DEF Kinds, Loads
        <4>2. /\ Request("reload", 0, loadSeq + 1, 0).kind = "reload"
              /\ Request("reload", 0, loadSeq + 1, 0).seq = loadSeq + 1
              /\ Request("reload", 0, loadSeq + 1, 0).answer.rows = << >>
          BY <4>1, NewRequest
        <4> QED
          BY <2>2, <4>2 DEF LoadMessages
      <3>2. q.arg \notin stored
        BY <2>1, <2>2 DEF DeletedGone, OfRequest
      <3>3. OfRequest(m)'
        BY <1>a, <1>b, <3>1 DEF OfRequest, Loads
      <3>4. \A r \in requests : OfRequest(r)'
        BY <1>b, <2>1, <3>1 DEF DeletedGone, OfRequest
      <3>5. ToSet(messages') = ToSet(messages) \ {q.arg}
        BY <2>2, ListsAre
      <3> QED
        BY <2>1, <2>2, <3>1, <3>2, <3>3, <3>4, <3>5 DEF DeletedGone, DeletedStayAway
    <2>3. CASE requests' = requests \ {q} /\ UNCHANGED <<messages, loadSeq, sent, confirmed>>
      BY <1>1, <2>1, <2>3 DEF history
    <2> QED
      BY <1>7, <2>2, <2>3 DEF DeleteAnswered
  <1>8. CASE SortMessage
    <2>1. ToSet(messages') = ToSet(messages)
      BY <1>8, SortIs
    <2>2. UNCHANGED <<stored, lastId, loadSeq, requests, confirmed, revived>>
      BY <1>8 DEF SortMessage, server, history
    <2> QED
      BY <2>1, <2>2 DEF DeletedGone, DeletedStayAway, OfRequest
  <1>9. CASE OnMessage
    <2>1. PICK id \in events :
             /\ messages' = IF id \in ToSet(messages) THEN messages ELSE <<id>> \o messages
             /\ revived' = revived \cup (confirmed \cap {id})
      BY <1>9 DEF OnMessage
    <2>2. id \in Ids
      BY BoundsAssumption DEF TypeOK, Ids
    <2>3. ToSet(messages') \subseteq {id} \cup ToSet(messages)
      BY <2>1, <2>2, ListsAre
    <2>4. UNCHANGED <<stored, lastId, loadSeq, requests, confirmed>>
      BY <1>9 DEF OnMessage
    <2> QED
      BY <2>1, <2>3, <2>4 DEF DeletedGone, DeletedStayAway, OfRequest
  <1>10. CASE PushMessage
    <2>1. /\ lastId' = lastId + 1 /\ stored' = stored \cup {lastId + 1}
          /\ UNCHANGED <<requests, loadSeq, messages, confirmed, revived>>
      BY <1>10 DEF PushMessage, list, history
    <2>2. \A r \in requests : OfRequest(r)'
      BY <1>b, <2>1 DEF DeletedGone, OfRequest
    <2> QED
      BY <1>c, <2>1, <2>2 DEF DeletedGone, DeletedStayAway
  <1>11. CASE Unmount
    BY <1>a, <1>11 DEF Unmount, DeletedGone, DeletedStayAway, server, history
  <1>12. CASE Mount
    <2>1. "load" \in Kinds /\ 0 \in Nat /\ 1 \in Nat
      BY DEF Kinds, Loads
    <2>2. /\ Request("load", 0, 1, 0) \in Requests /\ Request("load", 0, 1, 0).answer.rows = << >>
          /\ Request("load", 0, 1, 0).kind = "load" /\ Request("load", 0, 1, 0).seq = 1
      BY <2>1, NewRequest
    <2>3. PICK m : m.answer.rows = << >> /\ m.kind = "load" /\ m.seq = 1 /\ requests' = {m}
      BY <1>12, <2>2 DEF Mount, Requests
    <2>4. /\ loadSeq' = 1 /\ messages' = << >>
          /\ UNCHANGED <<stored, lastId, confirmed, revived>>
      BY <1>12 DEF Mount, server, history
    <2>5. OfRequest(m)'
      BY <1>a, <2>3, <2>4 DEF OfRequest
    <2> QED
      BY <1>a, <2>3, <2>4, <2>5 DEF DeletedGone, DeletedStayAway
  <1>13. CASE LoseEvent \/ EndCoolDown \/ OnError \/ ConnectEventSource \/ UNCHANGED vars
    BY <1>1, <1>13 DEF LoseEvent, EndCoolDown, OnError, ConnectEventSource, vars, list, server
  <1> QED
    BY <1>2, <1>3, <1>4, <1>5, <1>6, <1>7, <1>8, <1>9, <1>10, <1>11, <1>12, <1>13 DEF Next, Sends

----------------------------------------------------------------------------
(* The theorems. *)

\* The page, before it is entered, satisfies the invariant.
LEMMA ListInit == Init => ListInv
  <1> SUFFICES ASSUME Init PROVE ListInv
    OBVIOUS
  <1>1. ToSet(<< >>) = {} /\ Different(<< >>) /\ << >> \in Seq(Ids)
    BY DEF ToSet, Different
  <1>2. activePage \in Nat \ {0}
    BY DEF Init
  <1>3. messages \in Seq(Ids)
    BY <1>1 DEF Init
  <1>a. /\ lastId \in 0 .. MaxId /\ stored = 1 .. lastId /\ events = {} /\ requests = {}
        /\ loading = FALSE /\ searching = FALSE /\ rateLimited = FALSE /\ retryTimer = FALSE /\ closed = TRUE
        /\ confirmed = {} /\ revived = {}
    BY DEF Init
  <1>b. sent \in 0 .. MaxRequests /\ loadSeq \in 0 .. sent /\ sources \in Nat
    BY BoundsAssumption DEF Init
  <1>4. TypeOK
    BY <1>2, <1>3, <1>a, <1>b DEF TypeOK
  <1>5. OneStream
    BY DEF Init, OneStream
  <1>6. Awaited /\ RowsDiffer /\ DeletedGone
    BY <1>1 DEF Init, Awaited, RowsDiffer, DeletedGone, DeletedStayAway
  <1> QED
    BY <1>4, <1>5, <1>6 DEF ListInv

\* The invariant is inductive.
THEOREM ListCorrect == Spec => []ListInv
  <1>1. ListInv /\ [Next]_vars => ListInv'
    BY TypeNext, EventStreamNext, AwaitedNext, RowsNext, DeletedNext DEF ListInv
  <1> QED
    BY <1>1, ListInit, PTL DEF Spec

\* For every size of a page and every number of messages and requests, no
\* message has two rows, whatever answers and stream events overlap.
THEOREM NeverDuplicates == Spec => []NoDuplicates
  <1>1. ListInv => NoDuplicates
    BY DEF ListInv, RowsDiffer, Different, NoDuplicates
  <1> QED
    BY <1>1, ListCorrect, PTL

\* A message whose deletion was confirmed is not brought back by a load.
THEOREM DeletedAlwaysStayAway == Spec => []DeletedStayAway
  <1>1. ListInv => DeletedStayAway
    BY DEF ListInv, DeletedGone
  <1> QED
    BY <1>1, ListCorrect, PTL

\* A list without a request under way does not show that it is loading.
THEOREM LoadingAlwaysEnds == Spec => []LoadingEnds
  <1>1. ListInv => LoadingEnds
    BY DEF ListInv, Awaited, LoadingEnds, TypeOK
  <1> QED
    BY <1>1, ListCorrect, PTL

\* The page has at most one stream or timer for one, and none once it was left.
THEOREM AlwaysOneStream == Spec => []OneStream
  <1>1. ListInv => OneStream
    BY DEF ListInv
  <1> QED
    BY <1>1, ListCorrect, PTL

----------------------------------------------------------------------------
(* The other end of the stream of the page: MessageStream, for any users,   *)
(* pages, messages and size of a buffer.                                    *)

\* The initial state has the right types.
LEMMA StreamTypeInit == StreamInit => StreamTypeOK
BY BufferSizeAssumption DEF StreamInit, StreamTypeOK, PagePCs

\* GetNewMessages keeps the types; a receive shortens the buffer.
LEMMA StreamTypePage ==
    ASSUME StreamTypeOK, NEW p \in Pages, PageOpens(p) \/ PageStep(p) \/ Leave(p)
    PROVE  StreamTypeOK'
<1> USE PageUserAssumption DEF StreamTypeOK, PagePCs, pageVars, chanVars, syncVars
<1>1. CASE PageOpens(p) \/ Leave(p)
  BY <1>1 DEF PageOpens, Leave
<1>2. CASE AddLocks(p) \/ RemoveLocks(p)
  BY <1>2 DEF AddLocks, RemoveLocks, Announce
<1>3. CASE ChanAdd(p)
  BY <1>3 DEF ChanAdd
<1>3a. CASE ChanRemove(p)
  BY <1>3a DEF ChanRemove
<1>4. CASE StreamChecks(p) \/ PageCloses(p)
  BY <1>4 DEF StreamChecks, PageCloses
<1>5. CASE StreamReceives(p)
  <2>1. /\ Tail(buffer[p]) \in Seq(Messages)
        /\ Len(Tail(buffer[p])) <= BufferSize
        /\ Head(buffer[p]) \in Messages
    BY <1>5, BufferSizeAssumption DEF StreamReceives
  <2>2. /\ buffer' \in [Pages -> Seq(Messages)]
        /\ \A q \in Pages : Len(buffer'[q]) <= BufferSize
    BY <1>5, <2>1 DEF StreamReceives
  <2>3. received' \in [Pages -> SUBSET Messages]
    BY <1>5, <2>1 DEF StreamReceives
  <2> QED
    BY <1>5, <2>2, <2>3 DEF StreamReceives
<1> QED
  BY <1>1, <1>2, <1>3, <1>3a, <1>4, <1>5 DEF PageStep

\* syncMessageToUser keeps the types; the buffer never exceeds its capacity.
LEMMA StreamTypeSync ==
    ASSUME StreamTypeOK, NEW m \in Messages, SyncStarts(m) \/ SyncStep(m)
    PROVE  StreamTypeOK'
<1> USE MessageUserAssumption DEF StreamTypeOK, pageVars, chanVars, syncVars
<1>1. CASE SyncStarts(m)
  BY <1>1 DEF SyncStarts
<1>2. CASE SyncLooksUp(m)
  BY <1>2 DEF SyncLooksUp
<1>3. CASE SyncSends(m)
  <2>1. target[m] \in Pages
    BY <1>3 DEF SyncSends
  <2>2. /\ Append(buffer[target[m]], m) \in Seq(Messages)
        /\ Len(Append(buffer[target[m]], m)) <= BufferSize
    BY <1>3, <2>1, BufferSizeAssumption DEF SyncSends
  <2>3. /\ buffer' \in [Pages -> Seq(Messages)]
        /\ \A q \in Pages : Len(buffer'[q]) <= BufferSize
    BY <1>3, <2>1, <2>2 DEF SyncSends
  <2> QED
    BY <1>3, <2>3 DEF SyncSends
<1> QED
  BY <1>1, <1>2, <1>3 DEF SyncStep

LEMMA StreamTypeNext == StreamTypeOK /\ [StreamNext]_streamVars => StreamTypeOK'
<1> SUFFICES ASSUME StreamTypeOK, [StreamNext]_streamVars PROVE StreamTypeOK'
  OBVIOUS
<1>1. CASE UNCHANGED streamVars
  BY <1>1 DEF StreamTypeOK, streamVars, pageVars, chanVars, syncVars
<1> QED
  BY <1>1, StreamTypePage, StreamTypeSync DEF StreamNext

\* Every reachable state is well typed, and no buffer exceeds its capacity.
THEOREM StreamTypeCorrect == StreamSpec => []StreamTypeOK
<1>1. StreamInit => StreamTypeOK
  BY StreamTypeInit
<1>2. StreamTypeOK /\ [StreamNext]_streamVars => StreamTypeOK'
  BY StreamTypeNext
<1> QED
  BY <1>1, <1>2, PTL DEF StreamSpec

\* GetNewMessages keeps the store in step with the pages: the write lock is
\* taken only when nobody sends, and a page leaves the store before it closes
\* its channel.
LEMMA StoredPage ==
    ASSUME StreamTypeOK, StoredIsStreaming, NEW p \in Pages,
           PageOpens(p) \/ PageStep(p) \/ Leave(p)
    PROVE  StoredIsStreaming'
<1> USE PageUserAssumption, MessageUserAssumption, NoneAssumption
    DEF StreamTypeOK, StoredIsStreaming, Streaming, pageVars, chanVars, syncVars
<1>1. CASE PageOpens(p)
  BY <1>1 DEF PageOpens
<1>1a. CASE Leave(p)
  BY <1>1a DEF Leave
<1>2. CASE AddLocks(p)
  BY <1>2 DEF AddLocks, Announce
<1>2a. CASE RemoveLocks(p)
  BY <1>2a DEF RemoveLocks, Announce
<1>3. CASE ChanAdd(p)
  BY <1>3 DEF ChanAdd, NoReaders
<1>4. CASE ChanRemove(p)
  BY <1>4 DEF ChanRemove, NoReaders
<1>5. CASE StreamChecks(p)
  BY <1>5 DEF StreamChecks
<1>5a. CASE StreamReceives(p)
  BY <1>5a DEF StreamReceives
<1>6. CASE PageCloses(p)
  BY <1>6 DEF PageCloses
<1> QED
  BY <1>1, <1>1a, <1>2, <1>2a, <1>3, <1>4, <1>5, <1>5a, <1>6 DEF PageStep

\* syncMessageToUser sends only on a channel that it found in the store.
LEMMA StoredSync ==
    ASSUME StreamTypeOK, StoredIsStreaming, NEW m \in Messages,
           SyncStarts(m) \/ SyncStep(m)
    PROVE  StoredIsStreaming'
BY MessageUserAssumption, NoneAssumption
   DEF StreamTypeOK, StoredIsStreaming, pageVars, chanVars, syncVars, SyncStep,
       SyncStarts, SyncLooksUp, SyncSends

\* The store and every sender only ever name pages that are still streaming.
THEOREM StoreCorrect == StreamSpec => [](StreamTypeOK /\ StoredIsStreaming)
<1>1. StreamInit => StreamTypeOK /\ StoredIsStreaming
  BY StreamTypeInit DEF StreamInit, StoredIsStreaming
<1>2. StreamTypeOK /\ StoredIsStreaming /\ [StreamNext]_streamVars => (StreamTypeOK /\ StoredIsStreaming)'
  <2> SUFFICES ASSUME StreamTypeOK, StoredIsStreaming, [StreamNext]_streamVars
               PROVE  StoredIsStreaming'
    BY StreamTypeNext
  <2>1. CASE UNCHANGED streamVars
    BY <2>1 DEF StoredIsStreaming, streamVars, pageVars, chanVars, syncVars
  <2> QED
    BY <2>1, StoredPage, StoredSync DEF StreamNext
<1> QED
  BY <1>1, <1>2, PTL DEF StreamSpec

\* syncMessageToUser never sends on a closed channel: the server does not
\* panic, however pages come, replace each other and go.
THEOREM NeverSendsOnClosed == StreamSpec => []NoSendOnClosed
<1>1. StreamTypeOK /\ StoredIsStreaming => NoSendOnClosed
  BY DEF StreamTypeOK, StoredIsStreaming, Streaming, NoSendOnClosed
<1> QED
  BY <1>1, StoreCorrect, PTL
=============================================================================
