------------------------- MODULE ImageReleaseProofs -------------------------
(***************************************************************************)
(* Theorems about ImageRelease, for any number of runs, variants and       *)
(* registries, any tags and any number of failures; and, in the second     *)
(* part, about the jobs of one run (ImageJob).                             *)
(***************************************************************************)
EXTENDS ImageRelease, ImageJob, Integers, TLAPS

(***************************************************************************)
(* The plan of a run lists every variant on every base.                    *)
(***************************************************************************)

\* Quotient and remainder of a number below a product.
LEMMA DivRange ==
    ASSUME NEW m \in Nat, NEW n \in Nat \ {0}, NEW a \in 0 .. (m * n - 1)
    PROVE  a \div n \in 0 .. (m - 1) /\ a % n \in 0 .. (n - 1)
<1> DEFINE q == a \div n
<1>1. a = n * q + (a % n) /\ a % n \in 0 .. (n - 1) /\ q \in Int
  BY SMT
<1>2. q >= 0
  BY SMT
<1>3. q < m
  <2> SUFFICES ASSUME q >= m PROVE FALSE
    BY <1>1
  <2>1. n * q >= n * m
    BY <1>1
  <2> QED
    BY <1>1, <2>1
<1> QED
  BY <1>1, <1>2, <1>3

\* The quotient and the remainder give back what a number was made of.
LEMMA DivOf ==
    ASSUME NEW p \in Nat, NEW i \in Nat, NEW n \in Nat \ {0}, i < n
    PROVE  (p * n + i) \div n = p /\ (p * n + i) % n = i
<1> DEFINE a == p * n + i
           q == a \div n
<1>0. a \in Nat
  BY SMT
<1>1. a = n * q + (a % n) /\ a % n \in 0 .. (n - 1) /\ q \in Int
  BY <1>0, SMT
<1>2. q = p
  <2>1. CASE q > p
    <3>1. n * q >= n * (p + 1)
      BY <1>1, <2>1
    <3> QED
      BY <1>1, <3>1
  <2>2. CASE q < p
    <3>1. n * (q + 1) <= n * p
      BY <1>1, <2>2
    <3> QED
      BY <1>1, <3>1
  <2> QED
    BY <1>1, <2>1, <2>2
<1> QED
  BY <1>1, <1>2

\* The settings of a run are not empty.
LEMMA PlanTypes ==
    ASSUME NEW r \in Runs
    PROVE  /\ Len(Selection[r]) \in Nat \ {0} /\ DOMAIN Selection[r] = 1 .. Len(Selection[r])
           /\ Len(BaseSeq) \in Nat \ {0} /\ DOMAIN BaseSeq = 1 .. Len(BaseSeq)
           /\ \A p \in DOMAIN Selection[r] : Selection[r][p] \in Variants
           /\ \A i \in DOMAIN BaseSeq : BaseSeq[i] \in Bases
<1>1. /\ Selection[r] \in Seq(Variants) /\ Selection[r] # <<>>
      /\ BaseSeq \in Seq(Bases) /\ BaseSeq # <<>>
  BY PlanAssumption, Zenon
<1> QED
  BY <1>1

PlanEntries == [variant : Variants, base : Bases]

\* Every entry of publishPlan is a variant of the run on one of the bases.
LEMMA PlanEntry ==
    ASSUME NEW r \in Runs, NEW k \in DOMAIN PublishPlan(r)
    PROVE  /\ PublishPlan(r)[k] \in PlanEntries
           /\ \E p \in DOMAIN Selection[r] : PublishPlan(r)[k].variant = Selection[r][p]
           /\ \E i \in DOMAIN BaseSeq : PublishPlan(r)[k].base = BaseSeq[i]
<1> DEFINE m == Len(Selection[r])
           n == Len(BaseSeq)
           p == ((k - 1) \div n) + 1
           i == ((k - 1) % n) + 1
<1>1. m \in Nat \ {0} /\ n \in Nat \ {0}
  BY PlanTypes
<1>2. k \in 1 .. (m * n) /\ PublishPlan(r)[k] = [variant |-> Selection[r][p], base |-> BaseSeq[i]]
  BY DEF PublishPlan, PublishPlans
<1>3. m * n \in Nat
  BY <1>1
<1> HIDE DEF m, n
<1>4. k - 1 \in 0 .. (m * n - 1)
  BY <1>2, <1>3
<1>5. p \in 1 .. m /\ i \in 1 .. n
  <2>1. (k - 1) \div n \in 0 .. (m - 1) /\ (k - 1) % n \in 0 .. (n - 1)
    BY <1>1, <1>4, DivRange
  <2> QED
    BY <1>1, <2>1
<1> HIDE DEF p, i
<1>6. /\ p \in DOMAIN Selection[r] /\ i \in DOMAIN BaseSeq
      /\ Selection[r][p] \in Variants /\ BaseSeq[i] \in Bases
  BY <1>5, PlanTypes DEF m, n
<1> QED
  BY <1>2, <1>6 DEF PlanEntries

\* publishPlan has an entry for every variant of the run and every base.
LEMMA PlanComplete ==
    ASSUME NEW r \in Runs, NEW p \in DOMAIN Selection[r], NEW i \in DOMAIN BaseSeq
    PROVE  \E k \in DOMAIN PublishPlan(r) :
             PublishPlan(r)[k] = [variant |-> Selection[r][p], base |-> BaseSeq[i]]
<1> DEFINE m == Len(Selection[r])
           n == Len(BaseSeq)
           k == ((p - 1) * n + (i - 1)) + 1
<1>1. m \in Nat \ {0} /\ n \in Nat \ {0} /\ p \in 1 .. m /\ i \in 1 .. n
  BY PlanTypes
<1>a. DOMAIN PublishPlan(r) = 1 .. (m * n)
  BY DEF PublishPlan, PublishPlans
<1>b. \A x \in 1 .. (m * n) : PublishPlan(r)[x] =
         [variant |-> Selection[r][((x - 1) \div n) + 1], base |-> BaseSeq[((x - 1) % n) + 1]]
  BY DEF PublishPlan, PublishPlans
<1> HIDE DEF m, n
<1>2. p - 1 \in Nat /\ i - 1 \in Nat /\ i - 1 < n
  BY <1>1
<1>3. (p - 1) * n + n <= m * n /\ (p - 1) * n \in Nat /\ m * n \in Nat
  <2>1. p * n <= m * n
    BY <1>1
  <2> QED
    BY <1>1, <2>1
<1>4. k \in 1 .. (m * n)
  BY <1>1, <1>2, <1>3
<1>5. ((p - 1) * n + (i - 1)) \div n = p - 1 /\ ((p - 1) * n + (i - 1)) % n = i - 1
  BY <1>1, <1>2, DivOf
<1>6. k - 1 = (p - 1) * n + (i - 1)
  BY <1>1, <1>2, <1>3
<1>7. ((k - 1) \div n) + 1 = p /\ ((k - 1) % n) + 1 = i
  BY <1>1, <1>5, <1>6
<1> HIDE DEF k
<1> QED
  BY <1>4, <1>7, <1>a, <1>b

(***************************************************************************)
(* The registries: what staging tags and final tags name.                  *)
(***************************************************************************)

StagingRefs == {StagingRef(r, v, b) : r \in Runs, v \in Variants, b \in Bases}

\* Where a run is; the loop in build-push pushes within its bounds.
PhaseOK ==
    /\ phase \in [Runs -> Phases]
    /\ pos \in [Runs -> Nat \ {0}]
    /\ \A r \in Runs : phase[r] = "push" => pos[r] \in DOMAIN Selection[r]

TypeOK ==
    /\ PhaseOK
    /\ force \in [Runs -> BOOLEAN]
    /\ missing \in [Runs -> SUBSET StagingRefs]
    /\ results \in [Runs -> SUBSET PlanEntries]
    /\ DOMAIN staged \subseteq StagingRefs
    /\ DOMAIN final = Bases /\ final = [b \in Bases |-> final[b]]
    /\ DOMAIN mover = Bases /\ mover = [b \in Bases |-> mover[b]]
    /\ overlapped \in BOOLEAN
    /\ faults \in Nat

\* A staging tag names an image of the version, the commit and the variant it
\* spells, whichever runs have pushed to it.
StagedMatches == \A ref \in DOMAIN staged : staged[ref] = ref.tag

\* The first part of FinalFromOwnSource, with the run that moved the tag.
FinalMatches ==
    \A b \in Bases :
      /\ DOMAIN mover[b] = DOMAIN final[b]
      /\ \A t \in DOMAIN final[b] :
           /\ mover[b][t] \in Runs
           /\ \E v \in Variants : t \in TagsOf[mover[b][t], v] /\ final[b][t] = Content(mover[b][t], v)

\* The final tags f hold those of the entries before n of a run's plan.
TaggedUpTo(f, r, n) ==
    \A k \in DOMAIN PublishPlan(r) :
      k < n => TagsOf[r, PublishPlan(r)[k].variant] \subseteq DOMAIN f[PublishPlan(r)[k].base]

\* The second part of FinalFromOwnSource, from the first promotion on.
PublishedInOrder ==
    \A r \in Runs \ DryRun :
      /\ phase[r] = "promote" => TaggedUpTo(final, r, pos[r])
      /\ phase[r] = "done" => TaggedUpTo(final, r, Len(Selection[r]) * Len(BaseSeq) + 1)

\* The staging refs of a selected variant are refs the registries can have.
LEMMA RefsOfVariant ==
    ASSUME NEW r \in Runs, NEW p \in 1 .. Len(Selection[r])
    PROVE  StagingRefsFor(r, Selection[r][p]) \subseteq StagingRefs
<1>1. Selection[r][p] \in Variants /\ \A i \in DOMAIN BaseSeq : BaseSeq[i] \in Bases
  BY PlanTypes
<1> QED
  BY <1>1 DEF StagingRefsFor, StagingRefs

\* A push leaves every staging tag with the image it spells.
LEMMA PushMatches ==
    ASSUME StagedMatches, DOMAIN staged \subseteq StagingRefs,
           NEW r \in Runs, NEW p \in 1 .. Len(Selection[r]),
           NEW refs \in SUBSET StagingRefsFor(r, Selection[r][p]),
           Pushed(r, Selection[r][p], refs)
    PROVE  /\ StagedMatches' /\ DOMAIN staged' \subseteq StagingRefs
           /\ DOMAIN staged' = DOMAIN staged \cup refs
<1>1. DOMAIN staged' = DOMAIN staged \cup refs
  BY DEF Pushed
<1>2. DOMAIN staged' \subseteq StagingRefs
  BY <1>1, RefsOfVariant
<1>3. ASSUME NEW ref \in DOMAIN staged' PROVE staged'[ref] = ref.tag
  <2>1. CASE ref \in refs
    <3>1. staged'[ref] = Content(r, Selection[r][p])
      BY <1>1, <2>1 DEF Pushed
    <3>2. PICK i \in DOMAIN BaseSeq : ref = StagingRef(r, Selection[r][p], BaseSeq[i])
      BY <2>1 DEF StagingRefsFor
    <3>3. ref.tag = StagingTagName(r, Selection[r][p])
      BY <3>2 DEF StagingRef
    <3> QED
      BY <3>1, <3>3 DEF Content, StagingTagName
  <2>2. CASE ref \notin refs
    <3>1. ref \in DOMAIN staged /\ staged'[ref] = staged[ref]
      BY <1>1, <2>2 DEF Pushed
    <3> QED
      BY <3>1 DEF StagedMatches
  <2> QED
    BY <2>1, <2>2
<1> QED
  BY <1>1, <1>2, <1>3 DEF StagedMatches

\* A promotion moves tags of the run's variant to the image of that variant,
\* and removes none.
LEMMA MoveMatches ==
    ASSUME TypeOK, FinalMatches, NEW r \in Runs, NEW v \in Variants, NEW b \in Bases,
           NEW tags \in SUBSET TagsOf[r, v], Moves(r, b, tags, Content(r, v))
    PROVE  /\ FinalMatches'
           /\ DOMAIN final' = Bases /\ final' = [c \in Bases |-> final'[c]]
           /\ DOMAIN mover' = Bases /\ mover' = [c \in Bases |-> mover'[c]]
           /\ \A c \in Bases : DOMAIN final[c] \subseteq DOMAIN final'[c]
           /\ tags \subseteq DOMAIN final'[b]
<1>1. /\ final' = [final EXCEPT ![b] = Tagged(final[b], tags, Content(r, v))]
      /\ mover' = [mover EXCEPT ![b] = Tagged(mover[b], tags, r)]
  BY DEF Moves
<1>2. /\ DOMAIN final = Bases /\ DOMAIN mover = Bases
  BY DEF TypeOK
<1>3. /\ DOMAIN final' = Bases /\ final' = [c \in Bases |-> final'[c]]
      /\ DOMAIN mover' = Bases /\ mover' = [c \in Bases |-> mover'[c]]
  BY <1>1, <1>2
<1>4. \A c \in Bases \ {b} : final'[c] = final[c] /\ mover'[c] = mover[c]
  BY <1>1, <1>2
<1>5. /\ final'[b] = Tagged(final[b], tags, Content(r, v))
      /\ mover'[b] = Tagged(mover[b], tags, r)
  BY <1>1, <1>2
<1>6. /\ DOMAIN final'[b] = DOMAIN final[b] \cup tags
      /\ DOMAIN mover'[b] = DOMAIN mover[b] \cup tags
      /\ \A t \in DOMAIN final[b] \cup tags :
           final'[b][t] = IF t \in tags THEN Content(r, v) ELSE final[b][t]
      /\ \A t \in DOMAIN mover[b] \cup tags :
           mover'[b][t] = IF t \in tags THEN r ELSE mover[b][t]
  BY <1>5 DEF Tagged
<1>7. \A c \in Bases : DOMAIN mover[c] = DOMAIN final[c]
  BY DEF FinalMatches
<1>8. ASSUME NEW c \in Bases, NEW t \in DOMAIN final'[c]
      PROVE  /\ mover'[c][t] \in Runs
             /\ \E w \in Variants : t \in TagsOf[mover'[c][t], w] /\ final'[c][t] = Content(mover'[c][t], w)
  <2>1. CASE c = b /\ t \in tags
    <3>1. mover'[c][t] = r /\ final'[c][t] = Content(r, v) /\ t \in TagsOf[r, v]
      BY <1>6, <2>1
    <3> QED
      BY <3>1
  <2>2. CASE ~(c = b /\ t \in tags)
    <3>1. t \in DOMAIN final[c] /\ mover'[c][t] = mover[c][t] /\ final'[c][t] = final[c][t]
      BY <1>4, <1>6, <1>7, <1>8, <2>2
    <3> QED
      BY <3>1 DEF FinalMatches
  <2> QED
    BY <2>1, <2>2
<1>9. \A c \in Bases : DOMAIN mover'[c] = DOMAIN final'[c]
  BY <1>4, <1>6, <1>7
<1> QED
  BY <1>3, <1>4, <1>6, <1>8, <1>9 DEF FinalMatches

\* What a staging tag of r's variant v names is the image of r and v.
LEMMA StagedContent ==
    ASSUME StagedMatches, NEW r, NEW v, NEW b, RefExists(StagingRef(r, v, b))
    PROVE  staged[StagingRef(r, v, b)] = Content(r, v)
<1>1. staged[StagingRef(r, v, b)] = StagingRef(r, v, b).tag
  BY DEF StagedMatches, RefExists
<1>2. StagingRef(r, v, b).tag = StagingTagName(r, v)
  BY DEF StagingRef
<1> QED
  BY <1>1, <1>2 DEF StagingTagName, Content

\* What a promotion does to the registries: nothing, or tags of the entry it
\* is at move to the image of that entry; without a failure, all of them.
LEMMA PromoteMoves ==
    ASSUME TypeOK, StagedMatches, NEW r \in Runs, Promote(r)
    PROVE  LET e == PublishPlan(r)[pos[r]]
           IN  \/ /\ UNCHANGED <<final, mover, results>>
                  /\ phase' = [phase EXCEPT ![r] = "failed publish"]
                  /\ pos' = [pos EXCEPT ![r] = 1]
                  /\ faults' = faults
               \/ /\ <<Content(r, e.variant), e.base>> \in Available
                  /\ \/ /\ Moves(r, e.base, TagsOf[r, e.variant], Content(r, e.variant))
                        /\ phase' = [phase EXCEPT ![r] = "promote"]
                        /\ pos' = [pos EXCEPT ![r] = pos[r] + 1]
                        /\ results' = [results EXCEPT ![r] = results[r] \cup {e}]
                        /\ faults' = faults
                     \/ /\ \E tags \in SUBSET TagsOf[r, e.variant] :
                             Moves(r, e.base, tags, Content(r, e.variant))
                        /\ phase' = [phase EXCEPT ![r] = "failed publish"]
                        /\ pos' = [pos EXCEPT ![r] = 1]
                        /\ results' = results
                        /\ faults' = faults + 1
<1> DEFINE e == PublishPlan(r)[pos[r]]
           ref == StagingRef(r, e.variant, e.base)
<1>1. CASE ~RefExists(ref)
  BY <1>1 DEF Promote, PromotionFailed, Goto
<1>2. CASE RefExists(ref)
  <2>1. staged[ref] = Content(r, e.variant)
    BY <1>2, StagedContent
  <2>2. ref.base = e.base /\ ref \in DOMAIN staged
    BY <1>2 DEF StagingRef, RefExists
  <2>3. <<Content(r, e.variant), e.base>> \in Available
    BY <2>1, <2>2 DEF Available
  <2>4. \/ /\ Moves(r, e.base, TagsOf[r, e.variant], staged[ref])
           /\ results' = [results EXCEPT ![r] = results[r] \cup {e}]
           /\ Goto(r, "promote", pos[r] + 1)
           /\ faults' = faults
        \/ /\ Fault
           /\ \E tags \in SUBSET TagsOf[r, e.variant] : Moves(r, e.base, tags, staged[ref])
           /\ PromotionFailed(r)
           /\ results' = results
    BY <1>2 DEF Promote
  <2> QED
    BY <2>1, <2>3, <2>4 DEF PromotionFailed, Goto, Fault
<1> QED
  BY <1>1, <1>2

\* The entries before the next place are those before this place and this one.
LEMMA BeforeNext ==
    ASSUME TypeOK, NEW r \in Runs
    PROVE  \A k \in DOMAIN PublishPlan(r) : k < pos[r] + 1 <=> k < pos[r] \/ k = pos[r]
<1>1. DOMAIN PublishPlan(r) \subseteq Int /\ pos[r] \in Nat
  BY DEF PublishPlan, PublishPlans, TypeOK, PhaseOK
<1> QED
  BY <1>1

\* A run that goes on, to a place in range, stays well placed.
LEMMA PhaseGoto ==
    ASSUME PhaseOK, NEW r \in Runs, NEW p \in Phases, NEW n \in Nat \ {0},
           p = "push" => n \in DOMAIN Selection[r], Goto(r, p, n)
    PROVE  PhaseOK'
<1>1. phase' = [phase EXCEPT ![r] = p] /\ pos' = [pos EXCEPT ![r] = n]
  BY DEF Goto
<1>2. phase' \in [Runs -> Phases] /\ pos' \in [Runs -> Nat \ {0}]
  BY <1>1 DEF PhaseOK
<1>3. \A q \in Runs : phase'[q] = "push" => pos'[q] \in DOMAIN Selection[q]
  BY <1>1 DEF PhaseOK
<1> QED
  BY <1>2, <1>3 DEF PhaseOK

\* Every step of a run keeps the types.
LEMMA TypeRun ==
    ASSUME TypeOK, StagedMatches, FinalMatches, NEW r \in Runs, RunNext(r)
    PROVE  TypeOK'
<1>0. pos[r] \in Nat \ {0} /\ pos[r] + 1 \in Nat \ {0} /\ 1 \in Nat \ {0}
  BY DEF TypeOK, PhaseOK
<1>f. Fault \/ faults' = faults => faults' \in Nat
  <2>1. faults \in Nat
    BY DEF TypeOK
  <2> QED
    BY <2>1 DEF Fault
<1>1. CASE StartBuild(r) \/ SkipBuild(r) \/ BuildsDone(r)
  <2>1. PhaseOK'
    BY <1>0, <1>1, PhaseGoto DEF TypeOK, StartBuild, SkipBuild, BuildsDone, Phases
  <2> QED
    BY <1>1, <2>1 DEF TypeOK, StartBuild, SkipBuild, BuildsDone
<1>2. CASE BuildOneVariant(r)
  <2>1. pos[r] \in DOMAIN Selection[r]
    BY <1>0, <1>2, PlanTypes DEF BuildOneVariant
  <2>2. PhaseOK'
    BY <1>0, <1>2, <2>1, PhaseGoto DEF TypeOK, BuildOneVariant, Phases
  <2> QED
    BY <1>2, <2>2 DEF TypeOK, BuildOneVariant
<1>3. CASE PushStaging(r)
  <2> DEFINE v == Selection[r][pos[r]]
  <2>1. pos[r] \in 1 .. Len(Selection[r])
    BY <1>3, PlanTypes DEF TypeOK, PhaseOK, PushStaging
  <2>2. PICK refs \in SUBSET StagingRefsFor(r, v) : Pushed(r, v, refs)
    BY <1>3 DEF PushStaging
  <2>3. DOMAIN staged' \subseteq StagingRefs
    BY <2>1, <2>2, PushMatches DEF TypeOK
  <2>4. Goto(r, "build", pos[r] + 1) \/ Goto(r, "failed build", 1)
    BY <1>3 DEF PushStaging
  <2>5. PhaseOK'
    BY <1>0, <2>4, PhaseGoto DEF TypeOK, Phases
  <2>6. faults' \in Nat
    BY <1>3, <1>f DEF PushStaging
  <2> QED
    BY <2>2, <2>3, <2>5, <2>6 DEF TypeOK, Pushed
<1>4. CASE StartPublish(r) \/ MissingStaging(r) \/ PublishDone(r)
  <2>1. PhaseOK'
    BY <1>0, <1>4, PhaseGoto
       DEF TypeOK, StartPublish, MissingStaging, Verified, PublishDone, Phases
  <2> QED
    BY <1>4, <2>1 DEF TypeOK, StartPublish, MissingStaging, PublishDone
<1>5. CASE CheckStaging(r)
  <2> DEFINE e == PublishPlan(r)[pos[r]]
             ref == StagingRef(r, e.variant, e.base)
  <2>1. e.variant \in Variants /\ e.base \in Bases
    BY <1>5, PlanEntry DEF CheckStaging, PlanEntries
  <2>2. ref \in StagingRefs
    BY <2>1 DEF StagingRefs
  <2>3. missing' \in [Runs -> SUBSET StagingRefs]
    BY <1>5, <2>2 DEF TypeOK, CheckStaging
  <2>4. PhaseOK'
    BY <1>0, <1>5, PhaseGoto DEF TypeOK, CheckStaging, Phases
  <2> QED
    BY <1>5, <2>3, <2>4 DEF TypeOK, CheckStaging
<1>6. CASE Promote(r)
  <2> DEFINE e == PublishPlan(r)[pos[r]]
  <2>1. e \in PlanEntries /\ e.variant \in Variants /\ e.base \in Bases
    BY <1>6, PlanEntry DEF Promote, PlanEntries
  <2>2. UNCHANGED <<force, missing, staged, overlapped>>
    BY <1>6 DEF Promote
  <2>3. Goto(r, "promote", pos[r] + 1) \/ Goto(r, "failed publish", 1)
    BY <1>6 DEF Promote, PromotionFailed
  <2>4. PhaseOK'
    BY <1>0, <2>3, PhaseGoto DEF TypeOK, Phases
  <2>5. results' = results \/ results' = [results EXCEPT ![r] = results[r] \cup {e}]
    BY <1>6 DEF Promote
  <2> HIDE DEF e
  <2>6. results' \in [Runs -> SUBSET PlanEntries] 
    BY <2>1, <2>5 DEF TypeOK
  <2>7. faults' \in Nat
    BY <1>6, <1>f DEF Promote
  <2>8. CASE UNCHANGED <<final, mover>>
    BY <2>2, <2>4, <2>6, <2>7, <2>8 DEF TypeOK
  <2>9. ASSUME NEW tags \in SUBSET TagsOf[r, e.variant],
               Moves(r, e.base, tags, Content(r, e.variant))
        PROVE  TypeOK'
    <3>1. /\ DOMAIN final' = Bases /\ final' = [c \in Bases |-> final'[c]]
          /\ DOMAIN mover' = Bases /\ mover' = [c \in Bases |-> mover'[c]]
      BY <2>1, <2>9, MoveMatches
    <3> QED
      BY <2>2, <2>4, <2>6, <2>7, <3>1 DEF TypeOK
  <2> QED
    BY <1>6, <2>8, <2>9, PromoteMoves DEF e
<1>7. CASE Abort(r)
  <2>1. PhaseOK'
    BY <1>0, <1>7, PhaseGoto DEF TypeOK, Abort, Phases
  <2> QED
    BY <1>7, <1>f, <2>1 DEF TypeOK, Abort
<1> QED
  BY <1>1, <1>2, <1>3, <1>4, <1>5, <1>6, <1>7 DEF RunNext

\* Every step of a run keeps what the tags name.
LEMMA MatchesRun ==
    ASSUME TypeOK, StagedMatches, FinalMatches, NEW r \in Runs, RunNext(r)
    PROVE  /\ StagedMatches' /\ FinalMatches'
           /\ \A b \in Bases : DOMAIN final[b] \subseteq DOMAIN final'[b]
<1>1. CASE PushStaging(r)
  <2> DEFINE v == Selection[r][pos[r]]
  <2>1. pos[r] \in 1 .. Len(Selection[r])
    BY <1>1, PlanTypes DEF TypeOK, PhaseOK, PushStaging
  <2>2. PICK refs \in SUBSET StagingRefsFor(r, v) : Pushed(r, v, refs)
    BY <1>1 DEF PushStaging
  <2>3. StagedMatches'
    BY <2>1, <2>2, PushMatches DEF TypeOK
  <2> QED
    BY <2>2, <2>3 DEF Pushed, FinalMatches
<1>2. CASE Promote(r)
  <2> DEFINE e == PublishPlan(r)[pos[r]]
  <2>1. e.variant \in Variants /\ e.base \in Bases
    BY <1>2, PlanEntry DEF Promote, PlanEntries
  <2>2. StagedMatches'
    BY <1>2 DEF Promote, StagedMatches
  <2>3. CASE UNCHANGED <<final, mover>>
    BY <2>2, <2>3 DEF FinalMatches
  <2> HIDE DEF e
  <2>4. ASSUME NEW tags \in SUBSET TagsOf[r, e.variant],
               Moves(r, e.base, tags, Content(r, e.variant))
        PROVE  FinalMatches' /\ \A b \in Bases : DOMAIN final[b] \subseteq DOMAIN final'[b]
    BY <2>1, <2>4, MoveMatches
  <2> QED
    BY <1>2, <2>2, <2>3, <2>4, PromoteMoves DEF e
<1>3. CASE ~PushStaging(r) /\ ~Promote(r)
  <2>1. UNCHANGED <<staged, final, mover>>
    BY <1>3 DEF RunNext, StartBuild, SkipBuild, BuildOneVariant, BuildsDone, StartPublish,
                CheckStaging, MissingStaging, PublishDone, Abort
  <2> QED
    BY <2>1 DEF StagedMatches, FinalMatches
<1> QED
  BY <1>1, <1>2, <1>3

\* Every step of a run keeps the order: a run is done only after the last
\* entry of its plan.
LEMMA PublishedRun ==
    ASSUME TypeOK, StagedMatches, FinalMatches, PublishedInOrder, NEW q \in Runs, RunNext(q)
    PROVE  PublishedInOrder'
<1> DEFINE N(r) == Len(Selection[r]) * Len(BaseSeq) + 1
<1> SUFFICES ASSUME NEW r \in Runs, r \notin DryRun
             PROVE  /\ phase'[r] = "promote" => TaggedUpTo(final', r, pos'[r])
                    /\ phase'[r] = "done" => TaggedUpTo(final', r, N(r))
  BY DEF PublishedInOrder, TaggedUpTo
<1>0. \A k \in DOMAIN PublishPlan(r) : PublishPlan(r)[k].base \in Bases
  BY PlanEntry DEF PlanEntries
<1>1. \A b \in Bases : DOMAIN final[b] \subseteq DOMAIN final'[b]
  BY MatchesRun
<1>2. \A n : TaggedUpTo(final, r, n) => TaggedUpTo(final', r, n)
  BY <1>0, <1>1 DEF TaggedUpTo
<1>3. CASE phase'[r] = phase[r] /\ pos'[r] = pos[r]
  BY <1>2, <1>3 DEF PublishedInOrder
<1>4. CASE q = r /\ Promote(r) /\ phase'[r] = "promote"
  <2> DEFINE e == PublishPlan(r)[pos[r]]
  <2>1. pos[r] \in DOMAIN PublishPlan(r) /\ phase[r] = "promote"
    BY <1>4 DEF Promote
  <2>2. e.variant \in Variants /\ e.base \in Bases
    BY <2>1, PlanEntry DEF PlanEntries
  <2>3. pos'[r] = pos[r] + 1 /\ Moves(r, e.base, TagsOf[r, e.variant], Content(r, e.variant))
    BY ZenonT(40), <1>4, PromoteMoves DEF TypeOK, PhaseOK
  <2>4. TagsOf[r, e.variant] \subseteq DOMAIN final'[e.base]
    <3> HIDE DEF e
    <3>1. ASSUME NEW v \in Variants, NEW tags \in SUBSET TagsOf[r, v], NEW b \in Bases,
                 Moves(r, b, tags, Content(r, v))
          PROVE  tags \subseteq DOMAIN final'[b]
      BY <3>1, MoveMatches
    <3> QED
      BY <2>2, <2>3, <3>1
  <2>5. TaggedUpTo(final', r, pos[r])
    BY <1>2, <2>1 DEF PublishedInOrder
  <2>6. \A k \in DOMAIN PublishPlan(r) : k < pos[r] + 1 => k < pos[r] \/ k = pos[r]
    BY BeforeNext
  <2>7. TaggedUpTo(final', r, pos[r] + 1)
    BY <2>4, <2>5, <2>6 DEF TaggedUpTo
  <2> QED
    BY <1>4, <2>3, <2>7
<1>5. CASE q = r /\ MissingStaging(r) /\ phase'[r] = "promote"
  <2>1. pos'[r] = 1
    BY <1>5 DEF MissingStaging, Verified, Goto, TypeOK, PhaseOK
  <2>2. \A k \in DOMAIN PublishPlan(r) : ~(k < 1)
    BY DEF PublishPlan, PublishPlans
  <2> QED
    BY <1>5, <2>1, <2>2 DEF TaggedUpTo
<1>6. CASE q = r /\ PublishDone(r)
  <2>1. phase[r] = "promote" /\ pos[r] \notin DOMAIN PublishPlan(r) /\ phase'[r] = "done"
    BY <1>6 DEF PublishDone, Goto, TypeOK, PhaseOK
  <2>2. DOMAIN PublishPlan(r) = 1 .. (Len(Selection[r]) * Len(BaseSeq))
    BY DEF PublishPlan, PublishPlans
  <2>3. \A k \in DOMAIN PublishPlan(r) : k < pos[r]
    <3>1. Len(Selection[r]) * Len(BaseSeq) \in Nat /\ pos[r] \in Nat \ {0}
      BY PlanTypes DEF TypeOK, PhaseOK
    <3> QED
      BY <2>1, <2>2, <3>1
  <2>4. TaggedUpTo(final', r, pos[r])
    BY <1>2, <2>1 DEF PublishedInOrder
  <2> QED
    BY <2>1, <2>3, <2>4 DEF TaggedUpTo
<1>7. /\ phase'[r] \in {"promote", "done"} =>
           \/ phase'[r] = phase[r] /\ pos'[r] = pos[r]
           \/ q = r /\ Promote(r) /\ phase'[r] = "promote"
           \/ q = r /\ MissingStaging(r) /\ phase'[r] = "promote"
           \/ q = r /\ PublishDone(r)
  <2>1. phase \in [Runs -> Phases] /\ pos \in [Runs -> Nat \ {0}]
    BY DEF TypeOK, PhaseOK
  <2>2. CASE StartBuild(q) \/ SkipBuild(q) \/ BuildOneVariant(q) \/ BuildsDone(q) \/ PushStaging(q)
    BY <2>1, <2>2 DEF StartBuild, SkipBuild, BuildOneVariant, BuildsDone, PushStaging, Goto
  <2>3. CASE StartPublish(q)
    BY <2>1, <2>3 DEF StartPublish, Goto
  <2>4. CASE CheckStaging(q) \/ Abort(q)
    BY <2>1, <2>4 DEF CheckStaging, Abort, Goto
  <2>5. CASE MissingStaging(q)
    BY <2>1, <2>5 DEF MissingStaging, Verified, Goto
  <2>6. CASE Promote(q)
    <3>1. Goto(q, "promote", pos[q] + 1) \/ Goto(q, "failed publish", 1)
      BY <2>6 DEF Promote, PromotionFailed
    <3> QED
      BY <2>1, <2>6, <3>1 DEF Goto
  <2>7. CASE PublishDone(q)
    BY <2>1, <2>7 DEF PublishDone, Goto
  <2> QED
    BY <2>2, <2>3, <2>4, <2>5, <2>6, <2>7 DEF RunNext
<1> QED
  BY <1>3, <1>4, <1>5, <1>6, <1>7

\* Removing a staging tag changes nothing else.
LEMMA MatchesDelete ==
    ASSUME TypeOK, StagedMatches, FinalMatches, PublishedInOrder, DeleteStaging
    PROVE  TypeOK' /\ StagedMatches' /\ FinalMatches' /\ PublishedInOrder'
<1>1. PICK ref \in DOMAIN staged : staged' = [s \in DOMAIN staged \ {ref} |-> staged[s]]
  BY DEF DeleteStaging
<1>2. /\ UNCHANGED <<phase, pos, force, missing, results, final, mover, overlapped>>
  BY DEF DeleteStaging, runVars
<1>3. faults' \in Nat
  <2>1. faults \in Nat
    BY DEF TypeOK
  <2> QED
    BY <2>1 DEF DeleteStaging, Fault
<1>4. TypeOK'
  BY <1>1, <1>2, <1>3 DEF TypeOK, PhaseOK
<1>5. StagedMatches'
  BY <1>1 DEF StagedMatches
<1> QED
  BY <1>2, <1>4, <1>5 DEF FinalMatches, PublishedInOrder, TaggedUpTo

\* The invariant that carries FinalFromOwnSource and the refinement.
RegistriesMatch == TypeOK /\ StagedMatches /\ FinalMatches /\ PublishedInOrder

\* The registries and the runs match at the start, when nothing is published.
LEMMA MatchInit == Init => RegistriesMatch
<1> SUFFICES ASSUME Init PROVE RegistriesMatch
  OBVIOUS
<1>1. TypeOK
  <2>1. PhaseOK
    BY DEF Init, PhaseOK, Phases
  <2>2. 0 \in Nat /\ DOMAIN << >> = {}
    OBVIOUS
  <2> QED
    BY <2>1, <2>2 DEF Init, TypeOK
<1>2. StagedMatches
  BY DEF Init, StagedMatches
<1>3. FinalMatches
  BY DEF Init, FinalMatches
<1>4. PublishedInOrder
  BY DEF Init, PublishedInOrder
<1> QED
  BY <1>1, <1>2, <1>3, <1>4 DEF RegistriesMatch

\* Every step of a run and every loss of a staging tag keeps the match.
LEMMA MatchNext == RegistriesMatch /\ [Next]_vars => RegistriesMatch'
<1> SUFFICES ASSUME RegistriesMatch, [Next]_vars PROVE RegistriesMatch'
  OBVIOUS
<1>1. ASSUME NEW r \in Runs, RunNext(r) PROVE RegistriesMatch'
  BY <1>1, TypeRun, MatchesRun, PublishedRun DEF RegistriesMatch
<1>2. CASE DeleteStaging
  BY <1>2, MatchesDelete DEF RegistriesMatch
<1>3. CASE UNCHANGED vars
  BY <1>3 DEF vars, runVars, RegistriesMatch, TypeOK, PhaseOK, StagedMatches, FinalMatches,
              PublishedInOrder, TaggedUpTo
<1> QED
  BY <1>1, <1>2, <1>3 DEF Next

\* Staging tags always name what they spell, in every reachable state.
THEOREM RegistriesAlwaysMatch == Spec => []RegistriesMatch
BY MatchInit, MatchNext, PTL DEF Spec

\* Whatever runs overlap, fail, are run again or lose staging tags, a final
\* tag names an image of the version and the commit of the run that moved it,
\* and a run is done only when all its tags exist on all bases.
THEOREM FinalAlwaysFromOwnSource == Spec => []FinalFromOwnSource
<1>1. RegistriesMatch => FinalFromOwnSource
  <2> SUFFICES ASSUME RegistriesMatch PROVE FinalFromOwnSource
    OBVIOUS
  <2>1. \A b \in Bases : \A t \in DOMAIN final[b] :
         \E v \in Variants : t \in TagsOf[mover[b][t], v] /\ final[b][t] = Content(mover[b][t], v)
    BY DEF RegistriesMatch, FinalMatches
  <2>2. ASSUME NEW r \in Runs \ DryRun, phase[r] = "done", NEW e \in Entries(r)
        PROVE  TagsOf[r, e.variant] \subseteq DOMAIN final[e.base]
    <3>1. PICK k \in DOMAIN PublishPlan(r) : e = PublishPlan(r)[k]
      BY DEF Entries
    <3>2. k < Len(Selection[r]) * Len(BaseSeq) + 1
      <4>1. k \in 1 .. (Len(Selection[r]) * Len(BaseSeq))
        BY <3>1 DEF PublishPlan, PublishPlans
      <4>2. Len(Selection[r]) * Len(BaseSeq) \in Nat
        BY PlanTypes
      <4> QED
        BY <4>1, <4>2
    <3> QED
      BY <2>2, <3>1, <3>2 DEF RegistriesMatch, PublishedInOrder, TaggedUpTo
  <2> QED
    BY <2>1, <2>2 DEF FinalFromOwnSource
<1> QED
  BY <1>1, RegistriesAlwaysMatch, PTL

(***************************************************************************)
(* The workflow implements Release.                                        *)
(***************************************************************************)

\* The images of a run's plan, as Release sees them and along publishPlan.
LEMMA PlanImages ==
    ASSUME NEW r \in Runs
    PROVE  R!Images(r) =
             {<<Content(r, PublishPlan(r)[k].variant), PublishPlan(r)[k].base>> :
                 k \in DOMAIN PublishPlan(r)}
<1>1. Images[r] = {[content |-> Content(r, e.variant), base |-> e.base, tags |-> TagsOf[r, e.variant]] :
                     e \in Entries(r)}
  BY DEF Images
<1>2. R!Images(r) = {<<image.content, image.base>> : image \in Images[r]}
  BY DEF R!Images
<1>3. Entries(r) = {PublishPlan(r)[k] : k \in DOMAIN PublishPlan(r)}
  BY DEF Entries
<1> DEFINE Pair(k) == <<Content(r, PublishPlan(r)[k].variant), PublishPlan(r)[k].base>>
<1>4. ASSUME NEW x \in R!Images(r) PROVE \E k \in DOMAIN PublishPlan(r) : x = Pair(k)
  <2>1. PICK image \in Images[r] : x = <<image.content, image.base>>
    BY <1>2
  <2>2. PICK e \in Entries(r) : image = [content |-> Content(r, e.variant), base |-> e.base,
                                         tags |-> TagsOf[r, e.variant]]
    BY <1>1
  <2>3. PICK k \in DOMAIN PublishPlan(r) : e = PublishPlan(r)[k]
    BY <1>3
  <2>4. image.content = Content(r, e.variant) /\ image.base = e.base
    BY <2>2
  <2> QED
    BY <2>1, <2>3, <2>4
<1>5. ASSUME NEW k \in DOMAIN PublishPlan(r) PROVE Pair(k) \in R!Images(r)
  <2> DEFINE e == PublishPlan(r)[k]
             image == [content |-> Content(r, e.variant), base |-> e.base,
                       tags |-> TagsOf[r, e.variant]]
  <2>1. image \in Images[r]
    BY <1>1, <1>3
  <2>2. image.content = Content(r, e.variant) /\ image.base = e.base
    OBVIOUS
  <2>3. <<image.content, image.base>> \in R!Images(r)
    BY <1>2, <2>1
  <2> HIDE DEF image
  <2> QED
    BY <2>2, <2>3
<1> QED
  BY <1>4, <1>5

\* A step of run r changes what r has seen and whether r is approved only.
LEMMA OthersKeep ==
    ASSUME NEW r \in Runs,
           \A q \in Runs \ {r} : /\ phase'[q] = phase[q] /\ pos'[q] = pos[q]
                                 /\ missing'[q] = missing[q]
    PROVE  /\ Seen' = [Seen EXCEPT ![r] = IF phase'[r] = "verify" THEN Found(r)' ELSE {}]
           /\ Approved' = IF phase'[r] = "promote" THEN Approved \cup {r} ELSE Approved \ {r}
<1>1. \A q \in Runs \ {r} : Found(q)' = Found(q)
  BY DEF Found, Content
<1>2. Seen' = [q \in Runs |-> IF phase'[q] = "verify" THEN Found(q)' ELSE {}]
  BY DEF Seen
<1>3. Seen' = [Seen EXCEPT ![r] = IF phase'[r] = "verify" THEN Found(r)' ELSE {}]
  BY <1>1, <1>2 DEF Seen
<1> QED
  BY <1>3 DEF Approved

\* A step of r that neither verifies nor promotes, before and after.
LEMMA QuietStep ==
    ASSUME TypeOK, NEW r \in Runs, NEW p \in Phases, NEW n, Goto(r, p, n),
           \A q \in Runs \ {r} : missing'[q] = missing[q],
           phase[r] \notin {"verify", "promote"}, p \notin {"verify", "promote"}
    PROVE  Seen' = Seen /\ Approved' = Approved
<1>1. /\ phase'[r] = p
      /\ \A q \in Runs \ {r} : phase'[q] = phase[q] /\ pos'[q] = pos[q]
  BY DEF Goto, TypeOK, PhaseOK
<1>2. /\ Seen' = [Seen EXCEPT ![r] = {}] /\ Approved' = Approved \ {r}
  BY <1>1, OthersKeep
<1>3. Seen[r] = {} /\ r \notin Approved
  BY DEF Seen, Approved
<1>4. Seen = [q \in Runs |-> Seen[q]]
  BY DEF Seen
<1> QED
  BY <1>2, <1>3, <1>4

\* A step of r that ends what it was doing is End of Release.
LEMMA EndStep ==
    ASSUME TypeOK, NEW r \in Runs, NEW p \in Phases, NEW n, Goto(r, p, n),
           \A q \in Runs \ {r} : missing'[q] = missing[q],
           p \notin {"verify", "promote"}, UNCHANGED <<staged, final>>
    PROVE  R!End(r)
<1>1. /\ phase'[r] = p
      /\ \A q \in Runs \ {r} : phase'[q] = phase[q] /\ pos'[q] = pos[q]
  BY DEF Goto, TypeOK, PhaseOK
<1>2. /\ Seen' = [Seen EXCEPT ![r] = {}] /\ Approved' = Approved \ {r}
  BY <1>1, OthersKeep
<1>3. Available' = Available
  BY DEF Available
<1> QED
  BY <1>2, <1>3 DEF R!End

\* A push makes images of the run's plan available: Build of Release.
LEMMA PushBuilds ==
    ASSUME RegistriesMatch, NEW r \in Runs, PushStaging(r)
    PROVE  R!Build(r)
<1> USE DEF RegistriesMatch
<1> DEFINE v == Selection[r][pos[r]]
<1>1. pos[r] \in DOMAIN Selection[r] /\ pos[r] \in 1 .. Len(Selection[r])
  BY PlanTypes DEF TypeOK, PhaseOK, PushStaging
<1>2. PICK refs \in SUBSET StagingRefsFor(r, v) : Pushed(r, v, refs)
  BY DEF PushStaging
<1> DEFINE images == {<<Content(r, v), ref.base>> : ref \in refs}
<1>3. images \in SUBSET R!Images(r)
  <2> SUFFICES ASSUME NEW ref \in refs PROVE <<Content(r, v), ref.base>> \in R!Images(r)
    OBVIOUS
  <2>1. PICK i \in DOMAIN BaseSeq : ref = StagingRef(r, v, BaseSeq[i])
    BY DEF StagingRefsFor
  <2>2. ref.base = BaseSeq[i]
    BY <2>1 DEF StagingRef
  <2>3. PICK k \in DOMAIN PublishPlan(r) : PublishPlan(r)[k] = [variant |-> v, base |-> BaseSeq[i]]
    BY <1>1, PlanComplete
  <2>4. PublishPlan(r)[k].variant = v /\ PublishPlan(r)[k].base = BaseSeq[i]
    BY <2>3
  <2>5. <<Content(r, PublishPlan(r)[k].variant), PublishPlan(r)[k].base>> \in R!Images(r)
    BY PlanImages
  <2> QED
    BY <2>2, <2>4, <2>5
<1>4. Available' = Available \cup images
  <2>1. /\ StagedMatches' /\ DOMAIN staged' = DOMAIN staged \cup refs
    BY <1>1, <1>2, PushMatches DEF TypeOK
  <2>2. \A ref \in DOMAIN staged : staged'[ref] = staged[ref]
    BY <2>1 DEF StagedMatches
  <2>3. \A ref \in refs : staged'[ref] = Content(r, v)
    BY <1>2 DEF Pushed
  <2>4. Available' = {<<staged'[ref], ref.base>> : ref \in DOMAIN staged \cup refs}
    BY <2>1 DEF Available
  <2> QED
    BY <2>2, <2>3, <2>4 DEF Available
<1>5. final' = final /\ missing' = missing
  BY <1>2 DEF Pushed
<1>6. PICK p \in {"build", "failed build"} : \E n : Goto(r, p, n)
  BY DEF PushStaging
<1>7. phase[r] = "push"
  BY DEF PushStaging
<1>8. Seen' = Seen /\ Approved' = Approved
  BY <1>5, <1>6, <1>7, QuietStep DEF Phases
<1> QED
  BY <1>3, <1>4, <1>5, <1>8 DEF R!Build

\* missingStaging finds an image that is there, See of Release, or gives up.
LEMMA CheckSees ==
    ASSUME RegistriesMatch, NEW r \in Runs, CheckStaging(r)
    PROVE  R!See(r) \/ R!End(r) \/ UNCHANGED R!vars
<1> USE DEF RegistriesMatch
<1> DEFINE e == PublishPlan(r)[pos[r]]
           ref == StagingRef(r, e.variant, e.base)
           image == <<Content(r, e.variant), e.base>>
<1>1. /\ pos[r] \in DOMAIN PublishPlan(r) /\ phase[r] = "verify" /\ phase'[r] = "verify"
      /\ pos'[r] = pos[r] + 1 /\ UNCHANGED <<staged, final>>
      /\ missing'[r] = IF RefExists(ref) THEN missing[r] ELSE missing[r] \cup {ref}
      /\ \A q \in Runs \ {r} : phase'[q] = phase[q] /\ pos'[q] = pos[q] /\ missing'[q] = missing[q]
  BY DEF CheckStaging, Goto, TypeOK, PhaseOK
<1>2. /\ Seen' = [Seen EXCEPT ![r] = Found(r)'] /\ Approved' = Approved \ {r}
  BY <1>1, OthersKeep
<1>3. r \notin Approved /\ Available' = Available /\ final' = final
  BY <1>1 DEF Approved, Available
<1>4. Approved' = Approved
  BY <1>2, <1>3
<1>5. CASE missing'[r] # {}
  <2>1. Found(r)' = {}
    BY <1>5 DEF Found
  <2> QED
    BY <1>2, <1>3, <2>1 DEF R!End
<1>6. CASE missing'[r] = {}
  <2>1. RefExists(ref) /\ missing[r] = {}
    BY <1>1, <1>6
  <2>2. image \in Available
    <3>1. staged[ref] = Content(r, e.variant)
      BY <2>1, StagedContent
    <3>2. ref.base = e.base /\ ref \in DOMAIN staged
      BY <2>1 DEF StagingRef, RefExists
    <3> QED
      BY <3>1, <3>2 DEF Available
  <2>3. image \in R!Images(r)
    BY <1>1, PlanImages
  <2>4. \A k \in DOMAIN PublishPlan(r) : k < pos[r] + 1 <=> k < pos[r] \/ k = pos[r]
    BY BeforeNext
  <2>5. Found(r)' = Found(r) \cup {image}
    <3> DEFINE Pair(k) == <<Content(r, PublishPlan(r)[k].variant), PublishPlan(r)[k].base>>
    <3>1. Found(r) = {Pair(k) : k \in {j \in DOMAIN PublishPlan(r) : j < pos[r]}}
      BY <2>1 DEF Found
    <3>2. Found(r)' = {Pair(k) : k \in {j \in DOMAIN PublishPlan(r) : j < pos[r] + 1}}
      BY <1>1, <1>6 DEF Found, Content
    <3>3. image = Pair(pos[r])
      OBVIOUS
    <3> HIDE DEF Pair, image
    <3> QED
      BY <1>1, <2>4, <3>1, <3>2, <3>3
  <2>6. Seen' = [Seen EXCEPT ![r] = Seen[r] \cup {image}]
    BY <1>1, <1>2, <2>5 DEF Seen
  <2> QED
    BY <1>3, <1>4, <2>2, <2>3, <2>6 DEF R!See
<1> QED
  BY <1>5, <1>6

\* The end of missingStaging: Approve of Release if nothing was missing, and
\* the end of the job otherwise.
LEMMA VerifiedApproves ==
    ASSUME RegistriesMatch, NEW r \in Runs, MissingStaging(r)
    PROVE  R!Approve(r) \/ R!End(r)
<1> USE DEF RegistriesMatch
<1>1. /\ phase[r] = "verify" /\ pos[r] \notin DOMAIN PublishPlan(r)
      /\ UNCHANGED <<missing, staged, final>>
  BY DEF MissingStaging
<1>2. CASE missing[r] # {}
  <2>1. Goto(r, "failed publish", 1)
    BY <1>2 DEF MissingStaging, Verified
  <2> QED
    BY <1>1, <2>1, EndStep DEF Phases
<1>3. CASE missing[r] = {}
  <2>1. Goto(r, "promote", 1)
    BY <1>3 DEF MissingStaging, Verified
  <2>2. /\ phase'[r] = "promote"
        /\ \A q \in Runs \ {r} : phase'[q] = phase[q] /\ pos'[q] = pos[q]
    BY <2>1 DEF Goto, TypeOK, PhaseOK
  <2>3. Seen' = [Seen EXCEPT ![r] = {}] /\ Approved' = Approved \cup {r}
    BY <1>1, <2>2, OthersKeep
  <2>4. Available' = Available
    BY <1>1 DEF Available
  <2>5. \A k \in DOMAIN PublishPlan(r) : k < pos[r]
    <3>1. DOMAIN PublishPlan(r) = 1 .. (Len(Selection[r]) * Len(BaseSeq))
      BY DEF PublishPlan, PublishPlans
    <3>2. Len(Selection[r]) * Len(BaseSeq) \in Nat /\ pos[r] \in Nat \ {0}
      BY PlanTypes DEF TypeOK, PhaseOK
    <3> QED
      BY <1>1, <3>1, <3>2
  <2>6. {j \in DOMAIN PublishPlan(r) : j < pos[r]} = DOMAIN PublishPlan(r)
    BY <2>5
  <2>7. Seen[r] = R!Images(r)
    BY <1>1, <1>3, <2>6, PlanImages DEF Seen, Found
  <2> QED
    BY <1>1, <2>3, <2>4, <2>7 DEF R!Approve
<1> QED
  BY <1>2, <1>3

\* A promotion is Move of Release, or the end of the job.
LEMMA PromoteIsMove ==
    ASSUME RegistriesMatch, NEW r \in Runs, Promote(r)
    PROVE  R!Move(r) \/ R!End(r)
<1> USE DEF RegistriesMatch
<1> DEFINE e == PublishPlan(r)[pos[r]]
           image == [content |-> Content(r, e.variant), base |-> e.base,
                     tags |-> TagsOf[r, e.variant]]
<1>1. /\ phase[r] = "promote" /\ pos[r] \in DOMAIN PublishPlan(r)
      /\ UNCHANGED <<missing, staged>>
  BY DEF Promote
<1>2. PICK p \in {"promote", "failed publish"} : \E n : Goto(r, p, n)
  BY DEF Promote, PromotionFailed
<1>3. /\ phase'[r] = p
      /\ \A q \in Runs \ {r} : phase'[q] = phase[q] /\ pos'[q] = pos[q]
  BY <1>2 DEF Goto, TypeOK, PhaseOK
<1>4. Available' = Available /\ r \in Approved /\ Seen[r] = {} /\ Seen = [q \in Runs |-> Seen[q]]
  BY <1>1 DEF Available, Approved, Seen
<1>5. Seen' = [Seen EXCEPT ![r] = {}] /\ Approved' \in {Approved, Approved \ {r}}
  <2>1. /\ Seen' = [Seen EXCEPT ![r] = {}]
        /\ Approved' = IF p = "promote" THEN Approved \cup {r} ELSE Approved \ {r}
    BY <1>1, <1>3, OthersKeep
  <2> QED
    BY <1>4, <2>1
<1>6. Seen' = Seen
  BY <1>4, <1>5
<1>7. CASE UNCHANGED <<final, mover, results>> /\ phase' = [phase EXCEPT ![r] = "failed publish"]
           /\ pos' = [pos EXCEPT ![r] = 1]
  <2>1. Goto(r, "failed publish", 1)
    BY <1>7 DEF Goto
  <2> QED
    BY <1>1, <1>7, <2>1, EndStep DEF Phases
<1>8. CASE /\ <<Content(r, e.variant), e.base>> \in Available
           /\ \E tags \in SUBSET TagsOf[r, e.variant] : Moves(r, e.base, tags, Content(r, e.variant))
  <2>1. PICK tags \in SUBSET TagsOf[r, e.variant] : Moves(r, e.base, tags, Content(r, e.variant))
    BY <1>8
  <2>2. final' = [final EXCEPT ![e.base] = R!Tagged(final[e.base], tags, Content(r, e.variant))]
    BY <2>1 DEF Moves, Tagged, R!Tagged
  <2>3. image \in Images[r]
    BY <1>1 DEF Images, Entries
  <2>4. image.content = Content(r, e.variant) /\ image.base = e.base /\ image.tags = TagsOf[r, e.variant]
    OBVIOUS
  <2> HIDE DEF e, image
  <2>5. \E im \in Images[r] : \E ts \in SUBSET im.tags :
           /\ <<im.content, im.base>> \in Available
           /\ final' = [final EXCEPT ![im.base] = R!Tagged(final[im.base], ts, im.content)]
    BY <1>8, <2>2, <2>3, <2>4
  <2> QED
    BY <1>4, <1>5, <1>6, <2>5 DEF R!Move
<1> QED
  BY <1>7, <1>8, PromoteMoves

\* Removing a staging tag loses exactly the image it named.
LEMMA DeleteLoses ==
    ASSUME RegistriesMatch, DeleteStaging
    PROVE  R!Lose
<1> USE DEF RegistriesMatch
<1>1. PICK ref \in DOMAIN staged : staged' = [s \in DOMAIN staged \ {ref} |-> staged[s]]
  BY DEF DeleteStaging
<1>2. UNCHANGED <<phase, pos, missing, final>>
  BY DEF DeleteStaging, runVars
<1>3. \A s, t \in DOMAIN staged : <<staged[s], s.base>> = <<staged[t], t.base>> => s = t
  <2> SUFFICES ASSUME NEW s \in DOMAIN staged, NEW t \in DOMAIN staged,
                      staged[s] = staged[t], s.base = t.base
               PROVE  s = t
    OBVIOUS
  <2>1. s.tag = t.tag
    BY DEF StagedMatches
  <2>2. PICK r1 \in Runs, v1 \in Variants, b1 \in Bases : s = StagingRef(r1, v1, b1)
    BY DEF TypeOK, StagingRefs
  <2>3. PICK r2 \in Runs, v2 \in Variants, b2 \in Bases : t = StagingRef(r2, v2, b2)
    BY DEF TypeOK, StagingRefs
  <2> QED
    BY <2>1, <2>2, <2>3 DEF StagingRef
<1>4. <<staged[ref], ref.base>> \in Available
  BY DEF Available
<1>5. Available' = Available \ {<<staged[ref], ref.base>>}
  <2>1. Available' = {<<staged[s], s.base>> : s \in DOMAIN staged \ {ref}}
    BY <1>1 DEF Available
  <2> QED
    BY <1>3, <2>1 DEF Available
<1>6. Seen' = Seen /\ Approved' = Approved
  BY <1>2 DEF Seen, Approved, Found, Content
<1> QED
  BY <1>2, <1>4, <1>5, <1>6 DEF R!Lose

\* Every other step of a run is End or a stutter of Release.
LEMMA RunRefines ==
    ASSUME RegistriesMatch, NEW r \in Runs, RunNext(r)
    PROVE  R!Next \/ UNCHANGED R!vars
<1>0. TypeOK
  BY DEF RegistriesMatch
<1>1. CASE StartBuild(r) \/ SkipBuild(r) \/ BuildOneVariant(r) \/ BuildsDone(r)
  <2>1. PICK p \in {"build", "push", "built"} : \E n : Goto(r, p, n)
    BY <1>1 DEF StartBuild, SkipBuild, BuildOneVariant, BuildsDone
  <2>2. phase[r] \notin {"verify", "promote"} /\ UNCHANGED <<missing, staged, final>>
    BY <1>1 DEF StartBuild, SkipBuild, BuildOneVariant, BuildsDone, Resting
  <2>3. Seen' = Seen /\ Approved' = Approved
    BY <1>0, <2>1, <2>2, QuietStep DEF Phases
  <2>4. Available' = Available
    BY <2>2 DEF Available
  <2> QED
    BY <2>2, <2>3, <2>4 DEF R!vars
<1>2. CASE PushStaging(r)
  BY <1>2, PushBuilds DEF R!Next
<1>3. CASE StartPublish(r)
  <2>1. PICK p \in {"done", "verify"} : Goto(r, p, 1)
    BY <1>3 DEF StartPublish
  <2>2. /\ phase'[r] = p /\ pos'[r] = 1 /\ phase[r] \notin {"verify", "promote"}
        /\ \A q \in Runs \ {r} : phase'[q] = phase[q] /\ pos'[q] = pos[q] /\ missing'[q] = missing[q]
        /\ UNCHANGED <<staged, final>>
    BY <1>0, <1>3, <2>1 DEF StartPublish, Goto, TypeOK, PhaseOK
  <2>3. \A k \in DOMAIN PublishPlan(r) : ~(k < 1)
    BY DEF PublishPlan, PublishPlans
  <2>4. Found(r)' = {}
    BY <2>2, <2>3 DEF Found
  <2>5. Seen' = [Seen EXCEPT ![r] = {}] /\ Approved' = Approved \ {r}
    BY <2>2, <2>4, OthersKeep
  <2>6. Available' = Available
    BY <2>2 DEF Available
  <2>7. R!End(r)
    BY <2>2, <2>5, <2>6 DEF R!End
  <2> QED
    BY <2>7 DEF R!Next
<1>4. CASE CheckStaging(r)
  BY <1>4, CheckSees DEF R!Next
<1>5. CASE MissingStaging(r)
  BY <1>5, VerifiedApproves DEF R!Next
<1>6. CASE Promote(r)
  BY <1>6, PromoteIsMove DEF R!Next
<1>7. CASE PublishDone(r) \/ Abort(r)
  <2>1. PICK p \in {"done", "failed build", "failed publish"} : Goto(r, p, 1)
    BY <1>7 DEF PublishDone, Abort
  <2>2. UNCHANGED <<missing, staged, final>>
    BY <1>7 DEF PublishDone, Abort
  <2>3. R!End(r)
    BY <1>0, <2>1, <2>2, EndStep DEF Phases
  <2> QED
    BY <2>3 DEF R!Next
<1> QED
  BY <1>1, <1>2, <1>3, <1>4, <1>5, <1>6, <1>7 DEF RunNext

\* The workflow keeps the promise of Release for any runs, variants, bases and
\* failures: final tags are moved only by a publish job that has found every
\* image of its plan, and only to an image that is there.
THEOREM WorkflowImplementsRelease == Spec => ImplementsRelease
<1>1. Init => R!Init
  <2> SUFFICES ASSUME Init PROVE R!Init
    OBVIOUS
  <2>1. Available = {}
    BY DEF Init, Available
  <2>2. Seen = [r \in Runs |-> {}] /\ Approved = {}
    BY DEF Init, Seen, Approved
  <2> QED
    BY <2>1, <2>2 DEF Init, R!Init
<1>2. RegistriesMatch /\ [Next]_vars => [R!Next]_R!vars
  <2> SUFFICES ASSUME RegistriesMatch, [Next]_vars PROVE R!Next \/ UNCHANGED R!vars
    OBVIOUS
  <2>1. CASE UNCHANGED vars
    BY <2>1 DEF vars, runVars, R!vars, Available, Seen, Approved, Found, Content
  <2>2. CASE DeleteStaging
    BY <2>2, DeleteLoses DEF R!Next
  <2> QED
    BY <2>1, <2>2, RunRefines DEF Next
<1> QED
  BY <1>1, <1>2, RegistriesAlwaysMatch, PTL DEF Spec, ImplementsRelease, R!Spec

(***************************************************************************)
(* Runs that do not overlap leave the registries alike.                    *)
(***************************************************************************)

\* As long as no two runs have been active together, at most one is.
OneActive ==
    ~overlapped => \A r, q \in Runs : phase[r] \notin Resting /\ phase[q] \notin Resting => r = q

\* A dry run never gets to its publish job.
DryNeverPublishes == \A r \in Runs : phase[r] \in {"verify", "promote"} => r \notin DryRun

\* Two bases have the same tag t.
SameTag(f, b, c, t) ==
    /\ t \in DOMAIN f[b] <=> t \in DOMAIN f[c]
    /\ t \in DOMAIN f[b] => f[b][t] = f[c][t]

\* Tag t is one of the final tags of r.
PublishesTag(r, t) == \E p \in DOMAIN Selection[r] : t \in TagsOf[r, Selection[r][p]]

\* A tag on which two bases differ is owed by a run that was started and has
\* not come to its end.
DifferenceIsOwed ==
    ~overlapped =>
      \A i, j \in DOMAIN BaseSeq : \A t \in TagNames :
        \/ SameTag(final, BaseSeq[i], BaseSeq[j], t)
        \/ \E r \in Runs \ DryRun : phase[r] \notin {"idle", "done"} /\ PublishesTag(r, t)

\* The entries before n of r's plan are what the registries f hold.
PromotedUpTo(f, r, n) ==
    \A k \in DOMAIN PublishPlan(r) : k < n =>
      LET e == PublishPlan(r)[k]
      IN  \A t \in TagsOf[r, e.variant] : t \in DOMAIN f[e.base] /\ f[e.base][t] = Content(r, e.variant)

\* A publish job that is alone has promoted the beginning of its plan.
PromotedSoFar ==
    ~overlapped => \A r \in Runs : phase[r] = "promote" => PromotedUpTo(final, r, pos[r])

\* A registry is a table of known tags.
FinalTables ==
    \A b \in Bases : /\ DOMAIN final[b] \subseteq TagNames
                     /\ final[b] = [t \in DOMAIN final[b] |-> final[b][t]]

\* What a step does to the places of the other runs.
LEMMA OnlyOwnPlace ==
    ASSUME TypeOK, NEW r \in Runs, RunNext(r), NEW q \in Runs \ {r}
    PROVE  phase'[q] = phase[q] /\ pos'[q] = pos[q]
<1>1. phase \in [Runs -> Phases] /\ pos \in [Runs -> Nat \ {0}]
  BY DEF TypeOK, PhaseOK
<1>2. \E p, n : Goto(r, p, n)
  BY DEF RunNext, StartBuild, SkipBuild, BuildOneVariant, BuildsDone, PushStaging, StartPublish,
         CheckStaging, MissingStaging, Verified, Promote, PromotionFailed, PublishDone, Abort
<1> QED
  BY <1>1, <1>2 DEF Goto

\* Only the start of a job makes a run active, and it notices the others.
LEMMA ActiveStep ==
    ASSUME TypeOK, OneActive, NEW r \in Runs, RunNext(r)
    PROVE  /\ OneActive'
           /\ ~overlapped' => ~overlapped /\ \A q \in Runs \ {r} : phase[q] \in Resting
<1>1. \A q \in Runs \ {r} : phase'[q] = phase[q]
  BY OnlyOwnPlace
<1>2. CASE StartBuild(r) \/ (StartPublish(r) /\ phase[r] = "failed publish")
  <2>1. overlapped' = (overlapped \/ \E q \in Runs \ {r} : phase[q] \notin Resting)
    BY <1>2 DEF StartBuild, StartPublish
  <2> QED
    BY <1>1, <2>1 DEF OneActive
<1>3. CASE ~StartBuild(r) /\ phase[r] \notin Resting
  <2>1. overlapped' = overlapped \/ overlapped' = (overlapped \/ \E q \in Runs \ {r} : phase[q] \notin Resting)
    BY <1>3 DEF RunNext, SkipBuild, BuildOneVariant, BuildsDone, PushStaging, Pushed, StartPublish,
         CheckStaging, MissingStaging, Promote, PublishDone, Abort
  <2>2. overlapped \in BOOLEAN
    BY DEF TypeOK
  <2>3. ~overlapped' => ~overlapped
    BY <2>1, <2>2
  <2> QED
    BY <1>1, <1>3, <2>3 DEF OneActive
<1>4. \/ StartBuild(r) \/ (StartPublish(r) /\ phase[r] = "failed publish")
      \/ phase[r] \notin Resting
  BY DEF RunNext, SkipBuild, BuildOneVariant, BuildsDone, PushStaging, StartPublish,
         CheckStaging, MissingStaging, Promote, PublishDone, Abort, Resting
<1> QED
  BY <1>2, <1>3, <1>4

\* A run is at promote after a promotion or after missingStaging only.
LEMMA ToPromote ==
    ASSUME TypeOK, NEW r \in Runs, RunNext(r), phase'[r] = "promote"
    PROVE  \/ Promote(r)
           \/ MissingStaging(r) /\ phase[r] = "verify" /\ pos'[r] = 1 /\ final' = final
<1>1. phase \in [Runs -> Phases] /\ pos \in [Runs -> Nat \ {0}]
  BY DEF TypeOK, PhaseOK
<1>2. ~(StartBuild(r) \/ SkipBuild(r) \/ BuildOneVariant(r) \/ BuildsDone(r) \/ PushStaging(r))
  BY <1>1 DEF StartBuild, SkipBuild, BuildOneVariant, BuildsDone, PushStaging, Goto
<1>3. ~(StartPublish(r) \/ CheckStaging(r) \/ PublishDone(r) \/ Abort(r))
  BY <1>1 DEF StartPublish, CheckStaging, PublishDone, Abort, Goto
<1>4. CASE MissingStaging(r)
  BY <1>1, <1>4 DEF MissingStaging, Verified, Goto
<1> QED
  BY <1>2, <1>3, <1>4 DEF RunNext

\* A dry run stays out of the publish job.
LEMMA DryStep ==
    ASSUME TypeOK, DryNeverPublishes, NEW r \in Runs, RunNext(r)
    PROVE  DryNeverPublishes'
<1>1. phase \in [Runs -> Phases]
  BY DEF TypeOK, PhaseOK
<1>2. \A q \in Runs \ {r} : phase'[q] = phase[q]
  BY OnlyOwnPlace
<1>3. phase'[r] \in {"verify", "promote"} => r \notin DryRun
  <2>1. CASE StartBuild(r) \/ SkipBuild(r) \/ BuildOneVariant(r) \/ BuildsDone(r) \/ PushStaging(r)
    BY <1>1, <2>1 DEF StartBuild, SkipBuild, BuildOneVariant, BuildsDone, PushStaging, Goto
  <2>2. CASE StartPublish(r) \/ PublishDone(r) \/ Abort(r)
    BY <1>1, <2>2 DEF StartPublish, PublishDone, Abort, Goto
  <2>3. CASE CheckStaging(r) \/ MissingStaging(r) \/ Promote(r)
    BY <2>3 DEF CheckStaging, MissingStaging, Promote, DryNeverPublishes
  <2> QED
    BY <2>1, <2>2, <2>3 DEF RunNext
<1> QED
  BY <1>2, <1>3 DEF DryNeverPublishes

\* What a step does to the tables of final tags: nothing, or a promotion
\* moves tags of the entry it is at.
LEMMA FinalStep ==
    ASSUME TypeOK, StagedMatches, NEW r \in Runs, RunNext(r)
    PROVE  \/ final' = final
           \/ /\ Promote(r) /\ phase[r] = "promote" /\ phase'[r] \in {"promote", "failed publish"}
              /\ pos[r] \in DOMAIN PublishPlan(r)
              /\ LET e == PublishPlan(r)[pos[r]]
                 IN  \E tags \in SUBSET TagsOf[r, e.variant] :
                        /\ phase'[r] = "promote" => tags = TagsOf[r, e.variant] /\ pos'[r] = pos[r] + 1
                        /\ final' = [final EXCEPT ![e.base] = Tagged(final[e.base], tags, Content(r, e.variant))]
<1>1. CASE Promote(r)
  <2>1. phase[r] = "promote" /\ pos[r] \in DOMAIN PublishPlan(r)
    BY <1>1 DEF Promote
  <2>2. phase \in [Runs -> Phases] /\ pos \in [Runs -> Nat \ {0}]
    BY DEF TypeOK, PhaseOK
  <2> DEFINE e == PublishPlan(r)[pos[r]]
             C == Content(r, e.variant)
  <2>3. CASE final' = final
    BY <2>3
  <2>4. CASE /\ Moves(r, e.base, TagsOf[r, e.variant], C)
             /\ phase' = [phase EXCEPT ![r] = "promote"]
             /\ pos' = [pos EXCEPT ![r] = pos[r] + 1]
    <3>1. phase'[r] = "promote" /\ pos'[r] = pos[r] + 1
      BY <2>2, <2>4
    <3>2. final' = [final EXCEPT ![e.base] = Tagged(final[e.base], TagsOf[r, e.variant], C)]
      BY <2>4 DEF Moves
    <3> HIDE DEF C
    <3> QED
      BY <1>1, <2>1, <3>1, <3>2 DEF C
  <2>5. CASE /\ \E tags \in SUBSET TagsOf[r, e.variant] : Moves(r, e.base, tags, C)
             /\ phase' = [phase EXCEPT ![r] = "failed publish"]
    <3>1. phase'[r] = "failed publish"
      BY <2>2, <2>5
    <3>2. PICK tags \in SUBSET TagsOf[r, e.variant] :
             final' = [final EXCEPT ![e.base] = Tagged(final[e.base], tags, C)]
      BY <2>5 DEF Moves
    <3> QED
      BY <1>1, <2>1, <3>1, <3>2
  <2> QED
    BY <1>1, <2>3, <2>4, <2>5, PromoteMoves
<1>2. CASE ~Promote(r)
  BY <1>2 DEF RunNext, StartBuild, SkipBuild, BuildOneVariant, BuildsDone, PushStaging, Pushed,
              StartPublish, CheckStaging, MissingStaging, PublishDone, Abort
<1> QED
  BY <1>1, <1>2

\* How a promotion changes the tables: only its base, only its tags.
LEMMA TaggedTables ==
    ASSUME TypeOK, NEW b \in Bases, NEW tags, NEW c,
           final' = [final EXCEPT ![b] = Tagged(final[b], tags, c)]
    PROVE  /\ \A a \in Bases \ {b} : final'[a] = final[a]
           /\ DOMAIN final'[b] = DOMAIN final[b] \cup tags
           /\ \A t \in tags : final'[b][t] = c
           /\ \A t \in DOMAIN final[b] \ tags : final'[b][t] = final[b][t]
           /\ final'[b] = [t \in DOMAIN final'[b] |-> final'[b][t]]
<1>1. DOMAIN final = Bases
  BY DEF TypeOK
<1>2. final'[b] = [t \in DOMAIN final[b] \cup tags |-> IF t \in tags THEN c ELSE final[b][t]]
  BY <1>1 DEF Tagged
<1>3. \A a \in Bases \ {b} : final'[a] = final[a]
  BY <1>1
<1> QED
  BY <1>2, <1>3

\* The tables stay tables of known tags.
LEMMA TablesStep ==
    ASSUME TypeOK, StagedMatches, FinalTables, NEW r \in Runs, RunNext(r)
    PROVE  FinalTables'
<1>1. CASE final' = final
  BY <1>1 DEF FinalTables
<1>2. CASE final' # final
  <2> DEFINE e == PublishPlan(r)[pos[r]]
  <2>1. PICK tags \in SUBSET TagsOf[r, e.variant] :
           final' = [final EXCEPT ![e.base] = Tagged(final[e.base], tags, Content(r, e.variant))]
    BY <1>2, FinalStep
  <2>2. pos[r] \in DOMAIN PublishPlan(r)
    BY <1>2, FinalStep
  <2>3. e.variant \in Variants /\ e.base \in Bases
    BY <2>2, PlanEntry DEF PlanEntries
  <2>4. tags \subseteq TagNames
    <3>1. TagsOf[r, e.variant] \subseteq TagNames
      BY <2>3, PlanAssumption
    <3> QED
      BY <3>1
  <2> HIDE DEF e
  <2>5. /\ \A a \in Bases \ {e.base} : final'[a] = final[a]
        /\ DOMAIN final'[e.base] = DOMAIN final[e.base] \cup tags
        /\ final'[e.base] = [t \in DOMAIN final'[e.base] |-> final'[e.base][t]]
    BY <2>1, <2>3, TaggedTables
  <2>6. \A b \in Bases : DOMAIN final'[b] \subseteq TagNames
    BY <2>3, <2>4, <2>5 DEF FinalTables
  <2>7. \A b \in Bases : final'[b] = [t \in DOMAIN final'[b] |-> final'[b][t]]
    BY <2>5 DEF FinalTables
  <2> QED
    BY <2>6, <2>7 DEF FinalTables
<1> QED
  BY <1>1, <1>2

\* Without overlaps a promotion adds its entry and spoils none before it: no
\* two variants of a run share a tag.
LEMMA PromotedStep ==
    ASSUME TypeOK, StagedMatches, OneActive, PromotedSoFar, NEW r \in Runs, RunNext(r)
    PROVE  PromotedSoFar'
<1> SUFFICES ASSUME ~overlapped', NEW q \in Runs, phase'[q] = "promote"
             PROVE  PromotedUpTo(final', q, pos'[q])
  BY DEF PromotedSoFar, PromotedUpTo, Content
<1>1. ~overlapped /\ \A x \in Runs \ {r} : phase[x] \in Resting
  BY ActiveStep
<1>2. q = r
  BY <1>1, OnlyOwnPlace DEF Resting
<1>3. CASE MissingStaging(r) /\ pos'[r] = 1
  <2>1. \A k \in DOMAIN PublishPlan(r) : ~(k < 1)
    BY DEF PublishPlan, PublishPlans
  <2> QED
    BY <1>2, <1>3, <2>1 DEF PromotedUpTo
<1>4. CASE Promote(r)
  <2> DEFINE e == PublishPlan(r)[pos[r]]
  <2>0. phase'[r] = "promote" /\ phase[r] = "promote" /\ pos[r] \in DOMAIN PublishPlan(r)
    BY <1>2, <1>4 DEF Promote
  <2>1. /\ pos'[r] = pos[r] + 1
        /\ final' = [final EXCEPT ![e.base] = Tagged(final[e.base], TagsOf[r, e.variant], Content(r, e.variant))]
    <3>1. phase \in [Runs -> Phases] /\ pos \in [Runs -> Nat \ {0}]
      BY DEF TypeOK, PhaseOK
    <3>2. /\ Moves(r, e.base, TagsOf[r, e.variant], Content(r, e.variant))
          /\ pos' = [pos EXCEPT ![r] = pos[r] + 1]
      BY <1>4, <2>0, <3>1, PromoteMoves
    <3> QED
      BY <3>1, <3>2 DEF Moves
  <2>2. PromotedUpTo(final, r, pos[r])
    BY <1>1, <2>0 DEF PromotedSoFar
  <2>3. e.variant \in Variants /\ e.base \in Bases
    BY <2>0, PlanEntry DEF PlanEntries
  <2>4. /\ \A a \in Bases \ {e.base} : final'[a] = final[a]
        /\ DOMAIN final'[e.base] = DOMAIN final[e.base] \cup TagsOf[r, e.variant]
        /\ \A t \in TagsOf[r, e.variant] : final'[e.base][t] = Content(r, e.variant)
        /\ \A t \in DOMAIN final[e.base] \ TagsOf[r, e.variant] : final'[e.base][t] = final[e.base][t]
    <3> DEFINE T == TagsOf[r, e.variant]
               C == Content(r, e.variant)
               b == e.base
    <3>1. b \in Bases /\ final' = [final EXCEPT ![b] = Tagged(final[b], T, C)]
      BY <2>1, <2>3
    <3> HIDE DEF T, C, b
    <3>2. /\ \A a \in Bases \ {b} : final'[a] = final[a]
          /\ DOMAIN final'[b] = DOMAIN final[b] \cup T
          /\ \A t \in T : final'[b][t] = C
          /\ \A t \in DOMAIN final[b] \ T : final'[b][t] = final[b][t]
      BY ZenonT(40), <3>1, TaggedTables
    <3> QED
      BY <3>2 DEF T, C, b
  <2>5. ASSUME NEW k \in DOMAIN PublishPlan(r), k < pos[r] + 1,
               NEW t \in TagsOf[r, PublishPlan(r)[k].variant]
        PROVE  LET d == PublishPlan(r)[k]
               IN  t \in DOMAIN final'[d.base] /\ final'[d.base][t] = Content(r, d.variant)
    <3> DEFINE d == PublishPlan(r)[k]
    <3>1. d.base \in Bases /\ \E p \in DOMAIN Selection[r] : d.variant = Selection[r][p]
      BY PlanEntry DEF PlanEntries
    <3>2. CASE k = pos[r]
      BY <2>4, <3>2
    <3>3. CASE k # pos[r]
      <4>1. k < pos[r]
        BY <2>5, <3>3, BeforeNext
      <4>2. t \in DOMAIN final[d.base] /\ final[d.base][t] = Content(r, d.variant)
        BY <2>2, <2>5, <4>1 DEF PromotedUpTo
      <4>3. CASE d.base = e.base /\ t \in TagsOf[r, e.variant]
        <5>1. \E p \in DOMAIN Selection[r] : e.variant = Selection[r][p]
          BY <2>0, PlanEntry
        <5>2. d.variant = e.variant
          BY <2>5, <3>1, <4>3, <5>1, DuplicateTagsAssumption
        <5> QED
          BY <2>4, <4>3, <5>2
      <4>4. CASE ~(d.base = e.base /\ t \in TagsOf[r, e.variant])
        BY <2>4, <3>1, <4>2, <4>4
      <4> QED
        BY <4>3, <4>4
    <3> QED
      BY <3>2, <3>3
  <2> QED
    BY <1>2, <2>1, <2>5 DEF PromotedUpTo
<1> QED
  BY <1>2, <1>3, <1>4, ToPromote

\* Without overlaps, a difference between two bases is owed by a run that has
\* not ended; the end of a publish job settles what the run owed.
LEMMA OwedStep ==
    ASSUME TypeOK, StagedMatches, OneActive, DryNeverPublishes, PromotedSoFar, DifferenceIsOwed,
           NEW r \in Runs, RunNext(r)
    PROVE  DifferenceIsOwed'
<1> DEFINE Owes(q, t) == phase[q] \notin {"idle", "done"} /\ PublishesTag(q, t)
<1> SUFFICES ASSUME ~overlapped', NEW i \in DOMAIN BaseSeq, NEW j \in DOMAIN BaseSeq, NEW t \in TagNames
             PROVE  \/ SameTag(final', BaseSeq[i], BaseSeq[j], t)
                    \/ \E q \in Runs \ DryRun : phase'[q] \notin {"idle", "done"} /\ PublishesTag(q, t)
  BY DEF DifferenceIsOwed, SameTag, PublishesTag
<1>1. ~overlapped
  BY ActiveStep
<1>2. BaseSeq[i] \in Bases /\ BaseSeq[j] \in Bases
  BY PlanTypes
<1>3. \A q \in Runs \ {r} : phase'[q] = phase[q]
  BY OnlyOwnPlace
<1>4. \/ SameTag(final, BaseSeq[i], BaseSeq[j], t)
      \/ \E q \in Runs \ DryRun : Owes(q, t)
  BY <1>1 DEF DifferenceIsOwed
<1>5. CASE final' = final /\ phase'[r] \notin {"idle", "done"}
  BY <1>3, <1>4, <1>5
<1>6. CASE final' = final /\ phase'[r] \in {"idle", "done"}
  <2>1. CASE SameTag(final, BaseSeq[i], BaseSeq[j], t)
    BY <1>6, <2>1
  <2>2. CASE \E q \in Runs \ DryRun : q # r /\ Owes(q, t)
    BY <1>3, <2>2
  <2>3. CASE r \notin DryRun /\ PublishesTag(r, t) /\ phase[r] \notin {"idle", "done"}
    <3>1. PublishDone(r)
      <4>1. phase \in [Runs -> Phases]
        BY DEF TypeOK, PhaseOK
      <4>2. ~(StartBuild(r) \/ SkipBuild(r) \/ BuildOneVariant(r) \/ BuildsDone(r) \/ PushStaging(r))
        BY <1>6, <4>1 DEF StartBuild, SkipBuild, BuildOneVariant, BuildsDone, PushStaging, Goto
      <4>3. ~(StartPublish(r) \/ CheckStaging(r) \/ MissingStaging(r) \/ Abort(r))
        BY <1>6, <2>3, <4>1 DEF StartPublish, CheckStaging, MissingStaging, Verified, Abort, Goto
      <4>4. ~Promote(r)
        <5>1. Promote(r) => Goto(r, "promote", pos[r] + 1) \/ Goto(r, "failed publish", 1)
          BY DEF Promote, PromotionFailed
        <5> QED
          BY <1>6, <4>1, <5>1 DEF Goto
      <4> QED
        BY <4>2, <4>3, <4>4 DEF RunNext
    <3>2. \A k \in DOMAIN PublishPlan(r) : k < pos[r]
      <4>1. DOMAIN PublishPlan(r) = 1 .. (Len(Selection[r]) * Len(BaseSeq))
        BY DEF PublishPlan, PublishPlans
      <4>2. Len(Selection[r]) * Len(BaseSeq) \in Nat /\ pos[r] \in Nat \ {0}
        BY PlanTypes DEF TypeOK, PhaseOK
      <4>3. pos[r] \notin DOMAIN PublishPlan(r)
        BY <3>1 DEF PublishDone
      <4> QED
        BY <4>1, <4>2, <4>3
    <3>3. PromotedUpTo(final, r, pos[r])
      BY <1>1, <3>1 DEF PublishDone, PromotedSoFar
    <3>4. PICK p \in DOMAIN Selection[r] : t \in TagsOf[r, Selection[r][p]]
      BY <2>3 DEF PublishesTag
    <3>5. ASSUME NEW x \in DOMAIN BaseSeq
          PROVE  t \in DOMAIN final[BaseSeq[x]] /\ final[BaseSeq[x]][t] = Content(r, Selection[r][p])
      <4>1. PICK k \in DOMAIN PublishPlan(r) :
              PublishPlan(r)[k] = [variant |-> Selection[r][p], base |-> BaseSeq[x]]
        BY PlanComplete
      <4>2. PublishPlan(r)[k].variant = Selection[r][p] /\ PublishPlan(r)[k].base = BaseSeq[x]
        BY <4>1
      <4> QED
        BY <3>2, <3>3, <3>4, <4>2 DEF PromotedUpTo
    <3> QED
      BY <1>6, <3>5 DEF SameTag
  <2> QED
    BY <1>4, <2>1, <2>2, <2>3
<1>7. CASE final' # final
  <2> DEFINE e == PublishPlan(r)[pos[r]]
  <2>1. /\ phase[r] = "promote" /\ phase'[r] \in {"promote", "failed publish"}
        /\ pos[r] \in DOMAIN PublishPlan(r)
    BY <1>7, FinalStep
  <2>2. PICK tags \in SUBSET TagsOf[r, e.variant] :
           final' = [final EXCEPT ![e.base] = Tagged(final[e.base], tags, Content(r, e.variant))]
    BY <1>7, FinalStep
  <2>3. e.base \in Bases /\ \E p \in DOMAIN Selection[r] : e.variant = Selection[r][p]
    BY <2>1, PlanEntry DEF PlanEntries
  <2>4. CASE t \in tags
    <3>1. PublishesTag(r, t)
      BY <2>3, <2>4 DEF PublishesTag
    <3>2. r \in Runs \ DryRun
      BY <2>1 DEF DryNeverPublishes
    <3> QED
      BY <2>1, <3>1, <3>2
  <2>5. CASE t \notin tags
    <3> HIDE DEF e
    <3>1. /\ \A a \in Bases \ {e.base} : final'[a] = final[a]
          /\ DOMAIN final'[e.base] = DOMAIN final[e.base] \cup tags
          /\ \A x \in DOMAIN final[e.base] \ tags : final'[e.base][x] = final[e.base][x]
      BY <2>2, <2>3, TaggedTables
    <3>2. \A b \in Bases : /\ t \in DOMAIN final'[b] <=> t \in DOMAIN final[b]
                           /\ t \in DOMAIN final[b] => final'[b][t] = final[b][t]
      BY <2>5, <3>1
    <3>3. SameTag(final, BaseSeq[i], BaseSeq[j], t) => SameTag(final', BaseSeq[i], BaseSeq[j], t)
      BY <1>2, <3>2 DEF SameTag
    <3> QED
      BY <1>3, <1>4, <2>1, <3>3
  <2> QED
    BY <2>4, <2>5
<1> QED
  BY <1>5, <1>6, <1>7

\* The invariant that carries BasesAgree.
BasesInv == OneActive /\ DryNeverPublishes /\ FinalTables /\ PromotedSoFar /\ DifferenceIsOwed

\* Every step keeps the difference between two bases owed by an unfinished run.
LEMMA BasesNext == RegistriesMatch /\ BasesInv /\ [Next]_vars => BasesInv'
<1> SUFFICES ASSUME RegistriesMatch, BasesInv, [Next]_vars PROVE BasesInv'
  OBVIOUS
<1>1. ASSUME NEW r \in Runs, RunNext(r) PROVE BasesInv'
  BY <1>1, ActiveStep, DryStep, TablesStep, PromotedStep, OwedStep DEF RegistriesMatch, BasesInv
<1>2. CASE DeleteStaging \/ UNCHANGED vars
  <2>1. UNCHANGED <<phase, pos, final, overlapped>>
    BY <1>2 DEF DeleteStaging, runVars, vars
  <2>2. OneActive' /\ DryNeverPublishes' /\ FinalTables'
    BY <2>1 DEF BasesInv, OneActive, DryNeverPublishes, FinalTables
  <2>3. PromotedSoFar'
    BY <2>1 DEF BasesInv, PromotedSoFar, PromotedUpTo, Content
  <2>4. DifferenceIsOwed'
    BY <2>1 DEF BasesInv, DifferenceIsOwed, SameTag, PublishesTag
  <2> QED
    BY <2>2, <2>3, <2>4 DEF BasesInv
<1> QED
  BY <1>1, <1>2 DEF Next

\* If no two runs were ever active together, the registries name the same
\* images whenever every run that was started has come to its end, however
\* often jobs failed, were run again or lost a staging tag in between.
THEOREM BasesAlwaysAgree == Spec => []BasesAgree
<1>1. Init => BasesInv
  <2> SUFFICES ASSUME Init PROVE BasesInv
    OBVIOUS
  <2>1. OneActive /\ DryNeverPublishes /\ PromotedSoFar
    BY DEF Init, OneActive, DryNeverPublishes, PromotedSoFar, Resting
  <2>2. FinalTables
    <3>1. \A b \in Bases : final[b] = << >>
      BY DEF Init
    <3>2. DOMAIN << >> = {} /\ << >> = [t \in {} |-> << >>[t]]
      OBVIOUS
    <3> QED
      BY <3>1, <3>2 DEF FinalTables
  <2>3. DifferenceIsOwed
    <3>1. BaseSeq \in Seq(Bases)
      BY PlanAssumption
    <3>2. \A i \in DOMAIN BaseSeq : BaseSeq[i] \in Bases
      BY <3>1
    <3> QED
      BY <3>2 DEF Init, DifferenceIsOwed, SameTag
  <2> QED
    BY <2>1, <2>2, <2>3 DEF BasesInv
<1>2. RegistriesMatch /\ BasesInv => BasesAgree
  <2> SUFFICES ASSUME BasesInv, ~overlapped, \A r \in Runs : phase[r] \in {"idle", "done"},
                      NEW i \in DOMAIN BaseSeq, NEW j \in DOMAIN BaseSeq
               PROVE  final[BaseSeq[i]] = final[BaseSeq[j]]
    BY DEF BasesAgree
  <2>1. \A t \in TagNames : SameTag(final, BaseSeq[i], BaseSeq[j], t)
    BY DEF BasesInv, DifferenceIsOwed
  <2>2. BaseSeq[i] \in Bases /\ BaseSeq[j] \in Bases
    <3>1. BaseSeq \in Seq(Bases)
      BY PlanAssumption
    <3> QED
      BY <3>1
  <2>3. /\ DOMAIN final[BaseSeq[i]] \subseteq TagNames /\ DOMAIN final[BaseSeq[j]] \subseteq TagNames
        /\ final[BaseSeq[i]] = [t \in DOMAIN final[BaseSeq[i]] |-> final[BaseSeq[i]][t]]
        /\ final[BaseSeq[j]] = [t \in DOMAIN final[BaseSeq[j]] |-> final[BaseSeq[j]][t]]
    BY <2>2 DEF BasesInv, FinalTables
  <2>4. DOMAIN final[BaseSeq[i]] = DOMAIN final[BaseSeq[j]]
    BY <2>1, <2>3 DEF SameTag
  <2>5. \A t \in DOMAIN final[BaseSeq[i]] : final[BaseSeq[i]][t] = final[BaseSeq[j]][t]
    BY <2>1, <2>3 DEF SameTag
  <2> QED
    BY <2>3, <2>4, <2>5
<1> QED
  BY <1>1, <1>2, BasesNext, RegistriesAlwaysMatch, PTL DEF Spec

----------------------------------------------------------------------------
(* The jobs of a run (ImageJob): what is ready to push, and with which      *)
(* arguments.                                                               *)

\* The programs that run after resolve.
Resolved == pc \in {"preflight", "login", "meta"} \/ (pc = "ready" /\ job # "plan")

\* A container whose package sources were rewritten at most once.
ContainerOK ==
    /\ {"cli", "daemon", "buildx", "prefixes", "attempts", "handlers"} \subseteq DOMAIN ctr
    /\ ctr.prefixes \in {0, 1}

\* After resolve every image belongs to a registry with credentials.
ReleaseOK ==
    Resolved =>
        /\ {"dryRun", "images", "registries", "logins"} \subseteq DOMAIN rel
        /\ rel.dryRun \in BOOLEAN
        /\ ~rel.dryRun => \A image \in rel.images : image.registry \in rel.registries
        /\ rel.dryRun => rel.logins = {}

\* After preflight the tools and, if anything is to be pushed, images are there.
PreflightOK ==
    Resolved /\ pc # "preflight" =>
        /\ ctr.cli /\ ctr.buildx /\ (job = "build" => ctr.daemon)
        /\ ~rel.dryRun => rel.images # {}

\* After login every registry that is pushed to is logged in to.
LoginOK == Resolved /\ pc \notin {"preflight", "login"} /\ ~rel.dryRun => rel.logins = rel.registries

\* What the programs of a job that have run so far have established.
JobInv ==
    /\ pc = "plan-matrix" => job = "plan"
    /\ ContainerOK /\ ReleaseOK /\ PreflightOK /\ LoginOK

\* A new container has its sources as they were, or rewritten once.
LEMMA ContainerFresh ==
    ASSUME NEW e
    PROVE  /\ {"cli", "daemon", "buildx", "prefixes", "attempts", "handlers"} \subseteq DOMAIN Container(e)
           /\ Container(e).prefixes \in {0, 1}
BY DEF Container

\* imagesFrom yields images of registries that resolveRegistries has found,
\* except in a dry run.
LEMMA ImagesHaveRegistries ==
    ASSUME NEW e, NEW dry, ~dry, ValidImages(e, dry), NEW image \in ImagesFrom(e, dry)
    PROVE  image.registry \in Registries(e)
<1>1. CASE e.metaImages # {}
  BY <1>1 DEF ValidImages, ImagesFrom
<1>2. CASE e.metaImages = {}
  <2>1. PICK r \in Registries(e) : image = Image(IF r = "ghcr" THEN "ghcr.io" ELSE "")
    BY <1>2 DEF ImagesFrom
  <2>2. r \in {"ghcr", "dockerhub"}
    BY DEF Registries
  <2> QED
    BY <2>1, <2>2 DEF Image
<1> QED
  BY <1>1, <1>2

LEMMA JobBegins == JobInit => JobInv
BY ContainerFresh DEF JobInit, JobInv, ContainerOK, ReleaseOK, PreflightOK, LoginOK, Resolved

\* A job that starts, or fails, has established nothing.
LEMMA JobStarts ==
    ASSUME JobInv, NEW j, StartJob(j)
    PROVE  JobInv'
BY ContainerFresh
   DEF JobInv, StartJob, GoOn, ContainerOK, ReleaseOK, PreflightOK, LoginOK, Resolved

LEMMA JobFails ==
    ASSUME JobInv, Fail
    PROVE  JobInv'
BY DEF JobInv, Fail, GoOn, ContainerOK, ReleaseOK, PreflightOK, LoginOK, Resolved

\* Before resolve only the container matters.
LEMMA JobPrepares ==
    ASSUME JobInv,
           \/ LocateAction \/ VerifyAction \/ PlanMatrix
           \/ EnsureDaemon \/ StartDockerd \/ ConfigurePackageSources
           \/ EnsureBuildx \/ InstallPackages \/ EnsureBinfmt
    PROVE  JobInv'
<1> SUFFICES ASSUME ~Fail
             PROVE  JobInv'
  BY JobFails
<1> USE DEF JobInv, ContainerOK, ReleaseOK, PreflightOK, LoginOK, Resolved, GoOn, After, fileVars
<1>1. CASE LocateAction
  BY <1>1 DEF LocateAction
<1>2. CASE VerifyAction
  BY <1>2 DEF VerifyAction
<1>3. CASE PlanMatrix
  BY <1>3 DEF PlanMatrix
<1>4. CASE EnsureDaemon
  BY <1>4 DEF EnsureDaemon
<1>5. CASE StartDockerd
  BY <1>5 DEF StartDockerd
<1>6. CASE ConfigurePackageSources
  BY <1>6 DEF ConfigurePackageSources
<1>7. CASE EnsureBuildx
  BY <1>7 DEF EnsureBuildx
<1>8. CASE InstallPackages
  BY <1>8 DEF InstallPackages
<1>9. CASE EnsureBinfmt
  BY <1>9 DEF EnsureBinfmt
<1> QED
  BY <1>1, <1>2, <1>3, <1>4, <1>5, <1>6, <1>7, <1>8, <1>9

LEMMA JobResolves ==
    ASSUME JobInv, ResolveRelease \/ Preflight \/ Login \/ ComputeBuilds
    PROVE  JobInv'
<1> SUFFICES ASSUME ~Fail
             PROVE  JobInv'
  BY JobFails
<1> USE DEF JobInv, ContainerOK, ReleaseOK, PreflightOK, LoginOK, Resolved, GoOn, fileVars
<1>1. CASE ResolveRelease
  <2> DEFINE dry == IsTruthy(DispatchInput(env.dryRun))
  <2>1. /\ dry \in BOOLEAN /\ rel'.dryRun = dry /\ rel'.logins = {}
        /\ rel'.images = ImagesFrom(env, dry) /\ rel'.registries = Registries(env)
        /\ {"dryRun", "images", "registries", "logins"} \subseteq DOMAIN rel'
        /\ ValidImages(env, dry)
    BY <1>1 DEF ResolveRelease, IsTruthy
  <2>2. ~dry => \A image \in rel'.images : image.registry \in rel'.registries
    <3> HIDE DEF dry
    <3> QED BY <2>1, ImagesHaveRegistries
  <2> QED
    BY <1>1, <2>1, <2>2 DEF ResolveRelease
<1>2. CASE Preflight
  BY <1>2 DEF Preflight, PreflightErrors
<1>3. CASE Login
  BY <1>3 DEF Login
<1>4. CASE ComputeBuilds
  BY <1>4 DEF ComputeBuilds
<1> QED
  BY <1>1, <1>2, <1>3, <1>4

LEMMA JobGoesOn == JobInv /\ [JobNext]_jobVars => JobInv'
<1> SUFFICES ASSUME JobInv, [JobNext]_jobVars PROVE JobInv'
  OBVIOUS
<1>1. CASE UNCHANGED jobVars
  BY <1>1 DEF jobVars, JobInv, ContainerOK, ReleaseOK, PreflightOK, LoginOK, Resolved
<1>2. CASE NextJob
  <2>1. CASE job = "publish"
    BY <1>2, <2>1 DEF NextJob, GoOn, fileVars, JobInv, ContainerOK, ReleaseOK, PreflightOK, LoginOK, Resolved
  <2>2. CASE job # "publish"
    BY <1>2, <2>2, JobStarts DEF NextJob
  <2> QED
    BY <2>1, <2>2
<1>3. CASE RerunJob
  BY <1>3, JobStarts DEF RerunJob
<1> QED
  BY <1>1, <1>2, <1>3, JobPrepares, JobResolves DEF JobNext

\* A job that gets as far as build-push or publish has its tools, images to push
\* and a login for the registry of each, or pushes nothing, and has not prefixed
\* a package source twice, in whatever environment, however the variant table is
\* edited between the jobs and however often one of them is run again (prepare,
\* resolve, preflight and login between them).
THEOREM ReadyAlwaysCanPush == JobSpec => []ReadyCanPush
<1>1. JobInv => ReadyCanPush
  BY DEF JobInv, ReadyCanPush, ContainerOK, ReleaseOK, PreflightOK, LoginOK, Resolved
<1> QED
  BY <1>1, JobBegins, JobGoesOn, PTL DEF JobSpec
----------------------------------------------------------------------------

\* The build arguments that are injected and configured.
ArgsFrom(e) == WithDefaultBuildArgs(e, ClassifyEndpoints(e))

\* The state file has the build arguments resolve has computed, from the
\* variables as they still are.
ArgsInv ==
    /\ EndpointsDiffer(env)
    /\ Resolved => "buildArgs" \in DOMAIN rel
    /\ Resolved \/ builds # << >> => rel.buildArgs = ArgsFrom(env)

\* Over has the keys of both arguments and prefers the first.
LEMMA OverPrefersFirst ==
    ASSUME NEW a, NEW b
    PROVE  /\ DOMAIN Over(a, b) = DOMAIN a \cup DOMAIN b
           /\ \A k \in DOMAIN a : Over(a, b)[k] = a[k]
           /\ \A k \in DOMAIN b \ DOMAIN a : Over(a, b)[k] = b[k]
BY DEF Over

\* What resolve adds to the configured build arguments names a repository only
\* if it is one: withDefaultBuildArgs on what classifyEndpoints has found.
LEMMA InjectedAreMirrors ==
    ASSUME NEW e
    PROVE  /\ \A k \in DOMAIN e.buildArgs : k \in DOMAIN ArgsFrom(e) /\ ArgsFrom(e)[k] = e.buildArgs[k]
           /\ \A k \in Repositories \cap (DOMAIN ArgsFrom(e) \ DOMAIN e.buildArgs) :
                  \/ IsMirror(e.npm) /\ ArgsFrom(e)[k] = e.npm.value
                  \/ IsMirror(e.apt) /\ ArgsFrom(e)[k] = e.apt.value
                  \/ e.apkRepo # "" /\ ArgsFrom(e)[k] = e.apkRepo
<1> DEFINE ends == ClassifyEndpoints(e)
<1> DEFINE candidate ==
        [VERSION |-> "version", GOPROXY |-> e.goproxy,
         NPM_REGISTRY |-> ends.npmRegistry, APT_PROXY |-> ends.aptMirror,
         APK_PROXY |-> IF e.apkRepo # "" THEN e.apkRepo ELSE ends.aptMirror,
         YUM_REPO |-> e.yumRepo]
<1> DEFINE injected == {k \in DOMAIN candidate : candidate[k] # "" /\ k \notin DOMAIN e.buildArgs}
<1> DEFINE added == [k \in injected |-> candidate[k]]
<1>1. ArgsFrom(e) = Over(added, e.buildArgs)
  BY DEF ArgsFrom, WithDefaultBuildArgs
<1>2. /\ DOMAIN added = injected
      /\ \A k \in injected : added[k] = candidate[k] /\ candidate[k] # "" /\ k \notin DOMAIN e.buildArgs
  OBVIOUS
<1>3. /\ ends.npmRegistry = IF IsMirror(e.npm) THEN e.npm.value ELSE ""
      /\ ends.aptMirror = IF IsMirror(e.apt) THEN e.apt.value ELSE ""
  BY DEF ClassifyEndpoints
<1>4. ASSUME NEW k \in Repositories, candidate[k] # ""
      PROVE  \/ IsMirror(e.npm) /\ candidate[k] = e.npm.value
             \/ IsMirror(e.apt) /\ candidate[k] = e.apt.value
             \/ e.apkRepo # "" /\ candidate[k] = e.apkRepo
  <2> HIDE DEF ends
  <2>1. /\ candidate["NPM_REGISTRY"] = ends.npmRegistry
        /\ candidate["APT_PROXY"] = ends.aptMirror
        /\ candidate["APK_PROXY"] = IF e.apkRepo # "" THEN e.apkRepo ELSE ends.aptMirror
    OBVIOUS
  <2> QED
    BY <1>3, <1>4, <2>1 DEF Repositories
<1> HIDE DEF candidate, injected, added
<1> QED
  <2>1. /\ DOMAIN Over(added, e.buildArgs) = DOMAIN added \cup DOMAIN e.buildArgs
        /\ \A k \in DOMAIN added : Over(added, e.buildArgs)[k] = added[k]
        /\ \A k \in DOMAIN e.buildArgs \ DOMAIN added : Over(added, e.buildArgs)[k] = e.buildArgs[k]
    BY OverPrefersFirst
  <2>2. injected = DOMAIN added /\ DOMAIN added \cap DOMAIN e.buildArgs = {}
    BY <1>2
  <2>3. ASSUME NEW k \in DOMAIN e.buildArgs
        PROVE  k \in DOMAIN ArgsFrom(e) /\ ArgsFrom(e)[k] = e.buildArgs[k]
    BY <1>1, <2>1, <2>2
  <2>4. ASSUME NEW k \in Repositories \cap (DOMAIN ArgsFrom(e) \ DOMAIN e.buildArgs)
        PROVE  \/ IsMirror(e.npm) /\ ArgsFrom(e)[k] = e.npm.value
               \/ IsMirror(e.apt) /\ ArgsFrom(e)[k] = e.apt.value
               \/ e.apkRepo # "" /\ ArgsFrom(e)[k] = e.apkRepo
    <3>1. k \in injected /\ ArgsFrom(e)[k] = candidate[k] /\ candidate[k] # ""
      BY <1>1, <1>2, <2>1, <2>2
    <3> QED
      BY <1>4, <3>1
  <2> QED
    BY <2>3, <2>4

LEMMA ArgsInit == EndpointsAssumption /\ JobInit => ArgsInv
BY DEF EndpointsAssumption, JobInit, ArgsInv, Resolved

\* The variant table may be edited between two jobs, the endpoints not.
LEMMA ArgsStart ==
    ASSUME ArgsInv, NEW j, StartJob(j)
    PROVE  ArgsInv'
<1>1. /\ \E table : env' = [env EXCEPT !.table = table]
      /\ builds' = << >> /\ pc' = "locate-action"
  BY DEF StartJob, GoOn
<1>2. EndpointsDiffer(env')
  BY <1>1 DEF ArgsInv, EndpointsDiffer
<1> QED
  BY <1>1, <1>2 DEF ArgsInv, Resolved

\* Every other step leaves the environment alone, and what it writes to the
\* state file it has computed from it.
LEMMA ArgsStep ==
    ASSUME ArgsInv, JobInv,
           \/ LocateAction \/ VerifyAction \/ PlanMatrix
           \/ EnsureDaemon \/ StartDockerd \/ ConfigurePackageSources
           \/ EnsureBuildx \/ InstallPackages \/ EnsureBinfmt
           \/ ResolveRelease \/ Preflight \/ Login \/ ComputeBuilds
    PROVE  ArgsInv'
<1> USE DEF ArgsInv, Resolved, GoOn, fileVars
<1>1. env' = env
  BY DEF LocateAction, VerifyAction, PlanMatrix, EnsureDaemon, StartDockerd,
         ConfigurePackageSources, EnsureBuildx, InstallPackages, EnsureBinfmt,
         ResolveRelease, Preflight, Login, ComputeBuilds, Fail, After
<1>2. ArgsFrom(env') = ArgsFrom(env) /\ EndpointsDiffer(env')
  BY <1>1
<1>3. CASE Fail
  BY <1>2, <1>3 DEF Fail
<1>4. CASE ~Fail
  <2> USE <1>4, <1>2
  <2>1. CASE LocateAction \/ VerifyAction \/ PlanMatrix
    BY <2>1 DEF LocateAction, VerifyAction, PlanMatrix, JobInv
  <2>2. CASE EnsureDaemon \/ StartDockerd
    BY <2>2 DEF EnsureDaemon, StartDockerd, After
  <2>3. CASE ConfigurePackageSources \/ EnsureBuildx \/ InstallPackages \/ EnsureBinfmt
    BY <2>3 DEF ConfigurePackageSources, EnsureBuildx, InstallPackages, EnsureBinfmt, After
  <2>4. CASE ResolveRelease
    <3>1. rel'.buildArgs = ArgsFrom(env) /\ "buildArgs" \in DOMAIN rel'
      BY <2>4 DEF ResolveRelease, ArgsFrom
    <3> QED
      BY <3>1
  <2>5. CASE Preflight
    BY <2>5 DEF Preflight
  <2>6. CASE Login
    <3>1. rel'.buildArgs = rel.buildArgs /\ "buildArgs" \in DOMAIN rel' /\ pc = "login"
      BY <2>6 DEF Login
    <3> QED
      BY <3>1
  <2>7. CASE ComputeBuilds
    BY <2>7 DEF ComputeBuilds
  <2> QED
    BY <2>1, <2>2, <2>3, <2>4, <2>5, <2>6, <2>7
<1> QED
  BY <1>3, <1>4

LEMMA ArgsNext == ArgsInv /\ JobInv /\ [JobNext]_jobVars => ArgsInv'
<1> SUFFICES ASSUME ArgsInv, JobInv, [JobNext]_jobVars PROVE ArgsInv'
  OBVIOUS
<1>1. CASE UNCHANGED jobVars
  <2>1. env' = env /\ rel' = rel /\ builds' = builds /\ pc' = pc /\ job' = job
    BY <1>1 DEF jobVars
  <2> QED
    BY <2>1 DEF ArgsInv, Resolved
<1>2. CASE NextJob
  <2>1. CASE job = "publish"
    BY <1>2, <2>1 DEF NextJob, GoOn, fileVars, ArgsInv, Resolved
  <2>2. CASE job # "publish"
    BY <1>2, <2>2, ArgsStart DEF NextJob
  <2> QED
    BY <2>1, <2>2
<1>3. CASE RerunJob
  BY <1>3, ArgsStart DEF RerunJob
<1> QED
  BY <1>1, <1>2, <1>3, ArgsStep DEF JobNext

\* The build arguments an administrator has configured reach every build, and
\* what was found not to be a mirror becomes a repository only where it was
\* configured as one, if an address tells which setting it comes from
\* (resolveEndpoint, withDefaultBuildArgs, effectiveBuildArgs).
THEOREM ArgsAlwaysConfigured == EndpointsAssumption => (JobSpec => []ArgsAsConfigured)
<1> SUFFICES ASSUME EndpointsAssumption PROVE JobSpec => []ArgsAsConfigured
  OBVIOUS
<1>1. ArgsInv => ArgsAsConfigured
  <2> SUFFICES ASSUME ArgsInv, NEW i \in DOMAIN builds
               PROVE  LET args == EffectiveBuildArgs(builds[i].args, rel.buildArgs, env.proxies)
                      IN  /\ \A k \in DOMAIN env.buildArgs : args[k] = env.buildArgs[k]
                          /\ \A k \in Repositories \cap DOMAIN args :
                                 (env.apt.probe = "refuses" /\ args[k] = env.apt.value)
                                     \/ (env.npm.probe = "refuses" /\ args[k] = env.npm.value)
                                 => k \in DOMAIN env.buildArgs \cup DOMAIN builds[i].args
    BY DEF ArgsAsConfigured
  <2> DEFINE own == builds[i].args
             under == Over(own, env.proxies)
             args == Over(rel.buildArgs, under)
  <2>1. EffectiveBuildArgs(builds[i].args, rel.buildArgs, env.proxies) = args
    BY DEF EffectiveBuildArgs
  <2>2. rel.buildArgs = ArgsFrom(env)
    BY DEF ArgsInv
  <2>3. /\ DOMAIN under = DOMAIN own \cup DOMAIN env.proxies
        /\ DOMAIN args = DOMAIN ArgsFrom(env) \cup DOMAIN under
        /\ \A k \in DOMAIN ArgsFrom(env) : args[k] = ArgsFrom(env)[k]
    <3>1. DOMAIN under = DOMAIN own \cup DOMAIN env.proxies
      BY OverPrefersFirst
    <3> HIDE DEF under
    <3>2. /\ DOMAIN args = DOMAIN rel.buildArgs \cup DOMAIN under
          /\ \A k \in DOMAIN rel.buildArgs : args[k] = rel.buildArgs[k]
      BY OverPrefersFirst
    <3> QED
      BY <2>2, <3>1, <3>2
  <2> HIDE DEF own, args
  <2>4. \A k \in DOMAIN env.buildArgs : args[k] = env.buildArgs[k]
    BY <2>3, InjectedAreMirrors
  <2>5. ASSUME NEW k \in Repositories \cap DOMAIN args, k \notin DOMAIN env.buildArgs, k \notin DOMAIN own,
               (env.apt.probe = "refuses" /\ args[k] = env.apt.value)
                   \/ (env.npm.probe = "refuses" /\ args[k] = env.npm.value)
        PROVE  FALSE
    <3>1. k \in DOMAIN ArgsFrom(env) \ DOMAIN env.buildArgs
      BY <2>3, <2>5 DEF ArgsInv, EndpointsDiffer
    <3>2. \/ IsMirror(env.npm) /\ args[k] = env.npm.value
          \/ IsMirror(env.apt) /\ args[k] = env.apt.value
          \/ env.apkRepo # "" /\ args[k] = env.apkRepo
      BY <2>3, <3>1, InjectedAreMirrors
    <3> QED
      BY <2>5, <3>2 DEF ArgsInv, EndpointsDiffer, IsMirror
  <2> QED
    BY <2>1, <2>4, <2>5 DEF own
<1>2. JobInit => ArgsInv /\ JobInv
  BY JobBegins, ArgsInit
<1>3. ArgsInv /\ JobInv /\ [JobNext]_jobVars => (ArgsInv /\ JobInv)'
  BY JobGoesOn, ArgsNext
<1> QED
  BY <1>1, <1>2, <1>3, PTL DEF JobSpec
----------------------------------------------------------------------------
(* The variants of the jobs.                                                *)

\* The plan job has chosen some variants, and none of them is the separator.
MatrixKnown == ToSet(matrix) # {} /\ Separator \notin ToSet(matrix)

\* The later jobs run on what the plan job has chosen: the state file has these
\* variants, and so have the builds that are computed from it.
MatrixInv ==
    /\ job = "plan" =>
           builds = << >> /\ pc \in {"locate-action", "verify-action", "plan-matrix", "ready", "failed"}
    /\ job # "plan" => pc # "plan-matrix"
    /\ job # "plan" \/ pc = "ready" => MatrixKnown
    /\ pc \in {"preflight", "login", "meta"} =>
           "variants" \in DOMAIN rel /\ Names(rel.variants) = ToSet(matrix)
    /\ builds # << >> => Names(builds) = ToSet(matrix)

\* The rows keep their names when their columns are read.
LEMMA ParsedNames ==
    ASSUME NEW table
    PROVE  DOMAIN ParseVariants(table) = DOMAIN table
           /\ \A i \in DOMAIN table : ParseVariants(table)[i].name = table[i].name
BY DEF ParseVariants

\* What is selected are the variants that are wanted, or all of them.
LEMMA SelectedAre ==
    ASSUME SelectionOK
    PROVE  LET wanted == SplitList(InputVariants)
               named  == Names(ParseVariants(VariantTableRaw(env, dir)))
           IN  /\ Names(Selected) = IF wanted = {} THEN named ELSE wanted
               /\ Names(Selected) # {} /\ Separator \notin Names(Selected)
<1> DEFINE table == VariantTableRaw(env, dir)
           rows == ParseVariants(table)
           wanted == SplitList(InputVariants)
           chosen == {i \in DOMAIN rows : wanted = {} \/ rows[i].name \in wanted}
<1>1. /\ DOMAIN table # {} /\ wanted \subseteq Names(rows)
      /\ \A i \in DOMAIN table : table[i].name # Separator
  BY DEF SelectionOK, ValidTable, ValidSelection
<1>2. DOMAIN rows = DOMAIN table /\ \A i \in DOMAIN table : rows[i].name = table[i].name
  BY ParsedNames
<1>3. Selected = [i \in chosen |-> rows[i]]
  BY DEF Selected, VariantSelection, RestrictValues, Restrict
<1> HIDE DEF rows, table, wanted
<1>4. Names(Selected) = {rows[i].name : i \in chosen}
  BY <1>3 DEF Names
<1>5. Names(rows) = {rows[i].name : i \in DOMAIN rows}
  BY DEF Names
<1>6. Names(Selected) = IF wanted = {} THEN Names(rows) ELSE wanted
  BY <1>1, <1>4, <1>5
<1>7. Names(rows) # {} /\ Separator \notin Names(rows)
  BY <1>1, <1>2, <1>5
<1> QED
  BY <1>1, <1>6, <1>7 DEF rows, wanted, table

\* Nothing is planned before the first program.
LEMMA MatrixInit == JobInit => MatrixInv
BY DEF JobInit, MatrixInv

\* A job starts without builds; it works on the matrix the plan job has left.
LEMMA MatrixStarts ==
    ASSUME MatrixInv, NEW j, StartJob(j), matrix' = matrix, j # "plan" => MatrixKnown
    PROVE  MatrixInv'
BY DEF MatrixInv, MatrixKnown, StartJob, GoOn

\* The plan job writes the matrix.
LEMMA MatrixPlanned ==
    ASSUME MatrixInv, JobInv, PlanMatrix, ~Fail
    PROVE  MatrixInv'
<1>1. /\ SelectionOK /\ job = "plan" /\ job' = job /\ builds' = builds /\ pc' = "ready"
      /\ matrix' = [i \in DOMAIN Selected |-> Selected[i].name]
  BY DEF PlanMatrix, GoOn, fileVars, JobInv
<1>2. ToSet(matrix') = Names(Selected)
  BY <1>1 DEF ToSet, Names
<1>3. MatrixKnown'
  BY <1>1, <1>2, SelectedAre DEF MatrixKnown
<1> QED
  BY <1>1, <1>3 DEF MatrixInv

\* resolve finds the variants of the matrix in the table, or throws.
LEMMA MatrixResolved ==
    ASSUME MatrixInv, ResolveRelease, ~Fail
    PROVE  MatrixInv'
<1>1. /\ SelectionOK /\ pc = "resolve" /\ pc' = "preflight"
      /\ "variants" \in DOMAIN rel' /\ rel'.variants = Selected
      /\ job' = job /\ matrix' = matrix /\ builds' = builds
  BY DEF ResolveRelease, GoOn
<1>2. job # "plan" /\ MatrixKnown
  BY <1>1 DEF MatrixInv
<1>3. SplitList(InputVariants) = ToSet(matrix) /\ ToSet(matrix) # {}
  BY <1>2 DEF InputVariants, SplitList, MatrixKnown
<1>4. Names(Selected) = ToSet(matrix)
  BY <1>1, <1>3, SelectedAre
<1> QED
  BY <1>1, <1>2, <1>4 DEF MatrixInv, MatrixKnown

\* meta plans a build for each variant of the state file.
LEMMA MatrixBuilt ==
    ASSUME MatrixInv, ComputeBuilds, ~Fail
    PROVE  MatrixInv'
<1>1. /\ pc = "meta" /\ pc' = "ready" /\ builds' = PlanBuilds(rel, env.rules, env.flavor)
      /\ job' = job /\ matrix' = matrix /\ rel' = rel
  BY DEF ComputeBuilds, GoOn
<1>2. job # "plan" /\ MatrixKnown /\ Names(rel.variants) = ToSet(matrix)
  BY <1>1 DEF MatrixInv
<1>3. \/ builds' = << >>
      \/ DOMAIN builds' = DOMAIN rel.variants
         /\ \A i \in DOMAIN builds' : builds'[i].name = rel.variants[i].name
  BY <1>1 DEF PlanBuilds
<1>4. builds' # << >> => Names(builds') = Names(rel.variants)
  BY <1>3 DEF Names
<1> QED
  BY <1>1, <1>2, <1>4 DEF MatrixInv, MatrixKnown

\* The other programs leave the matrix, the variants and the builds alone.
LEMMA MatrixKept ==
    ASSUME MatrixInv,
           \/ LocateAction \/ VerifyAction
           \/ EnsureDaemon \/ StartDockerd \/ ConfigurePackageSources
           \/ EnsureBuildx \/ InstallPackages \/ EnsureBinfmt
           \/ Preflight \/ Login,
           ~Fail
    PROVE  MatrixInv'
<1>1. /\ job' = job /\ matrix' = matrix /\ builds' = builds
      /\ rel' = rel \/ rel' = [rel EXCEPT !.logins = rel.registries]
      /\ pc \notin {"ready", "resolve", "meta", "plan-matrix", "failed", "done"}
  <2> USE DEF fileVars
  <2>1. CASE LocateAction
    BY <2>1 DEF LocateAction
  <2>2. CASE VerifyAction
    BY <2>2 DEF VerifyAction
  <2>3. CASE EnsureDaemon
    BY <2>3 DEF EnsureDaemon
  <2>4. CASE StartDockerd
    BY <2>4 DEF StartDockerd
  <2>5. CASE ConfigurePackageSources
    BY <2>5 DEF ConfigurePackageSources
  <2>6. CASE EnsureBuildx \/ InstallPackages
    BY <2>6 DEF EnsureBuildx, InstallPackages
  <2>7. CASE EnsureBinfmt
    BY <2>7 DEF EnsureBinfmt
  <2>8. CASE Preflight
    BY <2>8 DEF Preflight
  <2>9. CASE Login
    BY <2>9 DEF Login
  <2> QED
    BY <2>1, <2>2, <2>3, <2>4, <2>5, <2>6, <2>7, <2>8, <2>9
<1>2. /\ job = "plan" => pc' \in {"verify-action", "plan-matrix"}
      /\ pc' \notin {"ready", "done", "failed"}
      /\ job # "plan" => pc' # "plan-matrix"
      /\ pc' \in {"preflight", "login", "meta"} => pc \in {"preflight", "login", "meta"}
  <2> USE DEF GoOn, After
  <2>1. CASE LocateAction
    BY <2>1 DEF LocateAction
  <2>2. CASE VerifyAction
    <3>1. pc' = IF job = "plan" THEN "plan-matrix" ELSE IF job = "build" THEN "prepare" ELSE "resolve"
      BY <2>2, Zenon DEF VerifyAction
    <3> QED
      BY <3>1
  <2>3. CASE EnsureDaemon
    BY <2>3 DEF EnsureDaemon, MatrixInv
  <2>4. CASE StartDockerd
    BY <2>4 DEF StartDockerd, MatrixInv
  <2>5. CASE ConfigurePackageSources
    BY <2>5 DEF ConfigurePackageSources, MatrixInv
  <2>6. CASE EnsureBuildx
    BY <2>6 DEF EnsureBuildx, MatrixInv
  <2>7. CASE InstallPackages
    BY <2>7 DEF InstallPackages, MatrixInv
  <2>8. CASE EnsureBinfmt
    BY <2>8 DEF EnsureBinfmt, MatrixInv
  <2>9. CASE Preflight \/ Login
    BY <2>9 DEF Preflight, Login, MatrixInv
  <2> QED
    BY <2>1, <2>2, <2>3, <2>4, <2>5, <2>6, <2>7, <2>8, <2>9
<1> QED
  BY <1>1, <1>2 DEF MatrixInv, MatrixKnown

\* Every step of a job keeps it.
LEMMA MatrixNext == JobInv /\ MatrixInv /\ [JobNext]_jobVars => MatrixInv'
<1> SUFFICES ASSUME JobInv, MatrixInv, [JobNext]_jobVars PROVE MatrixInv'
  OBVIOUS
<1>1. CASE UNCHANGED jobVars
  BY <1>1 DEF jobVars, MatrixInv, MatrixKnown
<1>2. CASE Fail
  BY <1>2 DEF Fail, GoOn, MatrixInv, MatrixKnown
<1>3. CASE NextJob
  <2>1. CASE job = "publish"
    BY <1>3, <2>1 DEF NextJob, GoOn, fileVars, MatrixInv, MatrixKnown
  <2>2. CASE job # "publish"
    <3>1. PICK j : StartJob(j) /\ matrix' = matrix /\ pc = "ready"
      BY <1>3, <2>2 DEF NextJob
    <3> QED
      BY <3>1, MatrixStarts DEF MatrixInv
  <2> QED
    BY <2>1, <2>2
<1>4. CASE RerunJob
  BY <1>4, MatrixStarts DEF RerunJob, MatrixInv
<1> QED
  BY <1>1, <1>2, <1>3, <1>4, MatrixPlanned, MatrixResolved, MatrixBuilt, MatrixKept DEF JobNext

\* Build and publish work on the variants the plan job has chosen, for every
\* variant table, however it is edited between the jobs and however often one of
\* them is run again (plan's output, variantSelection, planBuilds).
THEOREM BuildsAlwaysFollowMatrix == JobSpec => []BuildsFollowMatrix
<1>1. MatrixInv => BuildsFollowMatrix
  BY DEF MatrixInv, BuildsFollowMatrix
<1> QED
  BY <1>1, JobBegins, JobGoesOn, MatrixInit, MatrixNext, PTL DEF JobSpec
=============================================================================
