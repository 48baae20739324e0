---------------------------- MODULE ImageRelease ----------------------------
(***************************************************************************)
(* Runs of the publishing workflow on the registries                       *)
(* (.forgejo/scripts/build-push.mjs, publish.mjs, config.mjs): the build   *)
(* job pushes every variant to a staging tag, the publish job looks whether*)
(* all of them are there and gives them their final tags, one entry of its *)
(* plan after the other.  Runs overlap unless they have the same ref, jobs *)
(* fail at any point and are run again, alone or with the whole run, and   *)
(* staging tags are removed by hand.  What precedes build-push and publish *)
(* in a job is ImageJob; if it fails the job fails.                        *)
(***************************************************************************)
EXTENDS Naturals, Sequences

CONSTANTS
    Runs,
    Variants,
    Bases,          \* image bases, one per registry
    TagNames,
    Latest,         \* the tag latest
    BaseSeq,        \* state.images: the bases in their order
    Selection,      \* state.variants of a run, in the order of the table
    Version,        \* state.version of a run
    Sha,            \* state.shortSha of a run
    Ref,            \* github.ref_name of a run, the concurrency group
    DryRun,         \* the runs that are dry runs
    TagsOf,         \* build.tagNames: the final tags of a run's variant
    MaxFaults       \* bound: failures and removed staging tags

ASSUME MaxFaultsAssumption == MaxFaults \in Nat
ASSUME PlanAssumption ==
    /\ BaseSeq \in Seq(Bases) /\ BaseSeq # <<>>
    /\ \A r \in Runs : Selection[r] \in Seq(Variants) /\ Selection[r] # <<>>
    /\ DryRun \subseteq Runs
    /\ \A r \in Runs, v \in Variants : TagsOf[r, v] \subseteq TagNames

\* computeBuilds refuses two variants that share a tag (findDuplicateTags).
ASSUME DuplicateTagsAssumption ==
    \A r \in Runs : \A i, j \in DOMAIN Selection[r] :
        Selection[r][i] # Selection[r][j] =>
            TagsOf[r, Selection[r][i]] \cap TagsOf[r, Selection[r][j]] = {}

VARIABLES
    phase,      \* how far a run is
    pos,        \* the place in the loop of that phase
    force,      \* DOCKER_FORCE_BUILD as the build job found it
    missing,    \* the staging refs missingStaging has not found
    results,    \* state.results of the publish job: the entries promoted
    staged,     \* the staging refs in the registries, with their content
    final       \* the final tags in the registries, with their content

\* History.
VARIABLES
    mover,      \* the run that has moved each final tag last
    overlapped, \* two runs have been active at the same time
    faults      \* failures and removed staging tags so far

runVars == <<phase, pos, force, missing, results>>
vars == <<runVars, staged, final, mover, overlapped, faults>>

Phases == {"idle", "build", "push", "built", "verify", "promote", "done", "failed build", "failed publish"}
Resting == {"idle", "done", "failed build", "failed publish"}

----------------------------------------------------------------------------
(* Names and plans. *)

\* What is in an image: the source it was built from, and the variant.
Content(r, v) == [version |-> Version[r], sha |-> Sha[r], variant |-> v]

\* Mutant: the staging tag without the commit.
StagingTagNameNoSha(r, v) == [version |-> Version[r], sha |-> "nosha", variant |-> v]

\* stagingTagName: staging-<version>-<sha>-<variant>
StagingTagName(r, v) == [version |-> Version[r], sha |-> Sha[r], variant |-> v]

StagingRef(r, v, b) == [tag |-> StagingTagName(r, v), base |-> b]
StagingRefsFor(r, v) == {StagingRef(r, v, BaseSeq[i]) : i \in DOMAIN BaseSeq}

\* publishPlan: for every variant, for every base.
PublishPlans ==
    [r \in Runs |-> [k \in 1 .. (Len(Selection[r]) * Len(BaseSeq)) |->
        [variant |-> Selection[r][((k - 1) \div Len(BaseSeq)) + 1],
         base |-> BaseSeq[((k - 1) % Len(BaseSeq)) + 1]]]]

PublishPlan(r) == PublishPlans[r]

Entries(r) == {PublishPlan(r)[k] : k \in DOMAIN PublishPlan(r)}

\* refExists, stagingComplete
RefExists(ref) == ref \in DOMAIN staged
StagingComplete(r, v) == \A ref \in StagingRefsFor(r, v) : RefExists(ref)

----------------------------------------------------------------------------

Init ==
    /\ phase = [r \in Runs |-> "idle"]
    /\ pos = [r \in Runs |-> 1]
    /\ force = [r \in Runs |-> FALSE]
    /\ missing = [r \in Runs |-> {}]
    /\ results = [r \in Runs |-> {}]
    /\ staged = << >>
    /\ final = [b \in Bases |-> << >>]
    /\ mover = [b \in Bases |-> << >>]
    /\ overlapped = FALSE
    /\ faults = 0

Fault == faults < MaxFaults /\ faults' = faults + 1

Goto(r, p, n) ==
    /\ phase' = [phase EXCEPT ![r] = p]
    /\ pos' = [pos EXCEPT ![r] = n]

\* The build job: of a new run, or of a run that is run again as a whole.
StartBuild(r) ==
    /\ phase[r] \in Resting
    /\ \A q \in Runs \ {r} : Ref[q] = Ref[r] => phase[q] \in Resting
    /\ Goto(r, "build", 1)
    /\ \E f \in BOOLEAN : force' = [force EXCEPT ![r] = f]
    /\ results' = [results EXCEPT ![r] = {}]
    /\ overlapped' = (overlapped \/ \E q \in Runs \ {r} : phase[q] \notin Resting)
    /\ UNCHANGED <<missing, staged, final, mover, faults>>

\* The next variant of the loop in build-push: reused, built, or none is left.
SkipBuild(r) ==
    /\ phase[r] = "build" /\ pos[r] <= Len(Selection[r])
    /\ r \notin DryRun /\ ~force[r] /\ StagingComplete(r, Selection[r][pos[r]])
    /\ Goto(r, "build", pos[r] + 1)
    /\ UNCHANGED <<force, missing, results, staged, final, mover, overlapped, faults>>

BuildOneVariant(r) ==
    /\ phase[r] = "build" /\ pos[r] <= Len(Selection[r])
    /\ r \in DryRun \/ force[r] \/ ~StagingComplete(r, Selection[r][pos[r]])
    /\ Goto(r, "push", pos[r])
    /\ UNCHANGED <<force, missing, results, staged, final, mover, overlapped, faults>>

BuildsDone(r) ==
    /\ phase[r] = "build" /\ pos[r] > Len(Selection[r])
    /\ Goto(r, "built", 1)
    /\ UNCHANGED <<force, missing, results, staged, final, mover, overlapped, faults>>

\* The images of variant v reach the staging tags refs.
Pushed(r, v, refs) ==
    /\ staged' = [ref \in DOMAIN staged \cup refs |->
                     IF ref \in refs THEN Content(r, v) ELSE staged[ref]]
    /\ UNCHANGED <<force, missing, results, final, mover, overlapped>>

\* --push, or --output type=cacheonly
Pushes(r) == r \notin DryRun

\* docker buildx build ends: all staging tags are pushed, or the build or one
\* of the pushes has failed and the job ends.
PushStaging(r) ==
    /\ phase[r] = "push"
    /\ LET v == Selection[r][pos[r]]
       IN  \/ /\ Pushed(r, v, IF Pushes(r) THEN StagingRefsFor(r, v) ELSE {})
              /\ Goto(r, "build", pos[r] + 1)
              /\ UNCHANGED faults
           \/ /\ Fault
              /\ \E refs \in SUBSET StagingRefsFor(r, v) : Pushed(r, v, IF Pushes(r) THEN refs ELSE {})
              /\ Goto(r, "failed build", 1)

\* The publish job, after the build job or run again by itself: a dry run
\* ends it.
StartPublish(r) ==
    /\ phase[r] = "built" \/ (phase[r] = "failed publish" /\
           \A q \in Runs \ {r} : Ref[q] = Ref[r] => phase[q] \in Resting)
    /\ Goto(r, IF r \in DryRun THEN "done" ELSE "verify", 1)
    /\ missing' = [missing EXCEPT ![r] = {}]
    /\ results' = [results EXCEPT ![r] = {}]
    /\ overlapped' = (overlapped \/ \E q \in Runs \ {r} : phase[q] \notin Resting)
    /\ UNCHANGED <<force, staged, final, mover, faults>>

\* missingStaging asks for one entry after the other.
CheckStaging(r) ==
    /\ phase[r] = "verify" /\ pos[r] \in DOMAIN PublishPlan(r)
    /\ LET e == PublishPlan(r)[pos[r]]
           ref == StagingRef(r, e.variant, e.base)
       IN  missing' = [missing EXCEPT ![r] = IF RefExists(ref) THEN @ ELSE @ \cup {ref}]
    /\ Goto(r, "verify", pos[r] + 1)
    /\ UNCHANGED <<force, results, staged, final, mover, overlapped, faults>>

\* Mutant: what is missing is skipped.
VerifiedAnyway(r) == Goto(r, "promote", 1)

Verified(r) == IF missing[r] = {} THEN Goto(r, "promote", 1) ELSE Goto(r, "failed publish", 1)

MissingStaging(r) ==
    /\ phase[r] = "verify" /\ pos[r] \notin DOMAIN PublishPlan(r)
    /\ Verified(r)
    /\ UNCHANGED <<force, missing, results, staged, final, mover, overlapped, faults>>

\* Tags of base b now name content; other tags stay.
Tagged(f, tags, content) ==
    [t \in DOMAIN f \cup tags |-> IF t \in tags THEN content ELSE f[t]]

Moves(r, b, tags, content) ==
    /\ final' = [final EXCEPT ![b] = Tagged(@, tags, content)]
    /\ mover' = [mover EXCEPT ![b] = Tagged(@, tags, r)]

\* Mutant: a failed promotion is only reported.
PromotionFailedGoesOn(r) == Goto(r, "promote", pos[r] + 1)

PromotionFailed(r) == Goto(r, "failed publish", 1)

\* docker buildx imagetools create for one entry: its tags name what the
\* staging tag names now, or it fails, at the latest after some of the tags.
Promote(r) ==
    /\ phase[r] = "promote" /\ pos[r] \in DOMAIN PublishPlan(r)
    /\ LET e == PublishPlan(r)[pos[r]]
           ref == StagingRef(r, e.variant, e.base)
       IN  \/ /\ ~RefExists(ref)
              /\ PromotionFailed(r)
              /\ UNCHANGED <<results, final, mover, faults>>
           \/ /\ RefExists(ref)
              /\ Moves(r, e.base, TagsOf[r, e.variant], staged[ref])
              /\ results' = [results EXCEPT ![r] = @ \cup {e}]
              /\ Goto(r, "promote", pos[r] + 1)
              /\ UNCHANGED faults
           \/ /\ RefExists(ref)
              /\ Fault
              /\ \E tags \in SUBSET TagsOf[r, e.variant] : Moves(r, e.base, tags, staged[ref])
              /\ PromotionFailed(r)
              /\ UNCHANGED results
    /\ UNCHANGED <<force, missing, staged, overlapped>>

PublishDone(r) ==
    /\ phase[r] = "promote" /\ pos[r] \notin DOMAIN PublishPlan(r)
    /\ Goto(r, "done", 1)
    /\ UNCHANGED <<force, missing, results, staged, final, mover, overlapped, faults>>

\* A step before build-push or publish fails, the runner stops, the time is up.
Abort(r) ==
    /\ phase[r] \notin Resting
    /\ Goto(r, IF phase[r] \in {"build", "push"} THEN "failed build" ELSE "failed publish", 1)
    /\ Fault
    /\ UNCHANGED <<force, missing, results, staged, final, mover, overlapped>>

\* Somebody removes a staging tag.
DeleteStaging ==
    /\ \E ref \in DOMAIN staged : staged' = [s \in DOMAIN staged \ {ref} |-> staged[s]]
    /\ Fault
    /\ UNCHANGED <<runVars, final, mover, overlapped>>

RunNext(r) ==
    \/ StartBuild(r) \/ SkipBuild(r) \/ BuildOneVariant(r) \/ PushStaging(r) \/ BuildsDone(r)
    \/ StartPublish(r) \/ CheckStaging(r) \/ MissingStaging(r) \/ Promote(r) \/ PublishDone(r)
    \/ Abort(r)

Next == DeleteStaging \/ \E r \in Runs : RunNext(r)

Spec == Init /\ [][Next]_vars

----------------------------------------------------------------------------
(* Properties. *)

\* Whatever is re-run, overlaps or is removed, a final tag names an image built
\* from the version and the commit of the run that moved it there, for a variant
\* that has this tag: a version that is tagged again with new code never gets the
\* old image (stagingTagName carries the commit).  A run that ends well has moved
\* all its tags on all bases.
FinalFromOwnSource ==
    /\ \A b \in Bases : \A t \in DOMAIN final[b] :
         \E v \in Variants : t \in TagsOf[mover[b][t], v] /\ final[b][t] = Content(mover[b][t], v)
    /\ \A r \in Runs \ DryRun : phase[r] = "done" =>
         \A e \in Entries(r) : TagsOf[r, e.variant] \subseteq DOMAIN final[e.base]

\* Runs that do not overlap leave the registries alike: once every run that
\* was started has been brought to its end, every tag names the same image on
\* every base (publish.mjs promotes the whole plan or fails).
BasesAgree ==
    ~overlapped /\ (\A r \in Runs : phase[r] \in {"idle", "done"}) =>
        \A i, j \in DOMAIN BaseSeq : final[BaseSeq[i]] = final[BaseSeq[j]]

\* "a half-finished run can never move latest" (build-push.mjs).
HalfFinishedKeepsLatest ==
    \A r \in Runs : phase[r] = "failed publish" =>
        \A e \in results[r] : Latest \notin TagsOf[r, e.variant]

\* What a run publishes, for Release.
Images ==
    [r \in Runs |->
        {[content |-> Content(r, e.variant), base |-> e.base, tags |-> TagsOf[r, e.variant]] : e \in Entries(r)}]

\* The images missingStaging has found so far; one that is missing fails the
\* job whatever else is found.
Found(r) ==
    IF missing[r] # {} THEN {}
    ELSE {<<Content(r, PublishPlan(r)[k].variant), PublishPlan(r)[k].base>> :
              k \in {j \in DOMAIN PublishPlan(r) : j < pos[r]}}

\* What Release talks of: the images there are, what each run has found, and
\* the runs that promote.
Available == {<<staged[ref], ref.base>> : ref \in DOMAIN staged}
Seen == [r \in Runs |-> IF phase[r] = "verify" THEN Found(r) ELSE {}]
Approved == {r \in Runs : phase[r] = "promote"}

R == INSTANCE Release WITH
        Plan <- Images, available <- Available, seen <- Seen, approved <- Approved

\* The workflow keeps the promise of Release: final tags are moved only by a
\* publish job that has found every image of its plan, each built from the
\* run's own source, and only to an image that is there (missingStaging
\* before the first promotion, publishPlan, promotionArgv).
ImplementsRelease == R!Spec
=============================================================================
