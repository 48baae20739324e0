--------------------------- MODULE MCImageRelease ---------------------------
(***************************************************************************)
(* Small instances of ImageRelease for TLC.  The final tags are what       *)
(* ImageConfig computes for the runs from one semver rule.                 *)
(***************************************************************************)
EXTENDS ImageRelease, TLC

C == INSTANCE ImageConfig

CONSTANTS r1, r2, r3

\* A push of a tag, a dispatch from a branch that publishes one variant of the
\* same version from newer code, and a dry run of that dispatch.
MCVariants == {"alpine", "slim"}
MCBaseSeq == <<"ghcr", "hub">>
MCSelection == [r \in Runs |-> IF r = r1 THEN <<"alpine", "slim">> ELSE <<"slim">>]
MCVersion == [r \in Runs |-> "1.2.3"]
MCSha == [r \in Runs |-> IF r = r1 THEN "a" ELSE "b"]
MCRef == [r \in Runs |-> IF r = r1 THEN "v1.2.3" ELSE "main"]

Rule ==
    [type |-> "semver", pattern |-> "version", event |-> "", value |-> <<>>, yields |-> <<>>,
     prefix |-> <<>>, suffix |-> <<>>, enable |-> TRUE, priority |-> 0, malformed |-> FALSE]
Flavor == [latest |-> "auto", prefix |-> <<>>, suffix |-> <<>>, onlatest |-> FALSE]

Table ==
    << [name |-> "alpine", suffix |-> <<"-", "alpine">>, isDefault |-> FALSE, args |-> << >>, platforms |-> {}],
       [name |-> "slim", suffix |-> <<>>, isDefault |-> TRUE, args |-> << >>, platforms |-> {}] >>

Spelt(t) == CASE t \in {"latest", "slim", "alpine"} -> <<t>>
              [] t = "1.2.3" -> <<"1", ".", "2", ".", "3">>
              [] t = "1.2.3-alpine" -> <<"1", ".", "2", ".", "3", "-", "alpine">>

BuildsOf(r) ==
    C!PlanBuilds([refName |-> Spelt("1.2.3"), tag |-> Spelt("1.2.3"), sha |-> <<MCSha[r]>>, isTagEvent |-> TRUE,
                  isBranchEvent |-> FALSE, isPrEvent |-> FALSE, prerelease |-> FALSE,
                  variants |-> Table, images |-> {}],
                 <<Rule>>, Flavor)

PlannedTags(r, v) == UNION {IF b.name = v THEN b.tagNames ELSE {} : b \in C!ToSet(BuildsOf(r))}

MCLatest == "latest"
MCTagNames == {"latest", "slim", "1.2.3", "alpine", "1.2.3-alpine"}
MCTagsOf ==
    [p \in Runs \X MCVariants |-> IF p[2] = "slim" THEN {"latest", "slim", "1.2.3"} ELSE {"alpine", "1.2.3-alpine"}]

\* The tags are the ones the meta step plans.
ASSUME TagsAssumption ==
    \A r \in Runs, v \in MCVariants : PlannedTags(r, v) = {Spelt(t) : t \in MCTagsOf[r, v]}
=============================================================================
