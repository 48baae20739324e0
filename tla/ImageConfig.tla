---------------------------- MODULE ImageConfig ----------------------------
(***************************************************************************)
(* What the image publishing programs compute from the repository          *)
(* variables and the git ref: the variant table, the inputs of a dispatch, *)
(* the registries and image bases, the build arguments and the tags        *)
(* (.forgejo/scripts/config.mjs, resolve.mjs, endpoints.mjs, meta.mjs,     *)
(* build-push.mjs).                                                        *)
(*                                                                         *)
(* A text is a sequence of atoms: a word, a number, "v", "." , "-", "/"    *)
(* (characters no tag may contain).  <<>> is the empty string, which every *)
(* program takes for a variable that is not set.  A program that throws is *)
(* a predicate that is false.                                              *)
(***************************************************************************)
EXTENDS Naturals, FiniteSets, Sequences, SequencesExt, TLC

Names(seq) == {seq[i].name : i \in DOMAIN seq}

----------------------------------------------------------------------------
(* The variant table.  A row has the columns of variants.txt: name, suffix  *)
(* (<<>>, <<"none">> or a text), flag (the fifth column), args              *)
(* (a function from build arguments to values) and platforms; malformed     *)
(* rows have a name, an argument or a platform that does not parse.         *)

DefaultVariants ==
    << [name |-> "alpine", suffix |-> <<"-", "alpine">>, flag |-> "false", malformed |-> FALSE,
        args |-> << >>, platforms |-> {"amd64", "arm64"}],
       [name |-> "slim", suffix |-> <<"-", "slim">>, flag |-> "true", malformed |-> FALSE,
        args |-> << >>, platforms |-> {"amd64", "arm64"}] >>

\* DOCKER_VARIANTS, else the file of the action directory, else the default.
VariantTableRaw(env, dir) ==
    IF env.table # <<>> THEN env.table
    ELSE IF env.files[dir] # <<>> THEN env.files[dir] ELSE DefaultVariants

\* What lists are separated by; no name of a variant has it in it (VARIANT_NAME).
Separator == ","

\* Whatever is not "true" in the fifth column leaves the row unmarked.
Flagged(rows) == {i \in DOMAIN rows : rows[i].flag = "true"}

\* parseVariants does not throw.
ValidTable(rows) ==
    /\ DOMAIN rows # {}
    /\ \A i \in DOMAIN rows : ~rows[i].malformed /\ rows[i].name # Separator
    /\ \A i, j \in DOMAIN rows : rows[i].name = rows[j].name => i = j
    /\ Cardinality(Flagged(rows)) <= 1
    /\ Flagged(rows) = {} => Len(rows) = 1

\* A lone variant is its own default, whatever its fifth column says.
ParseVariants(rows) ==
    [i \in DOMAIN rows |->
        [name |-> rows[i].name,
         suffix |-> CASE rows[i].suffix = <<>> -> <<"-", rows[i].name>>
                      [] rows[i].suffix = <<"none">> -> <<>>
                      [] OTHER -> rows[i].suffix,
         isDefault |-> i \in Flagged(rows) \/ Flagged(rows) = {},
         args |-> rows[i].args,
         platforms |-> rows[i].platforms]]

\* The names of a comma separated list.
SplitList(text) == ToSet(text) \ {Separator}

ValidSelection(variants, wanted) == wanted \subseteq Names(variants)

\* The variants that are wanted, each at its place in the table.
VariantSelection(variants, wanted) ==
    RestrictValues(variants, LAMBDA v : wanted = {} \/ v.name \in wanted)

PlatformsFor(variant, platforms) ==
    IF variant.platforms # {} THEN variant.platforms ELSE platforms

----------------------------------------------------------------------------
(* The release: inputs and ref.                                             *)

\* "${{ inputs.x }}", which Forgejo leaves as it is when there are no inputs.
Unexpanded == <<"${{}}">>

\* dispatchInput: the environment variable first, then the event payload.
DispatchInput(input) ==
    IF input.env \in {<<>>, Unexpanded} THEN input.event ELSE input.env

IsTruthy(text) == text \in {<<"1">>, <<"true">>, <<"yes">>, <<"on">>}

StripTagPrefix(text) == IF text # <<>> /\ Head(text) = "v" THEN Tail(text) ELSE text

Digits == {"0", "1", "2", "3"}

\* SEMVER: 1.2.3 or 1.2.3-rc
IsSemver(text) ==
    /\ Len(text) \in {5, 7}
    /\ text[1] \in Digits /\ text[2] = "." /\ text[3] \in Digits /\ text[4] = "."
    /\ text[5] \in Digits
    /\ Len(text) = 7 => text[6] = "-"

IsPrerelease(version) == "-" \in ToSet(version)

RawTag(env) ==
    IF DispatchInput(env.version) # <<>> THEN DispatchInput(env.version) ELSE env.ref.name

\* The checks of resolveRelease on the version.
ValidVersion(env) ==
    LET input == DispatchInput(env.version)
    IN  /\ input # <<>> /\ env.ref.kind = "tags"
               => StripTagPrefix(input) = StripTagPrefix(env.ref.name)
        /\ input = <<>> => env.ref.kind = "tags"
        /\ IsSemver(StripTagPrefix(RawTag(env)))

----------------------------------------------------------------------------
(* Registries and image bases.  An explicit entry of DOCKER_META_IMAGES has *)
(* a host and perhaps a namespace.                                          *)

Registries(env) ==
    {r \in {"ghcr", "dockerhub"} :
        IF r = "ghcr" THEN env.ghcrToken /\ env.owner ELSE env.hubToken /\ env.hubUser}

NormalizeImageBase(raw) == [raw EXCEPT !.host = IF @ = "docker.io" THEN "" ELSE @]

ValidImageBase(raw) ==
    LET base == NormalizeImageBase(raw)
    IN  base.host = "ghcr.io" \/ (base.host = "" /\ base.namespace)

ImageRegistryOf(raw) == IF NormalizeImageBase(raw).host = "ghcr.io" THEN "ghcr" ELSE "dockerhub"

\* Mutant: an image of a registry without credentials is not refused.
ValidImagesUnchecked(env, dryRun) ==
    IF env.metaImages # {} THEN \A raw \in env.metaImages : ValidImageBase(raw) ELSE env.owner

\* imagesFrom does not throw.
ValidImages(env, dryRun) ==
    IF env.metaImages # {}
    THEN \A raw \in env.metaImages :
             ValidImageBase(raw) /\ (ImageRegistryOf(raw) \in Registries(env) \/ dryRun)
    ELSE env.owner

Image(host) == [base |-> [host |-> host, namespace |-> TRUE],
                registry |-> IF host = "ghcr.io" THEN "ghcr" ELSE "dockerhub"]

\* A dry run without credentials previews a ghcr.io image.
ImagesFrom(env, dryRun) ==
    IF env.metaImages # {}
    THEN {[base |-> NormalizeImageBase(raw), registry |-> ImageRegistryOf(raw)] : raw \in env.metaImages}
    ELSE IF Registries(env) = {} /\ dryRun
    THEN {Image("ghcr.io")}
    ELSE {Image(IF r = "ghcr" THEN "ghcr.io" ELSE "") : r \in Registries(env)}

----------------------------------------------------------------------------
(* Build arguments: functions from keys to values.                          *)

\* Mutant: whatever is configured is a mirror.
IsMirrorAlways(endpoint) == endpoint.value # ""

\* resolveEndpoint: a value that answers its own index is a mirror; so is one
\* that cannot be reached or that there is nothing to check against.
IsMirror(endpoint) ==
    endpoint.value # "" /\ endpoint.probe \in {"serves", "unreachable", "unknown suite"}

ClassifyEndpoints(env) ==
    [aptMirror |-> IF IsMirror(env.apt) THEN env.apt.value ELSE "",
     npmRegistry |-> IF IsMirror(env.npm) THEN env.npm.value ELSE ""]

\* The arguments of both, those of the first where they have the same key.
Over(args, others) ==
    [k \in DOMAIN args \cup DOMAIN others |-> IF k \in DOMAIN args THEN args[k] ELSE others[k]]

\* An explicit entry of DOCKER_BUILD_ARGS wins over what is injected.
WithDefaultBuildArgs(env, endpoints) ==
    LET candidate ==
            [VERSION |-> "version", GOPROXY |-> env.goproxy,
             NPM_REGISTRY |-> endpoints.npmRegistry, APT_PROXY |-> endpoints.aptMirror,
             APK_PROXY |-> IF env.apkRepo # "" THEN env.apkRepo ELSE endpoints.aptMirror,
             YUM_REPO |-> env.yumRepo]
        injected == {k \in DOMAIN candidate : candidate[k] # "" /\ k \notin DOMAIN env.buildArgs}
    IN  Over([k \in injected |-> candidate[k]], env.buildArgs)

\* proxiesFrom lies under the variant's own arguments, options over both.
EffectiveBuildArgs(variantArgs, buildArgs, proxies) == Over(buildArgs, Over(variantArgs, proxies))

----------------------------------------------------------------------------
(* Tags.  A rule is a record with type, pattern (of semver), event (of ref), *)
(* value, yields (what the regular expression of a match rule extracts),     *)
(* prefix, suffix, enable and priority (0: not given); flavor has latest,    *)
(* prefix, suffix and onlatest.                                              *)

Supported == {"semver", "ref", "sha", "raw", "match"}

\* parseTagRules, parseFlavor and the checks of computeBuilds do not throw.
ValidRules(rules, flavor) ==
    /\ rules # <<>>
    /\ \A i \in DOMAIN rules : rules[i].type \in Supported /\ ~rules[i].malformed
    /\ flavor.latest \in {"auto", "true", "false"}

DefaultPriority(type) ==
    CASE type = "semver" -> 900 [] type = "match" -> 800 [] type = "ref" -> 600
      [] type = "raw" -> 200 [] OTHER -> 100

Priority(rule) == IF rule.priority # 0 THEN rule.priority ELSE DefaultPriority(rule.type)

RenderExpression(text, ctx) ==
    FlattenSeq([i \in DOMAIN text |->
        CASE text[i] = "{{branch}}" -> ctx.branch
          [] text[i] = "{{tag}}" -> ctx.tag
          [] text[i] = "{{sha}}" -> ctx.sha
          [] OTHER -> <<text[i]>>])

\* Mutant: pre-releases are like other versions.
ExpandSemverPatternPlain(pattern, version, raw) ==
    CASE pattern = "version" -> version
      [] pattern = "raw" -> raw
      [] pattern = "major.minor" -> SubSeq(version, 1, 3)
      [] OTHER -> <<version[1]>>

\* A pattern without {{version}} or {{raw}} yields nothing for a pre-release.
ExpandSemverPattern(pattern, version, raw) ==
    CASE pattern = "version" -> version
      [] pattern = "raw" -> raw
      [] IsPrerelease(version) -> <<>>
      [] pattern = "major.minor" -> SubSeq(version, 1, 3)
      [] OTHER -> <<version[1]>>

\* The tag one rule contributes; a ref rule applies its own prefix and suffix,
\* which generateTags applies again.
RuleTagName(rule, ctx) ==
    LET value == RenderExpression(rule.value, ctx)
        prefix == RenderExpression(rule.prefix, ctx)
        Around(text) == prefix \o text \o RenderExpression(rule.suffix, ctx)
        subject == IF value # <<>> THEN value ELSE ctx.tag
    IN  CASE rule.type = "raw" -> value
          [] rule.type = "sha" -> (IF rule.prefix = <<>> THEN <<"sha", "-">> ELSE prefix) \o ctx.sha
          [] rule.type = "ref" ->
                CASE rule.event = "tag" -> IF ctx.isTagEvent THEN Around(ctx.tag) ELSE <<>>
                  [] rule.event = "branch" -> IF ctx.isBranchEvent THEN Around(ctx.refName) ELSE <<>>
                  [] OTHER -> IF ~ctx.isPrEvent THEN <<>>
                              ELSE (IF rule.prefix = <<>> THEN <<"pr", "-">> ELSE prefix) \o ctx.refName
          [] rule.type = "match" -> IF subject = <<>> THEN <<>> ELSE rule.yields
          [] OTHER -> IF IsSemver(StripTagPrefix(subject))
                      THEN ExpandSemverPattern(rule.pattern, StripTagPrefix(subject), subject)
                      ELSE <<>>

\* "/" becomes "-", leading "." and "-" go.
SanitizeTagName(text) ==
    LET legal == [i \in DOMAIN text |-> IF text[i] = "/" THEN "-" ELSE text[i]]
        first == SelectInSeq(legal, LAMBDA a : a \notin {".", "-"})
    IN  IF first = 0 THEN <<>> ELSE SubSeq(legal, first, Len(legal))

\* add(): the name goes to the rule of the highest priority, the last of equals.
AddTag(tags, text, priority, isLatest) ==
    LET name == SanitizeTagName(text)
    IN  IF name \in DOMAIN tags /\ tags[name].priority > priority THEN tags
        ELSE (name :> [priority |-> priority, isLatest |-> isLatest]) @@ tags

LatestCapable(rule) ==
    rule.type \in {"semver", "match"} \/ (rule.type = "ref" /\ rule.event = "tag")

\* The tags before the variants' suffixes: a function from names to records.
GenerateTags(rules, flavor, ctx) ==
    LET at == SelectSeq(rules, LAMBDA r : r.enable /\ RuleTagName(r, ctx) # <<>>)
        AddRule(tags, rule) ==
            AddTag(tags,
                   flavor.prefix \o RenderExpression(rule.prefix, ctx) \o RuleTagName(rule, ctx)
                       \o RenderExpression(rule.suffix, ctx) \o flavor.suffix,
                   Priority(rule), FALSE)
        tags == FoldLeft(AddRule, << >>, at)
        latestFrom == {Priority(r) : r \in {r \in ToSet(at) : LatestCapable(r) /\ ~ctx.isPrerelease}}
        latest == IF flavor.onlatest THEN flavor.prefix \o <<"latest">> \o flavor.suffix ELSE <<"latest">>
    IN  IF flavor.latest = "false" \/ latestFrom = {} THEN tags
        ELSE AddTag(tags, latest, Max(latestFrom), TRUE)

\* Every tag but latest with the suffix; for the default variant the
\* unsuffixed ones too; on a tag event the variant's own name.
VariantTagNames(tags, variant, isTagEvent) ==
    LET suffixed == {name \o variant.suffix : name \in {n \in DOMAIN tags : ~tags[n].isLatest}}
        unsuffixed == IF variant.isDefault THEN DOMAIN tags ELSE {}
        floating == IF isTagEvent THEN {<<variant.name>>} ELSE {}
    IN  {SanitizeTagName(name) : name \in suffixed \cup unsuffixed \cup floating}

\* planBuilds: what is built and published for each variant of the release;
\* <<>> when it throws (no tag, or a tag of which nothing legal is left).
PlanBuilds(rel, rules, flavor) ==
    LET ctx == [branch |-> IF rel.isBranchEvent THEN rel.refName ELSE <<>>,
                tag |-> IF rel.isTagEvent THEN rel.tag ELSE <<>>,
                sha |-> rel.sha, refName |-> rel.refName, isTagEvent |-> rel.isTagEvent,
                isBranchEvent |-> rel.isBranchEvent, isPrEvent |-> rel.isPrEvent,
                isPrerelease |-> rel.prerelease]
        tags == GenerateTags(rules, flavor, ctx)
    IN  IF DOMAIN tags = {} \/ <<>> \in DOMAIN tags THEN <<>>
        ELSE [i \in DOMAIN rel.variants |->
                 LET v == rel.variants[i]
                 IN  [name |-> v.name, isDefault |-> v.isDefault, args |-> v.args,
                      platforms |-> v.platforms, images |-> rel.images,
                      tagNames |-> VariantTagNames(tags, v, rel.isTagEvent)]]

DuplicateTags(builds) ==
    \E i, j \in DOMAIN builds : i # j /\ builds[i].tagNames \cap builds[j].tagNames # {}

\* computeBuilds does not throw.
ValidBuilds(rel, rules, flavor) ==
    /\ ValidRules(rules, flavor)
    /\ LET builds == PlanBuilds(rel, rules, flavor)
       IN  builds # <<>> /\ ~DuplicateTags(builds)
=============================================================================
