------------------------------ MODULE ImageJob ------------------------------
(***************************************************************************)
(* The jobs of one run of the publishing workflow, up to the point where   *)
(* build-push and publish touch the registries: plan, then build, then     *)
(* publish, each in a container of its own that runs the programs of       *)
(* .forgejo/scripts one after the other (run.mjs).  Programs share only the*)
(* state file, which a job starts without, and the outputs of the plan job.*)
(* The repository's variables may be edited between two jobs, a failed job *)
(* may be run again.  What is done with the registries: ImageRelease.      *)
(***************************************************************************)
EXTENDS ImageConfig

CONSTANTS
    Envs,       \* the environments a run may be given
    Edits,      \* the values an administrator may give DOCKER_VARIANTS meanwhile
    MaxReruns   \* bound: re-runs of failed jobs

ASSUME MaxRerunsAssumption == MaxReruns \in Nat

\* The build arguments that name a repository.
Repositories == {"APT_PROXY", "APK_PROXY", "NPM_REGISTRY"}

\* An address tells which setting it comes from, and the proxies of a job are
\* no repositories (PROXY_BUILD_ARGS).
EndpointsDiffer(e) ==
    /\ {"apt", "npm", "apkRepo", "proxies"} \subseteq DOMAIN e
    /\ e.apt.value # "" => e.apt.value \notin {e.npm.value, e.apkRepo}
    /\ e.npm.value # "" => e.npm.value # e.apkRepo
    /\ DOMAIN e.proxies \cap Repositories = {}

ASSUME EndpointsAssumption == \A e \in Envs : EndpointsDiffer(e)

VARIABLES
    env,        \* repository variables, secrets, event and ref
    job,        \* "plan", "build", "publish" or "done"
    pc,         \* the program of the job that runs next; "ready", "failed"
    ctr,        \* the job's container
    dir,        \* FORGEJO_DIR, from locate-action
    matrix,     \* output of the plan job: the selected variants
    rel,        \* the state file: what resolve wrote, and the registries logged in to
    builds,     \* the builds meta added to the state file
    reruns      \* re-runs so far

jobVars == <<env, job, pc, ctr, dir, matrix, rel, builds, reruns>>

NoRelease == [version |-> <<>>]
Candidates == <<"hint", "root", "nested", "parent">>

\* A fresh container; the bootstrap step has rewritten the package sources
\* once when their root is configured.
Container(e) ==
    [cli |-> e.ctr.cli, daemon |-> e.ctr.daemon, dockerd |-> e.ctr.dockerd, buildx |-> e.ctr.buildx,
     attempts |-> <<>>, prefixes |-> IF e.apkRepo # "" THEN 1 ELSE 0, handlers |-> e.ctr.handlers]

JobInit ==
    /\ env \in Envs
    /\ job = "plan" /\ pc = "locate-action"
    /\ ctr = Container(env)
    /\ dir = "" /\ matrix = <<>> /\ rel = NoRelease /\ builds = <<>> /\ reruns = 0

GoOn(program) == pc' = program
Fail == GoOn("failed") /\ UNCHANGED <<env, job, ctr, dir, matrix, rel, builds, reruns>>
fileVars == <<rel, builds>>

----------------------------------------------------------------------------
(* Programs of every job. *)

\* The first candidate with workflows/ and scripts/build-push.mjs.
LocateAction ==
    LET found == SelectInSeq(Candidates, LAMBDA c : env.dirs[c])
    IN  /\ pc = "locate-action"
        /\ IF found = 0 THEN Fail
           ELSE /\ dir' = Candidates[found]
                /\ GoOn("verify-action")
                /\ UNCHANGED <<env, job, ctr, matrix, fileVars, reruns>>

\* A missing script ends the job, a missing daemon or buildx only prints.
VerifyAction ==
    /\ pc = "verify-action"
    /\ IF ~env.complete THEN Fail
       ELSE /\ GoOn(CASE job = "plan" -> "plan-matrix" [] job = "build" -> "prepare" [] OTHER -> "resolve")
            /\ UNCHANGED <<env, job, ctr, dir, matrix, fileVars, reruns>>

\* Mutant: every job reads the dispatch input itself.
InputVariantsAsTyped == DispatchInput(env.variants)

\* INPUT_VARIANTS of the plan job is the dispatch input, of the others the
\* output of the plan job.
InputVariants == IF job = "plan" THEN DispatchInput(env.variants) ELSE matrix

Selected ==
    VariantSelection(ParseVariants(VariantTableRaw(env, dir)), SplitList(InputVariants))

SelectionOK ==
    /\ ValidTable(VariantTableRaw(env, dir))
    /\ ValidSelection(ParseVariants(VariantTableRaw(env, dir)), SplitList(InputVariants))

PlanMatrix ==
    /\ pc = "plan-matrix"
    /\ IF ~SelectionOK THEN Fail
       ELSE /\ matrix' = [i \in DOMAIN Selected |-> Selected[i].name]
            /\ GoOn("ready")
            /\ UNCHANGED <<env, job, ctr, dir, fileVars, reruns>>

----------------------------------------------------------------------------
(* prepare.mjs, in the build job. *)

\* prepare(): what comes after a part that has not thrown.
After(part) ==
    GoOn(CASE part = "daemon" -> "sources" [] part = "sources" -> "buildx"
           [] part = "buildx" -> "packages" [] part = "packages" -> "binfmt"
           [] OTHER -> "resolve")

\* ensureDaemon: nothing to do, no way to do it, or the first dockerd.
EnsureDaemon ==
    /\ pc = "prepare"
    /\ CASE ~ctr.cli \/ (~ctr.daemon /\ ~ctr.dockerd) -> Fail
         [] ctr.daemon -> After("daemon") /\ UNCHANGED <<env, job, ctr, dir, matrix, fileVars, reruns>>
         [] OTHER -> /\ ctr' = [ctr EXCEPT !.attempts = IF env.driver # "" THEN <<env.driver>> ELSE <<"", "vfs">>]
                     /\ GoOn("dockerd")
                     /\ UNCHANGED <<env, job, dir, matrix, fileVars, reruns>>

\* One attempt ends: the daemon answers, or dockerd exits, or the time is up
\* and the next storage driver is tried.  The first dockerd is not stopped.
StartDockerd ==
    /\ pc = "dockerd"
    /\ IF ctr.attempts = <<>> THEN Fail
       ELSE \/ /\ ctr' = [ctr EXCEPT !.daemon = TRUE]
               /\ After("daemon")
               /\ UNCHANGED <<env, job, dir, matrix, fileVars, reruns>>
            \/ /\ ctr' = [ctr EXCEPT !.attempts = Tail(@)]
               /\ UNCHANGED <<env, job, pc, dir, matrix, fileVars, reruns>>

\* configurePackageSources: a list that already names the root is left alone.
ConfigurePackageSources ==
    /\ pc = "sources"
    /\ LET root == IF env.apkRepo # "" THEN env.apkRepo ELSE env.apkProxy
       IN  ctr' = [ctr EXCEPT !.prefixes = IF root # "" /\ @ = 0 THEN 1 ELSE @]
    /\ After("sources")
    /\ UNCHANGED <<env, job, dir, matrix, fileVars, reruns>>

\* ensureBuildx: the image's plugin, the distribution's package or the
\* download; env.installs says whether one of the last two works.
EnsureBuildx ==
    /\ pc = "buildx"
    /\ IF ~ctr.buildx /\ ~env.installs THEN Fail
       ELSE /\ ctr' = [ctr EXCEPT !.buildx = TRUE]
            /\ After("buildx")
            /\ UNCHANGED <<env, job, dir, matrix, fileVars, reruns>>

\* installPackages fails without a package manager or a network.
InstallPackages ==
    /\ pc = "packages"
    /\ IF env.packages /\ ~env.installs THEN Fail
       ELSE After("packages") /\ UNCHANGED <<env, job, ctr, dir, matrix, fileVars, reruns>>

\* The platforms of every row of the table, selected or not.
RequestedPlatforms ==
    LET variants == ParseVariants(VariantTableRaw(env, dir))
    IN  UNION {PlatformsFor(variants[i], env.platforms) : i \in DOMAIN variants} \cup env.platforms

\* The architectures of platforms the host does not execute itself.
Foreign(platforms) == platforms \ {env.arch}

\* ensureBinfmt registers what is missing, or fails, which only warns.
EnsureBinfmt ==
    /\ pc = "binfmt"
    /\ IF ~ValidTable(VariantTableRaw(env, dir)) THEN Fail
       ELSE /\ \/ UNCHANGED ctr
               \/ /\ ~env.skipBinfmt
                  /\ ctr' = [ctr EXCEPT !.handlers = @ \cup Foreign(RequestedPlatforms)]
            /\ After("binfmt")
            /\ UNCHANGED <<env, job, dir, matrix, fileVars, reruns>>

----------------------------------------------------------------------------
(* resolve, preflight, login and meta, in the build and the publish job. *)

ResolveRelease ==
    LET dryRun == IsTruthy(DispatchInput(env.dryRun))
    IN  /\ pc = "resolve"
        /\ IF ~ValidVersion(env) \/ ~SelectionOK \/ ~ValidImages(env, dryRun) THEN Fail
           ELSE /\ rel' = [version |-> StripTagPrefix(RawTag(env)), tag |-> RawTag(env),
                           prerelease |-> IsPrerelease(StripTagPrefix(RawTag(env))),
                           sha |-> env.sha, refName |-> env.ref.name,
                           isTagEvent |-> env.ref.kind = "tags" \/ env.event = "workflow_dispatch",
                           isBranchEvent |-> env.ref.kind = "heads",
                           isPrEvent |-> env.ref.kind = "pull",
                           dryRun |-> dryRun, variants |-> Selected,
                           registries |-> Registries(env), images |-> ImagesFrom(env, dryRun),
                           buildArgs |-> WithDefaultBuildArgs(env, ClassifyEndpoints(env)),
                           logins |-> {}]
                /\ GoOn("preflight")
                /\ UNCHANGED <<env, job, ctr, dir, matrix, builds, reruns>>

\* A token without the account it belongs to.
HalfConfigured ==
    \/ env.hubToken /\ ~env.hubUser
    \/ env.ghcrToken /\ "ghcr" \notin rel.registries

PreflightErrors ==
    \/ HalfConfigured
    \/ ~rel.dryRun /\ (rel.registries = {} \/ rel.images = {})
    \/ ~ValidBuilds(rel, env.rules, env.flavor)
    \/ \E v \in Names(rel.variants) : v \notin env.dockerfiles
    \/ ~ctr.cli \/ ~ctr.buildx \/ (job = "build" /\ ~ctr.daemon)

Preflight ==
    /\ pc = "preflight"
    /\ IF PreflightErrors THEN Fail
       ELSE GoOn("login") /\ UNCHANGED <<env, job, ctr, dir, matrix, fileVars, reruns>>

\* A dry run does not log in; a registry may refuse.
Login ==
    /\ pc = "login"
    /\ \/ /\ rel.dryRun \/ rel.registries # {}
          /\ rel' = IF rel.dryRun THEN rel ELSE [rel EXCEPT !.logins = rel.registries]
          /\ GoOn("meta")
          /\ UNCHANGED <<env, job, ctr, dir, matrix, builds, reruns>>
       \/ ~rel.dryRun /\ Fail

ComputeBuilds ==
    /\ pc = "meta"
    /\ IF ~ValidBuilds(rel, env.rules, env.flavor) THEN Fail
       ELSE /\ builds' = PlanBuilds(rel, env.rules, env.flavor)
            /\ GoOn("ready")
            /\ UNCHANGED <<env, job, ctr, dir, matrix, rel, reruns>>

----------------------------------------------------------------------------
(* The workflow. *)

\* A job starts in a new container, with the variables as they are by then.
StartJob(j) ==
    /\ \E table \in Edits \cup {env.table} : env' = [env EXCEPT !.table = table]
    /\ job' = j /\ GoOn("locate-action")
    /\ ctr' = Container(env) /\ dir' = "" /\ rel' = NoRelease /\ builds' = <<>>

\* needs: the next job starts when the one before it has succeeded.
NextJob ==
    /\ pc = "ready"
    /\ IF job = "publish"
       THEN job' = "done" /\ GoOn("done") /\ UNCHANGED <<env, ctr, dir, fileVars>>
       ELSE StartJob(IF job = "plan" THEN "build" ELSE "publish")
    /\ UNCHANGED <<matrix, reruns>>

RerunJob ==
    /\ pc = "failed" /\ reruns < MaxReruns
    /\ StartJob(job)
    /\ reruns' = reruns + 1
    /\ UNCHANGED matrix

JobNext ==
    \/ LocateAction \/ VerifyAction \/ PlanMatrix
    \/ EnsureDaemon \/ StartDockerd \/ ConfigurePackageSources \/ EnsureBuildx \/ InstallPackages \/ EnsureBinfmt
    \/ ResolveRelease \/ Preflight \/ Login \/ ComputeBuilds
    \/ NextJob \/ RerunJob

JobSpec == JobInit /\ [][JobNext]_jobVars
----------------------------------------------------------------------------
(* Properties. *)

\* The build and the publish job work on the variants the plan job selected,
\* whatever is written into the variant table between the jobs: publish
\* computes everything anew and never promotes a variant that was not to be
\* built (resolve.mjs reads INPUT_VARIANTS through variantSelection).
BuildsFollowMatrix == builds # <<>> => Names(builds) = ToSet(matrix)

\* The fifth column of a row asks for latest, or leaves it to the row that is
\* alone in its table.
AsksForLatest(rows, row) == row.flag = "true" \/ (row.flag = "" /\ Len(rows) = 1)

\* The only row of the table writes false.  .forgejo/README.md says that the row
\* is not made the default then; parseVariants makes it.
LoneRefusal(rows) == Len(rows) = 1 /\ rows[1].flag = "false"

\* Only the variant whose row asks for it gets latest, at most one variant of a
\* job does, and none does when the dispatch leaves that variant out or the
\* release is a pre-release, which gets no major.minor either (parseVariants
\* chooses the default before variantSelection; expandSemverPattern and
\* generateTags both look for the pre-release).  A lone row that refuses latest
\* is the one exception: the code gives it to the row.
LatestIsEarned ==
    builds # <<>> =>
        LET rows == VariantTableRaw(env, dir)
            latest == {i \in DOMAIN builds : <<"latest">> \in builds[i].tagNames}
        IN  /\ Cardinality(latest) <= 1
            /\ \A i \in latest, k \in DOMAIN rows :
                   rows[k].name = builds[i].name =>
                       AsksForLatest(rows, rows[k]) \/ LoneRefusal(rows)
            /\ rel.prerelease =>
                   /\ latest = {}
                   /\ \A i \in DOMAIN builds : SubSeq(rel.version, 1, 3) \notin builds[i].tagNames

\* What the repository says in DOCKER_BUILD_ARGS reaches the build, and a
\* forward proxy never reaches a Dockerfile as a repository unless the
\* repository says so itself (classifyEndpoints, withDefaultBuildArgs,
\* effectiveBuildArgs).
ArgsAsConfigured ==
    \A i \in DOMAIN builds :
        LET args == EffectiveBuildArgs(builds[i].args, rel.buildArgs, env.proxies)
        IN  /\ \A k \in DOMAIN env.buildArgs : args[k] = env.buildArgs[k]
            /\ \A k \in Repositories \cap DOMAIN args :
                   (env.apt.probe = "refuses" /\ args[k] = env.apt.value)
                       \/ (env.npm.probe = "refuses" /\ args[k] = env.npm.value)
                   => k \in DOMAIN env.buildArgs \cup DOMAIN builds[i].args

\* A job that gets as far as build-push or publish has the tools, a registry it
\* is logged in to for every image it would push, and package sources that
\* were rewritten once at the most (prepare, preflight and login between them).
ReadyCanPush ==
    pc = "ready" /\ job # "plan" =>
        /\ ctr.cli /\ ctr.buildx /\ (job = "build" => ctr.daemon)
        /\ ~rel.dryRun => rel.images # {} /\ \A image \in rel.images : image.registry \in rel.logins
        /\ rel.dryRun => rel.logins = {}
        /\ ctr.prefixes <= 1
=============================================================================
