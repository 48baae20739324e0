----------------------------- MODULE MCImageJob -----------------------------
(***************************************************************************)
(* Environments of ImageJob for TLC: one ordinary environment and those    *)
(* that differ from it in one group of variables, each group in full.      *)
(***************************************************************************)
EXTENDS ImageJob

Row(name, suffix, flag) ==
    [name |-> name, suffix |-> suffix, flag |-> flag, malformed |-> FALSE,
     args |-> << >>, platforms |-> {}]

Alpine == Row("alpine", <<>>, "false")
Slim == Row("slim", <<>>, "true")

Rule(type) ==
    [type |-> type, pattern |-> "version", event |-> "tag", value |-> <<>>, yields |-> <<>>,
     prefix |-> <<>>, suffix |-> <<>>, enable |-> TRUE, priority |-> 0, malformed |-> FALSE]

Semver(pattern) == [Rule("semver") EXCEPT !.pattern = pattern]
DefaultTags == <<Rule("ref"), Semver("version"), Semver("major.minor"), Rule("sha")>>
Auto == [latest |-> "auto", prefix |-> <<>>, suffix |-> <<>>, onlatest |-> FALSE]
NoInput == [env |-> Unexpanded, event |-> <<>>]
Typed(text) == [env |-> text, event |-> text]

Version == <<"1", ".", "2", ".", "3">>
Candidate == Version \o <<"-", "rc">>

Ordinary ==
    [table |-> <<>>, files |-> [d \in ToSet(Candidates) |-> <<Alpine, Slim>>],
     dirs |-> [d \in ToSet(Candidates) |-> d = "root"], complete |-> TRUE,
     version |-> NoInput, variants |-> NoInput, dryRun |-> NoInput,
     ref |-> [kind |-> "tags", name |-> <<"v">> \o Version], event |-> "push", sha |-> <<"abc">>,
     owner |-> TRUE, ghcrToken |-> TRUE, hubToken |-> FALSE, hubUser |-> FALSE, metaImages |-> {},
     apt |-> [value |-> "", probe |-> "serves"], npm |-> [value |-> "", probe |-> "serves"],
     goproxy |-> "", apkRepo |-> "", apkProxy |-> "", yumRepo |-> "",
     buildArgs |-> << >>, proxies |-> << >>, rules |-> DefaultTags, flavor |-> Auto,
     dockerfiles |-> {"alpine", "slim", "tiny"}, driver |-> "", packages |-> FALSE, installs |-> TRUE,
     platforms |-> {"amd64"}, arch |-> "amd64", skipBinfmt |-> FALSE,
     ctr |-> [cli |-> TRUE, daemon |-> TRUE, dockerd |-> TRUE, buildx |-> TRUE, handlers |-> {}]]

\* Tables, also those parseVariants refuses, and lone or unsuffixed variants.
Tables ==
    { <<>>, <<Alpine>>, <<Row("alpine", <<>>, "")>>, <<Slim, Alpine>>, <<Alpine, Row("tiny", <<>>, "false")>>,
      <<Slim, Row("tiny", <<"none">>, "")>>, <<Slim, Row("tiny", <<>>, "true")>>, <<Slim, Slim>>,
      <<Slim, [Alpine EXCEPT !.malformed = TRUE]>>,
      <<Slim, Alpine, Row("tiny", <<"-", "x">>, "false")>> }

\* Repository variables edited between two jobs.
MCEdits == {<<Slim, Alpine>>, <<Slim, Alpine, Row("tiny", <<>>, "false")>>, <<Row("alpine", <<>>, "true")>>}

Inputs == {NoInput, Typed(<<"alpine">>), Typed(<<"slim", ",", "tiny">>),
           [env |-> Unexpanded, event |-> <<"alpine">>], [env |-> <<>>, event |-> <<>>]}

TableEnvs ==
    {[Ordinary EXCEPT !.table = t, !.variants = i, !.ref.name = <<"v">> \o v] :
        t \in Tables, i \in Inputs, v \in {Version, Candidate}}

\* Refs, typed versions and dry runs.
RefEnvs ==
    {[Ordinary EXCEPT !.ref = r, !.version = v, !.event = e, !.dryRun = d, !.rules = rules] :
        r \in {[kind |-> "tags", name |-> <<"v">> \o Version], [kind |-> "tags", name |-> Candidate],
               [kind |-> "tags", name |-> <<"nightly">>],
               [kind |-> "heads", name |-> <<"fix", "/", "x">>], [kind |-> "pull", name |-> <<"1">>]},
        v \in {NoInput, Typed(Version), Typed(<<"v">> \o Candidate), Typed(<<"v", "0", ".", "1", ".", "0">>)},
        e \in {"push", "workflow_dispatch"},
        d \in {NoInput, Typed(<<"true">>)},
        rules \in {DefaultTags, <<[Rule("ref") EXCEPT !.event = "branch"], Rule("semver")>>,
                   <<[Rule("ref") EXCEPT !.event = "pr"], Rule("sha")>>}}

\* Tag rules and flavors.
TagEnvs ==
    {[Ordinary EXCEPT !.rules = rules, !.flavor = f, !.ref.name = <<"v">> \o v] :
        rules \in { DefaultTags, <<>>, <<Rule("schedule")>>, <<[Rule("sha") EXCEPT !.malformed = TRUE]>>,
                    <<Semver("major"), Semver("raw")>>,
                    <<[Rule("match") EXCEPT !.yields = <<"1">>], [Rule("sha") EXCEPT !.enable = FALSE]>>,
                    <<[Rule("raw") EXCEPT !.value = <<"{{tag}}", "-", "{{sha}}", "{{branch}}">>]>>,
                    <<[Rule("raw") EXCEPT !.value = <<"alpine">>], [Rule("sha") EXCEPT !.prefix = <<"c">>]>>,
                    <<[Rule("raw") EXCEPT !.value = <<"-">>]>>,
                    <<[Rule("ref") EXCEPT !.prefix = <<"r">>, !.suffix = <<"s">>, !.priority = 1]>> },
        f \in {Auto, [Auto EXCEPT !.latest = "false"], [Auto EXCEPT !.latest = "never"],
               [Auto EXCEPT !.prefix = <<".">>, !.suffix = <<"-", "z">>, !.onlatest = TRUE]},
        v \in {Version, Candidate}}

\* Credentials and images.
Ghcr == [host |-> "ghcr.io", namespace |-> TRUE]
Hub == [host |-> "docker.io", namespace |-> TRUE]
ImageEnvs ==
    {[Ordinary EXCEPT !.owner = o, !.ghcrToken = g, !.hubToken = h, !.hubUser = u, !.metaImages = m,
                      !.dryRun = d] :
        o \in BOOLEAN, g \in BOOLEAN, h \in BOOLEAN, u \in BOOLEAN,
        m \in {{}, {Ghcr, Hub}, {[Hub EXCEPT !.host = ""]}, {[Hub EXCEPT !.namespace = FALSE]},
               {[Hub EXCEPT !.host = "quay.io"]}},
        d \in {NoInput, Typed(<<"yes">>)}}

\* Build arguments: mirror, proxy or neither; explicit, of the variant, ambient.
ArgEnvs ==
    {[Ordinary EXCEPT !.apt = [value |-> av, probe |-> ap], !.npm = [value |-> "n", probe |-> np],
                      !.apkRepo = apk, !.buildArgs = b, !.proxies = ("HTTP_PROXY" :> "p"),
                      !.table = <<[Slim EXCEPT !.args = ("GOPROXY" :> "own") @@ ("HTTP_PROXY" :> "own")]>>,
                      !.goproxy = "g"] :
        av \in {"", "a"}, ap \in {"serves", "refuses", "unreachable", "unknown suite"},
        np \in {"serves", "refuses", "unreachable"}, apk \in {"", "k"},
        b \in {<< >>, ("GOPROXY" :> "x") @@ ("APT_PROXY" :> "a"), ("VERSION" :> "mine") @@ ("HTTP_PROXY" :> "x")}}

\* Containers and action directories.
ContainerEnvs ==
    {[Ordinary EXCEPT !.ctr = c, !.driver = d, !.installs = i, !.packages = p, !.apkProxy = a,
                      !.files["root"] = <<>>, !.skipBinfmt = p] :
        c \in [cli : BOOLEAN, daemon : BOOLEAN, dockerd : BOOLEAN, buildx : BOOLEAN, handlers : {{}}],
        d \in {"", "vfs"}, i \in BOOLEAN, p \in BOOLEAN, a \in {"", "k"}}
    \cup {[Ordinary EXCEPT !.dirs = ds, !.complete = c, !.dockerfiles = f,
                           !.files["nested"] = <<Slim>>] :
        ds \in [ToSet(Candidates) -> BOOLEAN], c \in BOOLEAN, f \in {{"slim"}, {"alpine", "slim"}}}

MCEnvs == TableEnvs \cup RefEnvs \cup TagEnvs \cup ImageEnvs \cup ArgEnvs \cup ContainerEnvs
=============================================================================
