\* A tag run and a branch run that overlap, reruns and a dry run.
SPECIFICATION Spec
CONSTANTS
    r1 = r1  r2 = r2  r3 = r3
    Runs = {r1, r2, r3}
    Variants <- MCVariants
    Bases = {"ghcr", "hub"}
    TagNames <- MCTagNames
    Latest <- MCLatest
    BaseSeq <- MCBaseSeq
    Selection <- MCSelection
    Version <- MCVersion
    Sha <- MCSha
    Ref <- MCRef
    DryRun = {r3}
    TagsOf <- MCTagsOf
    MaxFaults = 1
INVARIANTS
    FinalFromOwnSource
    BasesAgree
PROPERTY
    ImplementsRelease
