\* A tag run that fails half-way through its publish job.
SPECIFICATION Spec
CONSTANTS
    r1 = r1  r2 = r2  r3 = r3
    Runs = {r1}
    Variants <- MCVariants
    Bases = {"ghcr", "hub"}
    TagNames <- MCTagNames
    Latest <- MCLatest
    BaseSeq <- MCBaseSeq
    Selection <- MCSelection
    Version <- MCVersion
    Sha <- MCSha
    Ref <- MCRef
    DryRun = {}
    TagsOf <- MCTagsOf
    MaxFaults = 1
INVARIANT
    HalfFinishedKeepsLatest
