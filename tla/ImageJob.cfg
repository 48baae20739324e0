\* One run of the workflow in every environment, one re-run.
SPECIFICATION JobSpec
CONSTANTS
    Envs <- MCEnvs
    Edits <- MCEdits
    MaxReruns = 1
\* The run ends.
CHECK_DEADLOCK FALSE
INVARIANTS
    BuildsFollowMatrix
    LatestIsEarned
    ArgsAsConfigured
    ReadyCanPush
