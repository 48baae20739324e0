------------------------------ MODULE Release ------------------------------
(***************************************************************************)
(* What the publishing workflow promises of the final tags                 *)
(* (.forgejo/workflows/docker-publish.yml, publish.mjs): they are moved    *)
(* only by a run that has been approved, which takes that it has seen      *)
(* every image of its plan, each built from the run's own source, and they *)
(* are moved to images of that plan.  Images may disappear at any time, but*)
(* none is published that is not there.                                    *)
(***************************************************************************)
CONSTANTS
    Runs,
    Bases,
    Plan        \* what a run publishes: a set of images, each with its content,
                \* its base and its tags

VARIABLES
    available,  \* pairs of a content and a base
    seen,       \* those of its plan that a run has found
    approved,   \* runs that may move final tags
    final       \* the content of each tag on each base

vars == <<available, seen, approved, final>>

Init ==
    /\ available = {}
    /\ seen = [r \in Runs |-> {}]
    /\ approved = {}
    /\ final = [b \in Bases |-> << >>]

Images(r) == {<<image.content, image.base>> : image \in Plan[r]}

Build(r) ==
    /\ \E images \in SUBSET Images(r) : available' = available \cup images
    /\ UNCHANGED <<seen, approved, final>>

Lose ==
    /\ \E image \in available : available' = available \ {image}
    /\ UNCHANGED <<seen, approved, final>>

See(r) ==
    /\ \E image \in Images(r) \cap available : seen' = [seen EXCEPT ![r] = @ \cup {image}]
    /\ UNCHANGED <<available, approved, final>>

Approve(r) ==
    /\ seen[r] = Images(r)
    /\ seen' = [seen EXCEPT ![r] = {}]
    /\ approved' = approved \cup {r}
    /\ UNCHANGED <<available, final>>

\* Tags that exist stay; those in tags now name content.
Tagged(f, tags, content) ==
    [t \in DOMAIN f \cup tags |-> IF t \in tags THEN content ELSE f[t]]

\* Some tags of one image move; the run may end with that.
Move(r) ==
    /\ r \in approved
    /\ \E image \in Plan[r] : \E tags \in SUBSET image.tags :
           /\ <<image.content, image.base>> \in available
           /\ final' = [final EXCEPT ![image.base] = Tagged(@, tags, image.content)]
    /\ approved' \in {approved, approved \ {r}}
    /\ UNCHANGED <<available, seen>>

\* A run ends, or is given up.
End(r) ==
    /\ seen' = [seen EXCEPT ![r] = {}]
    /\ approved' = approved \ {r}
    /\ UNCHANGED <<available, final>>

Next == Lose \/ \E r \in Runs : Build(r) \/ See(r) \/ Approve(r) \/ Move(r) \/ End(r)

Spec == Init /\ [][Next]_vars
=============================================================================
