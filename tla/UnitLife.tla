------------------------------ MODULE UnitLife ------------------------------
(***************************************************************************)
(* What becomes of the units of a Run: the abstract specification of the   *)
(* queue, InFlight, Completed and Blacklisted, seen together with what the *)
(* provider says of each unit's MR.  A unit is taken up to be worked on,   *)
(* watched once it has an MR, and settled by what became of that MR, once  *)
(* and for all.  One step of the Run may move several units: stopping it   *)
(* closes the MRs of all of them.                                          *)
(***************************************************************************)
CONSTANT Units

VARIABLES
    stage,  \* "out": queued, or not in progress; "working"; "watched": in InFlight
    mr      \* the unit's MR, as the provider has it

vars == <<stage, mr>>

Stages   == {"out", "working", "watched", "completed", "blacklisted"}
MRStates == {"none", "opened", "merged", "closed"}

Init ==
    /\ stage \in [Units -> {"out", "working"}]
    /\ mr = [u \in Units |-> "none"]

From(u, old, new) == stage[u] = old /\ stage'[u] = new
MRFrom(u, old, new) == mr[u] = old /\ mr'[u] = new
SameMR(u) == mr'[u] = mr[u]

\* discover takes the unit; only one without an MR.
Take(u) == From(u, "out", "working") /\ mr[u] = "none" /\ SameMR(u)

\* The Run fails or is abandoned while the unit is worked on.
Leave(u) == From(u, "working", "out") /\ SameMR(u)

\* There is nothing to push for the unit.
GiveUp(u) == From(u, "working", "blacklisted") /\ SameMR(u)

\* work opens its MR.
Open(u) == From(u, "working", "watched") /\ MRFrom(u, "none", "opened")

\* The provider reported the merge.
Complete(u) == From(u, "watched", "completed") /\ mr[u] = "merged" /\ SameMR(u)

\* The MR was closed, or is skipped, and then closed as far as that works.
Blacklist(u) ==
    /\ From(u, "watched", "blacklisted")
    /\ SameMR(u) \/ MRFrom(u, "opened", "closed")

\* A reviewer merges or closes the MR, or the Run is stopped and closes it.
Decide(u) ==
    /\ stage'[u] = stage[u]
    /\ MRFrom(u, "opened", "merged") \/ MRFrom(u, "opened", "closed")

Move(u) ==
    \/ Take(u) \/ Leave(u) \/ GiveUp(u) \/ Open(u)
    \/ Complete(u) \/ Blacklist(u) \/ Decide(u)

Next ==
    /\ stage' \in [Units -> Stages] /\ mr' \in [Units -> MRStates]
    /\ \A u \in Units : Move(u) \/ (stage'[u] = stage[u] /\ SameMR(u))

Spec == Init /\ [][Next]_vars

-----------------------------------------------------------------------------
(* Properties. *)

\* A unit has an MR once it is watched and only then, one that counts as completed
\* has a merged one, and one in progress none (work, markUnitMerged).
MRsFollowStages ==
    \A u \in Units :
        /\ stage[u] \in {"out", "working"} => mr[u] = "none"
        /\ stage[u] = "watched" => mr[u] # "none"
        /\ stage[u] = "completed" => mr[u] = "merged"

\* What is settled stays settled, and no MR is decided twice: a unit is not taken up
\* again, and a merge is not undone by a late close, a skip or a stop.
SettledForGood ==
    [][\A u \in Units :
         /\ stage[u] \in {"completed", "blacklisted"} => stage'[u] = stage[u]
         /\ mr[u] \in {"merged", "closed"} => mr'[u] = mr[u]]_vars
=============================================================================
