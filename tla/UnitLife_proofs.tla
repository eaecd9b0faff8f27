-------------------------- MODULE UnitLife_proofs --------------------------
(***************************************************************************)
(* What follows from UnitLife alone, and so holds of whatever implements   *)
(* it, for any set of units.                                               *)
(***************************************************************************)
EXTENDS UnitLife, TLAPS

UnitTypeOK == stage \in [Units -> Stages] /\ mr \in [Units -> MRStates]

LifeInv == UnitTypeOK /\ MRsFollowStages

\* Every step, of whatever units, keeps the types and the MRs in line with the stages.
LEMMA NextLife == LifeInv /\ [Next]_vars => LifeInv'
<1> SUFFICES ASSUME LifeInv, [Next]_vars PROVE LifeInv'
  OBVIOUS
<1> USE DEF LifeInv, UnitTypeOK
<1>1. CASE UNCHANGED vars
  BY <1>1 DEF vars, MRsFollowStages
<1>2. CASE Next
  <2>1. UnitTypeOK'
    BY <1>2 DEF Next
  <2>2. ASSUME NEW u \in Units
        PROVE  /\ stage'[u] \in {"out", "working"} => mr'[u] = "none"
               /\ stage'[u] = "watched" => mr'[u] # "none"
               /\ stage'[u] = "completed" => mr'[u] = "merged"
    <3>1. /\ stage[u] \in {"out", "working"} => mr[u] = "none"
          /\ stage[u] = "watched" => mr[u] # "none"
          /\ stage[u] = "completed" => mr[u] = "merged"
      BY DEF MRsFollowStages
    <3>2. Move(u) \/ (stage'[u] = stage[u] /\ SameMR(u))
      BY <1>2 DEF Next
    <3> QED
      BY <3>1, <3>2
      DEF Move, Take, Leave, GiveUp, Open, Complete, Blacklist, Decide, From, MRFrom, SameMR
  <2> QED BY <2>1, <2>2 DEF MRsFollowStages
<1> QED BY <1>1, <1>2

\* The types and the MRs of the stages, in every state.
LEMMA LifeInvariant == Spec => []LifeInv
<1>1. Init => LifeInv
  BY DEF Init, LifeInv, UnitTypeOK, MRsFollowStages, Stages, MRStates
<1> QED BY <1>1, NextLife, PTL DEF Spec

\* A unit in progress has no MR, a watched one has one, a completed one a merged one.
THEOREM MRsGoWithStages == Spec => []MRsFollowStages
<1>1. LifeInv => MRsFollowStages
  BY DEF LifeInv
<1> QED BY <1>1, LifeInvariant, PTL

\* Completed and Blacklisted are final, and so is what became of an MR, whatever is
\* skipped, stopped, reported late and revived afterwards.
THEOREM SettledIsFinal == Spec => SettledForGood
<1>1. [Next]_vars =>
        [\A u \in Units :
           /\ stage[u] \in {"completed", "blacklisted"} => stage'[u] = stage[u]
           /\ mr[u] \in {"merged", "closed"} => mr'[u] = mr[u]]_vars
  <2> SUFFICES ASSUME Next, NEW u \in Units
               PROVE  /\ stage[u] \in {"completed", "blacklisted"} => stage'[u] = stage[u]
                      /\ mr[u] \in {"merged", "closed"} => mr'[u] = mr[u]
    OBVIOUS
  <2>1. Move(u) \/ (stage'[u] = stage[u] /\ SameMR(u))
    BY DEF Next
  <2> QED
    BY <2>1
    DEF Move, Take, Leave, GiveUp, Open, Complete, Blacklist, Decide, From, MRFrom, SameMR
<1> QED BY <1>1, PTL DEF Spec, SettledForGood
=============================================================================
