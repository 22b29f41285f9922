------------------------ MODULE MCAutomationService ------------------------
(***************************************************************************)
(* Small instances of AutomationService for TLC.                           *)
(***************************************************************************)
EXTENDS AutomationService, TLC

ActorSymmetry ==
    Permutations(User) \cup Permutations(Decider) \cup Permutations(Editor)
        \cup Permutations(Call)
=============================================================================
