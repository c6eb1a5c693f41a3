----------------------------- MODULE MCCampaign -----------------------------
(* Small instances of CampaignOrchestrator for TLC. *)
EXTENDS CampaignOrchestrator, TLC

SourceSymmetry == Permutations(Sources) \cup Permutations(Workers)
=============================================================================
