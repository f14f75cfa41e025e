--------------------------- MODULE MCCampaignScripts ---------------------------
(***************************************************************************)
(* Two terminals that are alike, four scripts typed in all.                *)
(***************************************************************************)
EXTENDS CampaignScripts, TLC

Symmetry == Permutations(Terminals)
================================================================================
