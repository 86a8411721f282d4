------------------------- MODULE MC_CampaignRuntime -------------------------
(* Instances of CampaignRuntime: campaigns are interchangeable.             *)
EXTENDS CampaignRuntime

Interchangeable == Permutations(Campaigns)
=============================================================================
