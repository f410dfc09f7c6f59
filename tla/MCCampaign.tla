------------------------------ MODULE MCCampaign ------------------------------
(* Campaign for TLC: three units, one of them a fallback module, with two or     *)
(* three case tasks in the direct ones, so that groups run out in different      *)
(* rounds and the shared limit mixes both kinds of worker.                       *)
EXTENDS Campaign

SecondFallback == {1, 3}
FirstFallback == {2, 3}
TwoOneOne == <<2, 1, 1>>
OneTwoOne == <<1, 2, 1>>
=============================================================================
