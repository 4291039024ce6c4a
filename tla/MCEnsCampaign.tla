--------------------------- MODULE MCEnsCampaign ---------------------------
(* Small instances of EnsCampaign for TLC.                                  *)
EXTENDS EnsCampaign, TLC

Symmetry == Permutations(Dest)
=============================================================================
