---------------------------- MODULE MCTierSwitch ----------------------------
(* Instances of TierSwitch for TLC.                                        *)
EXTENDS TierSwitch

AllTiers == Tier
AllFaults == {"fail", "crash"}
NoFaults == {}

=============================================================================
