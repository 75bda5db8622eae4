----------------------------- MODULE MCPollTimer -----------------------------
(* Instances of PollTimer for TLC. *)
EXTENDS PollTimer

\* Alone, dividing each other, sharing no factor but the tick, and as deployed.
MixedConfigs == {{1000}, {250, 1000}, {400, 600, 900}, {7, 12}, {1000, 5000}}
MixedPercents == {0, 33, 75, 90, 99}

LongConfigs == {{50000}, {30000, 60000}}
OnlyDefault == {90}
=============================================================================
