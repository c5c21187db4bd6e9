---------------------------- MODULE MCScenario ----------------------------
(* The scenarios of Scenarios, by the subset a run looks at.              *)
EXTENDS ScenarioTest

Stories == INSTANCE Scenarios

AllTopologies     == Stories!Topologies
AllBodies         == Stories!Bodies
UngatedTopologies == Stories!Of(Stories!Ungated, AllTopologies)
UngatedBodies     == Stories!Of(Stories!Ungated, AllBodies)
=============================================================================
