--------------------------- MODULE MCPlannedTools ---------------------------
(* Plans of every mode the planner builds, and the repeated call that the  *)
(* repository's own prefetch test puts in a plan.                          *)
EXTENDS PlannedTools
MCPlans ==
  {<<>>, <<"guidance">>, <<"fires">>, <<"fires", "evacuations">>, <<"fires", "guidance">>,
   <<"fires", "evacuations", "guidance">>, <<"fires", "fires">>}
=============================================================================
