--------------------------- MODULE MCDecisionCycle ---------------------------
(***************************************************************************)
(* DecisionCycle on every combination of a few utilisations around a       *)
(* target of 50: zero, inside and outside the tolerance band on both       *)
(* sides, exactly on target, and far above.                                *)
(***************************************************************************)
EXTENDS DecisionCycle

MCCpus      == {0, 20, 46, 50, 54, 60, 110}
MCForecasts == {-10, 0, 48, 52, 70, 200}
MCTargets   == {50}
MCReplicas  == {0, 1, 2, 3, 5}
MCBounds    == {<<0, 1>>, <<1, 4>>, <<2, 3>>}
=============================================================================
