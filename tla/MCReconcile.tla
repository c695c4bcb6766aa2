---------------------------- MODULE MCReconcile ----------------------------
(***************************************************************************)
(* Small instances of Reconcile.  The window and the age limit are one     *)
(* unit of time, so two units are "too old" for both.                      *)
(***************************************************************************)
EXTENDS Reconcile, TLC

Reactive   == [mode |-> "Current", target |-> 50, minimum |-> 0, maximum |-> 3, window |-> 1]
Unwindowed == [Reactive EXCEPT !.maximum = 2, !.window = 0]
Forward    == [Reactive EXCEPT !.mode = "Hybrid", !.minimum = 1]
Invalid    == [Reactive EXCEPT !.minimum = 4]

TwoPolicies      == {Reactive, Unwindowed}
QuickPolicy      == {Unwindowed}
RetunedPolicies  == {Reactive, Forward}
BreakingPolicies == {Reactive, Invalid}

\* The processes are interchangeable.
ProcSymmetry == Permutations(Procs)
=============================================================================
