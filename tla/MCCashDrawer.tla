---------------------------- MODULE MCCashDrawer ----------------------------
(***************************************************************************)
(* Instances of CashDrawer for TLC.                                        *)
(***************************************************************************)
EXTENDS CashDrawer, TLC

\* Workers differ in nothing but their names, and so do adjustments.
DrawerSymmetry == Permutations(Worker) \cup Permutations(Adjustment)
=============================================================================
