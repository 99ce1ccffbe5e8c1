-------------------------- MODULE MCOfflineJournal --------------------------
(***************************************************************************)
(* Instances of OfflineJournal for TLC.                                    *)
(***************************************************************************)
EXTENDS OfflineJournal, TLC

\* Events differ in nothing but their name.
EventSymmetry == Permutations(Event)
=============================================================================
