---------------------------- MODULE AtLeastOnce ----------------------------
(***************************************************************************)
(* What a queue of work over a table promises, whichever worker gets to an *)
(* item and however often: nothing is settled before its work was done     *)
(* once.  It may be done again, and a settled item may be opened again.    *)
(***************************************************************************)
CONSTANT Item

VARIABLES
  state,     \* of each item: "none", "open", "settled" or "dropped"
  performed  \* was its work done?

vars == <<state, performed>>

Init ==
  /\ state = [i \in Item |-> "none"]
  /\ performed = [i \in Item |-> FALSE]

Keep(i) == state'[i] = state[i] /\ performed'[i] = performed[i]
Create(i) == state[i] = "none" /\ state'[i] = "open" /\ ~performed'[i]
Perform(i) == state[i] # "none" /\ state'[i] = state[i] /\ performed'[i]
Settle(i) == state[i] # "none" /\ performed[i] /\ state'[i] = "settled" /\ performed'[i]
Drop(i) == state[i] # "none" /\ state'[i] = "dropped" /\ performed'[i] = performed[i]
Reopen(i) == state[i] # "none" /\ state'[i] = "open" /\ performed'[i] = performed[i]

\* A statement of the database may move several items at once.
Next ==
  /\ state' \in [Item -> {"none", "open", "settled", "dropped"}]
  /\ performed' \in [Item -> BOOLEAN]
  /\ \A i \in Item :
       Keep(i) \/ Create(i) \/ Perform(i) \/ Settle(i) \/ Drop(i) \/ Reopen(i)

Spec == Init /\ [][Next]_vars
=============================================================================
