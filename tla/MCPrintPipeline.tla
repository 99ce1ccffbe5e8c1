-------------------------- MODULE MCPrintPipeline --------------------------
(***************************************************************************)
(* Instances of PrintPipeline for TLC: which event asks for which jobs.    *)
(***************************************************************************)
EXTENDS PrintPipeline, TLC

CONSTANTS e1, e2, j1, j2

\* A paid sale with its kitchen and its customer ticket, and an alert.
SaleAndAlert == [e \in {e1, e2} |-> IF e = e1 THEN {j1, j2} ELSE {}]

\* A paid sale that asks for one ticket.
OneTicket == [e \in {e1} |-> {j1}]
\* Workers are alike: they differ in what they do, never in who they are.
WorkerSymmetry == Permutations(Worker)
=============================================================================
