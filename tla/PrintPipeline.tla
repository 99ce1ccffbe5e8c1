--------------------------- MODULE PrintPipeline ---------------------------
(***************************************************************************)
(* From a paid POS sale to its tickets: the outbox, whose workers dispatch *)
(* SALE_PAID_PRINT by creating the print jobs of the sale, and the tabs    *)
(* that print them.  The two share nothing else.  The jobs of an event are *)
(* created one by one, each in a transaction of its own.                   *)
(***************************************************************************)
EXTENDS Outbox, PrintJobs

CONSTANT JobsOf   \* the print_types of an event; none for an alert

ASSUME PipelineAssumption == JobsOf \in [Event -> SUBSET Job]

vars == <<outboxVars, printVars>>

Init == OutboxInit /\ PrintInit

Exists(j) == job[j].estado # "ABSENT"

\* _dispatch_outbox_event, the loop over print_types.
MakeJob(w) ==
  /\ worker[w].pc = "dispatching"
  /\ \E j \in JobsOf[worker[w].event] : CreateJob(j)
  /\ UNCHANGED outboxVars

\* Mutant: it returns when one of them is there.
DispatchOne(w) ==
  /\ \E j \in JobsOf[worker[w].event] : Exists(j)
  /\ Dispatch(w)
  /\ UNCHANGED printVars

\* It returns when the last of them is there.
DispatchSale(w) ==
  /\ \A j \in JobsOf[worker[w].event] : Exists(j)
  /\ Dispatch(w)
  /\ UNCHANGED printVars

OutboxStep ==
  \/ \E e \in Event : EventStep(e)
  \/ \E w \in Worker : ClaimStep(w) \/ EndStep(w)
  \/ Sweep

PrintStep ==
  \/ \E j \in Job : RowStep(j)
  \/ \E a \in Agent : AgentStep(a)
  \/ \E q \in request : RequestStep(q)
  \/ Requeue

Next ==
  \/ \E w \in Worker : MakeJob(w) \/ DispatchSale(w)
  \/ OutboxStep /\ UNCHANGED printVars
  \/ PrintStep /\ UNCHANGED outboxVars

Spec == Init /\ [][Next]_vars

----------------------------------------------------------------------------
(* Properties *)

\* When the event of a paid sale is DONE all its print jobs are there, though
\* they are created one by one by workers that may die in between, be swept,
\* and be followed by others.
PaidSaleHasJobs ==
  \A e \in Event : event[e].status = "DONE" => \A j \in JobsOf[e] : Exists(j)

----------------------------------------------------------------------------
(* Fairness and liveness *)

\* Workers go on and time passes.  From some time on no worker dies and no message
\* is lost; a dispatch that may fail does not always fail.  Nothing is assumed of
\* the sweep: beat_schedule (config/celery.py) does not run it.
OutboxFairness ==
  /\ \A e \in Event : WF_outboxVars(BecomeDue(e)) /\ WF_outboxVars(BecomeStale(e))
  /\ \A w \in Worker :
       /\ WF_outboxVars(ClaimStep(w)) /\ WF_outboxVars(Complete(w))
       /\ SF_vars(MakeJob(w)) /\ SF_vars(DispatchSale(w))
  /\ <>[][\A e \in Event : ~LoseMessage(e)]_outboxVars
  /\ <>[][\A w \in Worker : ~CrashWorker(w)]_outboxVars

FairSpec == Spec /\ OutboxFairness /\ PrintFairness

\* Somebody runs sweep_stale_outbox_events again and again, and from some time on
\* its runs come to their end.
SweepKeepsRunning ==
  /\ WF_outboxVars(SweepScan) /\ WF_outboxVars(SweepRelease \/ SweepEnqueue)
  /\ <>[][~CrashSweep]_outboxVars

\* No worker is at the event, and no message will bring one.
Stranded(e) ==
  event[e].status # "DONE" /\ message[e] = 0 /\ \A w \in Worker : ~Holds(w, e)

\* Every print job of a paid sale comes to an end, out of a printer or on the
\* operators' list of failed jobs, or its event is stranded; and if somebody
\* keeps running the sweep it comes to an end all the same: a lost message, a
\* dead worker, a closed tab and a sweep in the wrong moment only delay it.
SalePrinted ==
  \A e \in Event : \A j \in JobsOf[e] :
    /\ event[e].status = "PENDING" ~> job[j].estado \in {"DONE", "FAILED"} \/ Stranded(e)
    /\ SweepKeepsRunning =>
         (event[e].status = "PENDING" ~> job[j].estado \in {"DONE", "FAILED"})
=============================================================================
