----------------------------- MODULE PrintJobs -----------------------------
(***************************************************************************)
(* Print jobs: the rows (pos/infrastructure/tasks/printing.py), the HTTP   *)
(* commands on them (pos/application/integrations/print_job_commands.py)   *)
(* and the POS tabs that print them (pos/templates/pos/pedidos_web.html).  *)
(*                                                                         *)
(* A command reads the row, checks its estado, and saves: two steps with   *)
(* no lock between them.  A tab takes a job, prints it, and reports it; it *)
(* goes on whatever status the command answers, and turns to reporting a   *)
(* failure when the connection breaks.  A request on its way stays on its  *)
(* way when the tab that sent it gives up or is closed.                    *)
(***************************************************************************)
EXTENDS Integers, FiniteSets, Sequences

CONSTANTS
  Job,       \* rows of PrintJob: a sale and a tipo
  Receipt,   \* the TICKET jobs of delivered orders
  Agent,     \* open POS tabs
  Operator,  \* users who press REINTENTAR
  NoJob,
  MaxRequests  \* bound: commands on their way at a time

ASSUME PrintAssumption ==
  Receipt \subseteq Job /\ NoJob \notin Job /\ MaxRequests \in Nat \ {0}

VARIABLES
  job,      \* the rows: estado, and whether updated_at is older than
            \* PRINT_JOB_STUCK_SECONDS
  created,  \* the jobs in the order of created_at
  agent,    \* what each tab is doing, and with which job
  request,  \* commands on their way or half done
  asked,    \* the order of this job was delivered: its receipt was queued
  printed   \* history: did a tab load the page of the job, which prints itself?

printVars == <<job, created, agent, request, asked, printed>>

Estado == {"PENDING", "IN_PROGRESS", "DONE", "FAILED"}
Command == {"take", "finish", "fail", "retry"}

RequestRecord == [from: Agent \cup Operator, command: Command, job: Job,
                  stage: {"sent", "checked"}]

PrintTypeOK ==
  /\ job \in [Job -> [estado: {"ABSENT"} \cup Estado, old: BOOLEAN]]
  /\ created \in Seq(Job)
  /\ agent \in [Agent -> [pc: {"idle", "take", "print", "finish", "fail"},
                          job: Job \cup {NoJob}]]
  /\ request \subseteq RequestRecord
  /\ asked \in [Job -> BOOLEAN] /\ printed \in [Job -> BOOLEAN]

IdleAgent == [pc |-> "idle", job |-> NoJob]

PrintInit ==
  /\ job = [j \in Job |-> [estado |-> "ABSENT", old |-> FALSE]]
  /\ created = <<>>
  /\ agent = [a \in Agent |-> IdleAgent]
  /\ request = {}
  /\ asked = [j \in Job |-> FALSE] /\ printed = [j \in Job |-> FALSE]

----------------------------------------------------------------------------
(* Rows *)

\* A save sets updated_at.
Saved(estado) == [estado |-> estado, old |-> FALSE]

Insert(j) ==
  /\ job' = [job EXCEPT ![j] = Saved("PENDING")]
  /\ created' = Append(created, j)

\* get_or_create: the unique constraint on sale and tipo keeps it to one row,
\* so that for a job that exists it does nothing.
CreateJob(j) ==
  /\ job[j].estado = "ABSENT"
  /\ Insert(j)
  /\ UNCHANGED <<agent, request, asked, printed>>

\* queue_delivery_receipt_ticket: the ticket of a delivered order is printed
\* again.  An order is delivered once.
QueueReceipt(j) ==
  /\ j \in Receipt /\ ~asked[j]
  /\ asked' = [asked EXCEPT ![j] = TRUE]
  /\ job' = [job EXCEPT ![j] = Saved("PENDING")]
  /\ created' = IF job[j].estado = "ABSENT" THEN Append(created, j) ELSE created
  /\ UNCHANGED <<agent, request, printed>>

\* Time passes for a job somebody took.
GetStuck(j) ==
  /\ job[j].estado = "IN_PROGRESS"
  /\ job' = [job EXCEPT ![j] = [estado |-> "IN_PROGRESS", old |-> TRUE]]
  /\ UNCHANGED <<created, agent, request, asked, printed>>

\* Mutant: the comparison with the threshold is the wrong way round.
JustTaken(j) == job[j].estado = "IN_PROGRESS" /\ ~job[j].old
Stuck(j) == job[j].estado = "IN_PROGRESS" /\ job[j].old

\* requeue_stuck_print_jobs: one UPDATE, which leaves updated_at alone.
Requeue ==
  /\ \E j \in Job : Stuck(j)
  /\ job' = [j \in Job |-> IF Stuck(j) THEN [estado |-> "PENDING", old |-> TRUE]
                          ELSE job[j]]
  /\ UNCHANGED <<created, agent, request, asked, printed>>

----------------------------------------------------------------------------
(* Commands: acknowledge_print_job, fail_print_job, retry_print_job *)

Accepted(command) ==
  CASE command = "take" -> {"PENDING"}
    [] command = "finish" -> {"PENDING", "IN_PROGRESS"}
    [] command = "fail" -> Estado
    [] command = "retry" -> {"FAILED"}

\* Mutant: a failed job gets a status the queries do not know.
ErrorResult(command) ==
  CASE command = "take" -> "IN_PROGRESS"  [] command = "finish" -> "DONE"
    [] command = "fail" -> "ERROR"        [] command = "retry" -> "PENDING"

Result(command) ==
  CASE command = "take" -> "IN_PROGRESS"  [] command = "finish" -> "DONE"
    [] command = "fail" -> "FAILED"       [] command = "retry" -> "PENDING"

Send(who, command, j) ==
  /\ Cardinality(request) < MaxRequests
  /\ request' = request \cup
       {[from |-> who, command |-> command, job |-> j, stage |-> "sent"]}

\* The row is read and checked; 409 if its estado is not one of Accepted.
Check(q) ==
  /\ q.stage = "sent"
  /\ request' = (request \ {q}) \cup
       (IF job[q.job].estado \in Accepted(q.command)
        THEN {[q EXCEPT !.stage = "checked"]} ELSE {})
  /\ UNCHANGED <<job, created, agent, asked, printed>>

\* It is saved, whatever it has become since it was read.
Save(q) ==
  /\ q.stage = "checked"
  /\ job' = [job EXCEPT ![q.job] = Saved(Result(q.command))]
  /\ request' = request \ {q}
  /\ UNCHANGED <<created, agent, asked, printed>>

\* The request does not arrive, or the process that serves it dies.
Lose(q) ==
  /\ request' = request \ {q}
  /\ UNCHANGED <<job, created, agent, asked, printed>>

----------------------------------------------------------------------------
(* Tabs *)

\* get_pending_print_jobs: the tab works on the oldest one.
Oldest(j) ==
  \E i \in 1..Len(created) :
    /\ created[i] = j /\ job[j].estado = "PENDING"
    /\ \A k \in 1..(i - 1) : job[created[k]].estado # "PENDING"

Poll(a) ==
  /\ agent[a].pc = "idle"
  /\ \E j \in Job :
       /\ Oldest(j)
       /\ agent' = [agent EXCEPT ![a] = [pc |-> "take", job |-> j]]
       /\ Send(a, "take", j)
  /\ UNCHANGED <<job, created, asked, printed>>

Answered(a) ==
  ~\E q \in request : q.from = a /\ q.command = agent[a].pc /\ q.job = agent[a].job

\* fetch resolves: the tab does not look at the status, a 409 included.
StartPrinting(a) ==
  /\ agent[a].pc = "take" /\ Answered(a)
  /\ agent' = [agent EXCEPT ![a].pc = "print"]
  /\ UNCHANGED <<job, created, request, asked, printed>>

Report(a, command) ==
  /\ agent' = [agent EXCEPT ![a].pc = command]
  /\ Send(a, command, agent[a].job)
  /\ UNCHANGED <<job, created, asked>>

\* imprimirJobEnIframe resolves after the page loaded and printed itself.
FinishPrinting(a) ==
  /\ agent[a].pc = "print"
  /\ printed' = [printed EXCEPT ![agent[a].job] = TRUE]
  /\ Report(a, "finish")

\* It rejects: the page did not load within 10 seconds.  It may print later.
FailPrinting(a) ==
  /\ agent[a].pc = "print"
  /\ \E late \in BOOLEAN : printed' = [printed EXCEPT ![agent[a].job] = @ \/ late]
  /\ Report(a, "fail")

\* Mutant: whatever happened, the job is reported done.
FinishAnyway(a) ==
  /\ agent[a].pc \in {"take", "finish"}
  /\ Report(a, "finish")
  /\ UNCHANGED printed

\* A fetch rejects: the connection broke before the answer was there.
LoseConnection(a) ==
  /\ agent[a].pc \in {"take", "finish"}
  /\ Report(a, "fail")
  /\ UNCHANGED printed

Rest(a) ==
  /\ agent' = [agent EXCEPT ![a] = IdleAgent]
  /\ UNCHANGED <<job, created, request, asked, printed>>

EndJob(a) == agent[a].pc \in {"finish", "fail"} /\ Answered(a) /\ Rest(a)

\* The tab is closed in the middle of a job, and opened again some time.
CloseTab(a) == (agent[a].pc \in {"take", "print"} \/ ~Answered(a)) /\ Rest(a)

\* retryPrintJob, on a job the panel of failed jobs shows.
PressRetry(o, j) ==
  /\ job[j].estado = "FAILED"
  /\ Send(o, "retry", j)
  /\ UNCHANGED <<job, created, agent, asked, printed>>

RowStep(j) ==
  QueueReceipt(j) \/ GetStuck(j) \/ (\E o \in Operator : PressRetry(o, j))
AgentStep(a) ==
  \/ Poll(a) \/ StartPrinting(a) \/ FinishPrinting(a) \/ FailPrinting(a)
  \/ LoseConnection(a) \/ EndJob(a) \/ CloseTab(a)
RequestStep(q) == Check(q) \/ Save(q) \/ Lose(q)

PrintNext ==
  \/ \E j \in Job : CreateJob(j) \/ RowStep(j)
  \/ \E a \in Agent : AgentStep(a)
  \/ \E q \in request : RequestStep(q)
  \/ Requeue

PrintSpec == PrintInit /\ [][PrintNext]_printVars

----------------------------------------------------------------------------
(* Properties *)

JobState(estado) ==
  CASE estado = "ABSENT" -> "none"  [] estado = "DONE" -> "settled"
    [] estado = "FAILED" -> "dropped"  [] OTHER -> "open"

JobQueue == INSTANCE AtLeastOnce WITH
  Item <- Job, state <- [j \in Job |-> JobState(job[j].estado)], performed <- printed

\* No job is DONE before a tab loaded its page to print: not by a report of another tab, nor by
\* one that comes after the job was requeued or tried again.
JobsPrinted == JobQueue!Spec

----------------------------------------------------------------------------
(* Fairness and liveness *)

\* Tabs poll and go on, requests are served, time passes and celery beat runs
\* the requeue task every minute.  From some time on no tab is closed in the
\* middle of a job and no request is lost.
PrintFairness ==
  /\ \A a \in Agent :
       /\ WF_printVars(Poll(a)) /\ WF_printVars(StartPrinting(a) \/ EndJob(a))
       /\ WF_printVars(FinishPrinting(a) \/ FailPrinting(a))
  /\ \A j \in Job : WF_printVars(GetStuck(j))
  /\ WF_printVars(Requeue)
  /\ \A q \in RequestRecord : WF_printVars(q \in request /\ (Check(q) \/ Save(q)))
  /\ <>[][\A a \in Agent : ~CloseTab(a)]_printVars
  /\ <>[][\A q \in request : ~Lose(q)]_printVars

\* A job that waits is printed, or fails and is shown to the operators.
JobsEnd ==
  \A j \in Job : job[j].estado = "PENDING" ~> job[j].estado \in {"DONE", "FAILED"}

FairPrintSpec == PrintSpec /\ PrintFairness
=============================================================================
