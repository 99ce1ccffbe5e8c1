------------------------------- MODULE Outbox -------------------------------
(***************************************************************************)
(* The transactional outbox of pos/infrastructure/tasks/outbox.py.  An     *)
(* OutboxEvent is committed with the change it tells of; after the commit  *)
(* a message asks some Celery worker to process it.  A worker claims the   *)
(* event by one conditional UPDATE, dispatches it, and writes the outcome  *)
(* by primary key: the last write does not look at what happened to the    *)
(* row meanwhile.  The sweep takes events that have been IN_PROGRESS for   *)
(* too long away from whoever has them, and sends messages for those that  *)
(* wait.                                                                   *)
(*                                                                         *)
(* Celery acknowledges a message before the task runs: a worker that dies  *)
(* takes its message with it.  Time is abstract: due and stale say on      *)
(* which side of now and of the stale threshold a row's times are.         *)
(***************************************************************************)
EXTENDS Integers, FiniteSets

CONSTANTS
  Event,        \* rows of OutboxEvent
  Critical,     \* those of priority CRITICAL
  Worker,       \* Celery worker processes
  MaxAttempts,  \* attempts after which a critical event is blocked: 10
  MaxMessages   \* bound: messages of one event in the broker at a time

ASSUME OutboxAssumption ==
  /\ Critical \subseteq Event
  /\ MaxAttempts \in Nat \ {0} /\ MaxMessages \in Nat \ {0}

VARIABLES
  event,     \* the rows
  message,   \* process_outbox_event messages of each event in the broker
  worker,    \* the call of process_outbox_event each worker is in
  sweep,     \* the running sweep_stale_outbox_events
  performed, \* history: was the event dispatched with success?
  swept      \* history: did a sweep take the event away from a worker?

outboxVars == <<event, message, worker, sweep, performed, swept>>

Status == {"PENDING", "IN_PROGRESS", "DONE", "FAILED", "BLOCKED"}

\* attempts is counted up to MaxAttempts, the one value it is compared with.
EventRow == [status: {"ABSENT"} \cup Status, attempts: 0..MaxAttempts,
             due: BOOLEAN, stale: BOOLEAN]

OutboxTypeOK ==
  /\ event \in [Event -> EventRow]
  /\ message \in [Event -> 0..MaxMessages]
  /\ worker \in [Worker -> [pc: {"idle", "dispatching", "dispatched"},
                            event: Event, attempts: 0..MaxAttempts]]
  /\ sweep \in [pc: {"idle", "release", "enqueue"}, ids: SUBSET Event]
  /\ performed \in [Event -> BOOLEAN] /\ swept \in [Event -> BOOLEAN]

NoEvent == [status |-> "ABSENT", attempts |-> 0, due |-> TRUE, stale |-> FALSE]
NoSweep == [pc |-> "idle", ids |-> {}]

OutboxInit ==
  /\ event = [e \in Event |-> NoEvent]
  /\ message = [e \in Event |-> 0]
  /\ worker \in [Worker -> [pc: {"idle"}, event: Event, attempts: {0}]]
  /\ sweep = NoSweep
  /\ performed = [e \in Event |-> FALSE]
  /\ swept = [e \in Event |-> FALSE]

----------------------------------------------------------------------------
(* Events and messages *)

Sent(n) == IF n < MaxMessages THEN n + 1 ELSE n

\* The event is committed; on_commit sends its message, unless the process
\* dies or the broker is away.
CreateEvent(e) ==
  /\ event[e].status = "ABSENT"
  /\ event' = [event EXCEPT ![e].status = "PENDING"]
  /\ message' \in {message, [message EXCEPT ![e] = Sent(@)]}
  /\ UNCHANGED <<worker, sweep, performed, swept>>

\* The broker loses a message, or a worker dies before it claims.
LoseMessage(e) ==
  /\ message[e] > 0
  /\ message' = [message EXCEPT ![e] = @ - 1]
  /\ UNCHANGED <<event, worker, sweep, performed, swept>>

\* The retry delay of an event is over.
BecomeDue(e) ==
  /\ event' = [event EXCEPT ![e].due = TRUE]
  /\ UNCHANGED <<message, worker, sweep, performed, swept>>

\* OUTBOX_STALE_SECONDS have passed since the event was claimed or made.
BecomeStale(e) ==
  /\ event[e].status \in {"PENDING", "IN_PROGRESS", "FAILED"}
  /\ event' = [event EXCEPT ![e].stale = TRUE]
  /\ UNCHANGED <<message, worker, sweep, performed, swept>>

----------------------------------------------------------------------------
(* Workers: process_outbox_event *)

\* Mutants: an event somebody works on is claimed; an event that is done is.
WaitingOrTaken(e) == event[e].status \in {"PENDING", "FAILED", "IN_PROGRESS"}
WaitingOrDone(e) == event[e].status \in {"PENDING", "FAILED", "DONE"}
Waiting(e) == event[e].status \in {"PENDING", "FAILED"}
Claimable(e) == Waiting(e) /\ event[e].due

\* Outcomes leave attempts and updated_at alone.
Row(row, status, due) == [row EXCEPT !.status = status, !.due = due]

ClaimedRow(row) ==
  [row EXCEPT !.status = "IN_PROGRESS", !.stale = FALSE,
              !.attempts = IF @ < MaxAttempts THEN @ + 1 ELSE @]

Receive(w, e) ==
  /\ worker[w].pc = "idle" /\ message[e] > 0
  /\ message' = [message EXCEPT ![e] = @ - 1]

\* _claim_outbox_event: one UPDATE takes the event or finds it taken.
Claim(w, e) ==
  /\ Receive(w, e)
  /\ Claimable(e)
  /\ event' = [event EXCEPT ![e] = ClaimedRow(@)]
  /\ worker' = [worker EXCEPT ![w] = [pc |-> "dispatching", event |-> e,
                                      attempts |-> event'[e].attempts]]
  /\ UNCHANGED <<sweep, performed, swept>>

Skip(w, e) ==
  /\ Receive(w, e)
  /\ ~Claimable(e)
  /\ UNCHANGED <<event, worker, sweep, performed, swept>>

\* _dispatch_outbox_event returns: the alert was sent, the print jobs exist.
Dispatch(w) ==
  /\ worker[w].pc = "dispatching"
  /\ worker' = [worker EXCEPT ![w].pc = "dispatched"]
  /\ performed' = [performed EXCEPT ![worker[w].event] = TRUE]
  /\ UNCHANGED <<event, message, sweep, swept>>

Idle(w) ==
  worker' = [worker EXCEPT ![w] = [pc |-> "idle", event |-> @.event, attempts |-> 0]]

\* It raises: the event waits for its retry delay, or is blocked.
Fail(w) ==
  LET e == worker[w].event
      next == IF e \in Critical /\ worker[w].attempts >= MaxAttempts
              THEN "BLOCKED" ELSE "FAILED"
  IN /\ worker[w].pc = "dispatching"
     /\ event' = [event EXCEPT ![e] = Row(@, next, FALSE)]
     /\ Idle(w)
     /\ UNCHANGED <<message, sweep, performed, swept>>

\* Mutant: the outcome is written without waiting for the dispatch.
CompleteEarly(w) ==
  /\ worker[w].pc \in {"dispatching", "dispatched"}
  /\ event' = [event EXCEPT ![worker[w].event] = Row(@, "DONE", TRUE)]
  /\ Idle(w)
  /\ UNCHANGED <<message, sweep, performed, swept>>

Complete(w) ==
  /\ worker[w].pc = "dispatched"
  /\ event' = [event EXCEPT ![worker[w].event] = Row(@, "DONE", TRUE)]
  /\ Idle(w)
  /\ UNCHANGED <<message, sweep, performed, swept>>

CrashWorker(w) ==
  /\ worker[w].pc # "idle"
  /\ Idle(w)
  /\ UNCHANGED <<event, message, sweep, performed, swept>>

----------------------------------------------------------------------------
(* sweep_stale_outbox_events, a statement at a time *)

\* Mutant: only events never tried are sent for again.
OverdueNew(e) == event[e].status = "PENDING" /\ event[e].due /\ event[e].stale
Overdue(e) == Claimable(e) /\ event[e].stale
Trapped(e) == event[e].status = "IN_PROGRESS" /\ event[e].stale

\* A sweep with nothing to do is left out.
SweepScan ==
  /\ sweep.pc = "idle"
  /\ \E e \in Event : Overdue(e) \/ Trapped(e)
  /\ sweep' = [pc |-> "release", ids |-> {e \in Event : Trapped(e)}]
  /\ UNCHANGED <<event, message, worker, performed, swept>>

\* The ids were read before: what became of the rows since is not looked at.
SweepRelease ==
  /\ sweep.pc = "release"
  /\ event' = [e \in Event |-> IF e \in sweep.ids
                 THEN Row(event[e], "FAILED", TRUE) ELSE event[e]]
  /\ swept' = [e \in Event |-> swept[e] \/ e \in sweep.ids]
  /\ sweep' = [pc |-> "enqueue", ids |-> {}]
  /\ UNCHANGED <<message, worker, performed>>

SweepEnqueue ==
  /\ sweep.pc = "enqueue"
  /\ message' = [e \in Event |-> IF Overdue(e) THEN Sent(message[e]) ELSE message[e]]
  /\ sweep' = NoSweep
  /\ UNCHANGED <<event, worker, performed, swept>>

CrashSweep ==
  /\ sweep.pc # "idle"
  /\ sweep' = NoSweep
  /\ UNCHANGED <<event, message, worker, performed, swept>>

Sweep == SweepScan \/ SweepRelease \/ SweepEnqueue \/ CrashSweep

EventStep(e) == CreateEvent(e) \/ LoseMessage(e) \/ BecomeDue(e) \/ BecomeStale(e)
ClaimStep(w) == \E e \in Event : Claim(w, e) \/ Skip(w, e)
EndStep(w) == Fail(w) \/ Complete(w) \/ CrashWorker(w)

OutboxNext ==
  \/ \E e \in Event : EventStep(e)
  \/ \E w \in Worker : ClaimStep(w) \/ Dispatch(w) \/ EndStep(w)
  \/ Sweep

OutboxSpec == OutboxInit /\ [][OutboxNext]_outboxVars

----------------------------------------------------------------------------
(* Properties *)

Holds(w, e) == worker[w].pc # "idle" /\ worker[w].event = e

\* Two workers are at one event only after a sweep took it from one of them:
\* messages sent twice, retries and blocked events never bring it about.
OneWorkerUnlessSwept ==
  \A e \in Event : \A v, w \in Worker :
    v # w /\ Holds(v, e) /\ Holds(w, e) => swept[e]

\* A DONE event is opened again only if a sweep took it, at some time, for
\* stuck: by itself no late failure and no retry undoes a completion.
DoneUnlessSwept ==
  [][\A e \in Event : event[e].status = "DONE" /\ event'[e].status # "DONE"
       => swept'[e]]_outboxVars

EventState(status) ==
  CASE status = "ABSENT" -> "none"  [] status = "DONE" -> "settled"
    [] status = "BLOCKED" -> "dropped"  [] OTHER -> "open"

EventQueue == INSTANCE AtLeastOnce WITH
  Item <- Event, state <- [e \in Event |-> EventState(event[e].status)]

\* No event is DONE before it was dispatched with success, whichever worker
\* writes the outcome and whatever the sweep did in between.
EventsDispatched == EventQueue!Spec
=============================================================================
