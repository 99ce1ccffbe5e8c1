------------------------ MODULE PrintPipeline_proofs ------------------------
(***************************************************************************)
(* Theorems about Outbox, PrintJobs and their composition, for any sets of *)
(* events, workers, jobs and tabs and any bounds.  The outbox keeps        *)
(* OutboxInv: who is at an event, and what was done for it.  Print jobs    *)
(* keep PrintInv: a report that a job is done is on its way only for a     *)
(* printed job.  Each step of the composition is a step of one of them, or *)
(* of both, so that it keeps both and, with PipelineInv, creates all jobs. *)
(***************************************************************************)
EXTENDS PrintPipeline, TLAPS

----------------------------------------------------------------------------
(* The outbox *)

\* While no sweep took an event, at most one worker is at it, and it is
\* IN_PROGRESS then.
Exclusive ==
  \A e \in Event : ~swept[e] =>
    \A w \in Worker : Holds(w, e) =>
      /\ event[e].status = "IN_PROGRESS"
      /\ \A v \in Worker : Holds(v, e) => v = w

\* Workers and the sweep are at events that exist; what is DONE, or about to
\* be, was dispatched.
Done ==
  /\ \A w \in Worker : worker[w].pc # "idle" => event[worker[w].event].status # "ABSENT"
  /\ \A w \in Worker : worker[w].pc = "dispatched" => performed[worker[w].event]
  /\ \A e \in Event : event[e].status = "DONE" => performed[e]
  /\ \A e \in Event : performed[e] => event[e].status # "ABSENT"
  /\ \A e \in sweep.ids : event[e].status # "ABSENT"

OutboxInv == OutboxTypeOK /\ Exclusive /\ Done

LEMMA SentType == ASSUME NEW n \in 0..MaxMessages PROVE Sent(n) \in 0..MaxMessages
BY OutboxAssumption DEF Sent

LEMMA ClaimedType ==
  ASSUME NEW row \in EventRow
  PROVE  /\ ClaimedRow(row) \in EventRow
         /\ ClaimedRow(row).status = "IN_PROGRESS"
         /\ ClaimedRow(row).attempts \in 0..MaxAttempts
<1> DEFINE n == IF row.attempts < MaxAttempts THEN row.attempts + 1 ELSE row.attempts
<1>1. n \in 0..MaxAttempts
  BY OutboxAssumption DEF EventRow
<1>2. ClaimedRow(row) = [row EXCEPT !.status = "IN_PROGRESS", !.stale = FALSE,
                                    !.attempts = n]
  BY DEF ClaimedRow
<1> HIDE DEF n
<1> QED BY <1>1, <1>2 DEF EventRow, Status

LEMMA RowType ==
  ASSUME NEW row \in EventRow, NEW status \in Status, NEW due \in BOOLEAN
  PROVE  Row(row, status, due) \in EventRow /\ Row(row, status, due).status = status
BY DEF EventRow, Row

LEMMA OutboxInitInv == OutboxInit => OutboxInv
BY OutboxAssumption DEF OutboxInit, OutboxInv, OutboxTypeOK, Exclusive, Done, Holds,
   EventRow, NoEvent, NoSweep

LEMMA EventStepInv ==
  ASSUME OutboxInv, NEW e \in Event, EventStep(e)
  PROVE  OutboxInv'
<1>1. CASE CreateEvent(e)
  <2>1. OutboxTypeOK'
    <3>1. message' \in [Event -> 0..MaxMessages]
      BY <1>1, SentType DEF CreateEvent, OutboxInv, OutboxTypeOK
    <3>2. event' \in [Event -> EventRow]
      BY <1>1 DEF CreateEvent, OutboxInv, OutboxTypeOK, EventRow, Status
    <3> QED BY <1>1, <3>1, <3>2 DEF CreateEvent, OutboxInv, OutboxTypeOK
  <2>2. /\ event[e].status = "ABSENT" /\ event'[e].status = "PENDING"
        /\ \A d \in Event : d # e => event'[d] = event[d]
    BY <1>1 DEF CreateEvent, OutboxInv, OutboxTypeOK, EventRow
  <2>3. Exclusive'
    BY <1>1, <2>2 DEF CreateEvent, OutboxInv, Exclusive, Done, Holds
  <2>4. Done'
    BY <1>1, <2>2 DEF CreateEvent, OutboxInv, Done, OutboxTypeOK
  <2> QED BY <2>1, <2>3, <2>4 DEF OutboxInv
<1>2. CASE LoseMessage(e)
  <2>1. OutboxTypeOK'
    BY <1>2, OutboxAssumption DEF LoseMessage, OutboxInv, OutboxTypeOK
  <2> QED BY <1>2, <2>1 DEF LoseMessage, OutboxInv, Exclusive, Done, Holds
<1>3. CASE BecomeDue(e) \/ BecomeStale(e)
  <2>1. OutboxTypeOK'
    <3>1. event[e] \in EventRow
      BY DEF OutboxInv, OutboxTypeOK
    <3>2. /\ [event[e] EXCEPT !.due = TRUE] \in EventRow
          /\ [event[e] EXCEPT !.stale = TRUE] \in EventRow
      BY <3>1 DEF EventRow
    <3>3. event' \in [Event -> EventRow]
      BY <1>3, <3>2 DEF BecomeDue, BecomeStale, OutboxInv, OutboxTypeOK
    <3> QED BY <1>3, <3>3 DEF BecomeDue, BecomeStale, OutboxInv, OutboxTypeOK
  <2>2. \A d \in Event : event'[d].status = event[d].status
    BY <1>3 DEF BecomeDue, BecomeStale, OutboxInv, OutboxTypeOK, EventRow
  <2>3. UNCHANGED <<worker, sweep, performed, swept>>
    BY <1>3 DEF BecomeDue, BecomeStale
  <2>4. Exclusive'
    BY <2>2, <2>3 DEF OutboxInv, Exclusive, Holds
  <2>5. Done'
    BY <2>2, <2>3 DEF OutboxInv, Done, OutboxTypeOK
  <2> QED BY <2>1, <2>4, <2>5 DEF OutboxInv
<1> QED BY <1>1, <1>2, <1>3 DEF EventStep

LEMMA ClaimStepInv ==
  ASSUME OutboxInv, NEW w \in Worker, ClaimStep(w)
  PROVE  OutboxInv'
<1> PICK e \in Event : Claim(w, e) \/ Skip(w, e)
  BY DEF ClaimStep
<1>1. message' \in [Event -> 0..MaxMessages]
  BY OutboxAssumption DEF Claim, Skip, Receive, OutboxInv, OutboxTypeOK
<1>2. CASE Claim(w, e)
  <2>1. /\ worker' = [worker EXCEPT ![w] = [pc |-> "dispatching", event |-> e,
                                            attempts |-> event'[e].attempts]]
        /\ event' = [event EXCEPT ![e] = ClaimedRow(@)]
        /\ UNCHANGED <<sweep, performed, swept>>
        /\ event[e].status \in {"PENDING", "FAILED"}
        /\ worker[w].pc = "idle"
    BY <1>2 DEF Claim, Claimable, Waiting, Receive
  <2>2. /\ event'[e] \in EventRow /\ event'[e].status = "IN_PROGRESS"
        /\ event'[e].attempts \in 0..MaxAttempts
        /\ \A d \in Event : d # e => event'[d] = event[d]
        /\ worker'[w].pc = "dispatching" /\ worker'[w].event = e
        /\ \A v \in Worker : v # w => worker'[v] = worker[v]
    BY <2>1, ClaimedType DEF OutboxInv, OutboxTypeOK
  <2>3. OutboxTypeOK'
    BY <1>1, <2>1, <2>2 DEF OutboxInv, OutboxTypeOK
  <2>4. Exclusive'
    BY <2>1, <2>2 DEF OutboxInv, Exclusive, Holds
  <2>5. Done'
    <3>1. \A v \in Worker : worker'[v].pc # "idle" =>
             event'[worker'[v].event].status # "ABSENT"
      BY <2>2 DEF OutboxInv, Done, OutboxTypeOK
    <3>2. \A v \in Worker : worker'[v].pc = "dispatched" => performed'[worker'[v].event]
      BY <2>1, <2>2 DEF OutboxInv, Done
    <3>3. \A d \in Event : /\ event'[d].status = "DONE" => performed'[d]
                           /\ performed'[d] => event'[d].status # "ABSENT"
      BY <2>1, <2>2 DEF OutboxInv, Done
    <3>4. \A d \in sweep'.ids : event'[d].status # "ABSENT"
      BY <2>1, <2>2 DEF OutboxInv, Done, OutboxTypeOK
    <3> QED BY <3>1, <3>2, <3>3, <3>4 DEF Done
  <2> QED BY <2>3, <2>4, <2>5 DEF OutboxInv
<1>3. CASE Skip(w, e)
  <2>1. OutboxTypeOK'
    BY <1>1, <1>3 DEF Skip, OutboxInv, OutboxTypeOK
  <2> QED BY <1>3, <2>1 DEF Skip, OutboxInv, Exclusive, Done, Holds
<1> QED BY <1>2, <1>3

LEMMA DispatchInv ==
  ASSUME OutboxInv, NEW w \in Worker, Dispatch(w)
  PROVE  OutboxInv'
<1>1. /\ worker' = [worker EXCEPT ![w].pc = "dispatched"]
      /\ performed' = [performed EXCEPT ![worker[w].event] = TRUE]
      /\ UNCHANGED <<event, message, sweep, swept>>
      /\ worker[w].pc = "dispatching"
  BY DEF Dispatch
<1>2. OutboxTypeOK'
  BY <1>1 DEF OutboxInv, OutboxTypeOK
<1>3. \A v \in Worker : /\ worker'[v].event = worker[v].event
                        /\ worker'[v].pc = "idle" <=> worker[v].pc = "idle"
                        /\ v # w => worker'[v].pc = worker[v].pc
  BY <1>1 DEF OutboxInv, OutboxTypeOK
<1>4. Exclusive'
  BY <1>1, <1>3 DEF OutboxInv, Exclusive, Holds
<1>5. performed'[worker[w].event] /\ \A e \in Event : performed[e] => performed'[e]
  BY <1>1 DEF OutboxInv, OutboxTypeOK
<1>6. \A e \in Event : performed'[e] => event[e].status # "ABSENT"
  BY <1>1 DEF OutboxInv, OutboxTypeOK, Done
<1>7. Done'
  BY <1>1, <1>3, <1>5, <1>6 DEF OutboxInv, OutboxTypeOK, Done
<1> QED BY <1>2, <1>4, <1>7 DEF OutboxInv

LEMMA EndStepInv ==
  ASSUME OutboxInv, NEW w \in Worker, EndStep(w)
  PROVE  OutboxInv'
<1> DEFINE e == worker[w].event
<1>1. /\ Idle(w) /\ worker[w].pc # "idle"
      /\ UNCHANGED <<message, sweep, performed, swept>>
  BY DEF EndStep, Fail, Complete, CrashWorker
<1>2. e \in Event
  BY DEF OutboxInv, OutboxTypeOK
<1>3. /\ event'[e] \in EventRow
      /\ event' = [event EXCEPT ![e] = event'[e]]
      /\ event'[e].status # "ABSENT"
      /\ event'[e].status = "DONE" => worker[w].pc = "dispatched" \/ event[e].status = "DONE"
  <2>1. CASE Fail(w)
    <3>1. PICK status \in {"FAILED", "BLOCKED"} :
            event' = [event EXCEPT ![e] = Row(@, status, FALSE)]
      BY <2>1 DEF Fail
    <3> QED BY <1>2, <3>1, RowType DEF OutboxInv, OutboxTypeOK, Status
  <2>2. CASE Complete(w)
    BY <1>2, <2>2, RowType DEF Complete, OutboxInv, OutboxTypeOK, Status
  <2>3. CASE CrashWorker(w)
    BY <1>1, <1>2, <2>3 DEF CrashWorker, OutboxInv, OutboxTypeOK, Done
  <2> QED BY <2>1, <2>2, <2>3 DEF EndStep
<1>4. OutboxTypeOK'
  <2>1. worker[w].event \in Event /\ 0 \in 0..MaxAttempts
    BY OutboxAssumption DEF OutboxInv, OutboxTypeOK
  <2>2. [pc |-> "idle", event |-> worker[w].event, attempts |-> 0]
          \in [pc: {"idle", "dispatching", "dispatched"}, event: Event,
               attempts: 0..MaxAttempts]
    BY <2>1
  <2> QED BY <1>1, <1>2, <1>3, <2>2 DEF Idle, OutboxInv, OutboxTypeOK
<1>5. /\ worker'[w].pc = "idle"
      /\ \A v \in Worker : v # w => worker'[v] = worker[v]
      /\ \A d \in Event : d # e => event'[d] = event[d]
  BY <1>1, <1>2, <1>3 DEF Idle, OutboxInv, OutboxTypeOK
<1>6. Exclusive'
  BY <1>1, <1>2, <1>5 DEF OutboxInv, Exclusive, Holds
<1>7. Done'
  <2>1. \A v \in Worker : worker'[v].pc # "idle" =>
           event'[worker'[v].event].status # "ABSENT"
    BY <1>3, <1>5 DEF OutboxInv, Done, OutboxTypeOK
  <2>2. \A v \in Worker : worker'[v].pc = "dispatched" => performed'[worker'[v].event]
    BY <1>1, <1>5 DEF OutboxInv, Done
  <2>3. \A d \in Event : /\ event'[d].status = "DONE" => performed'[d]
                         /\ performed'[d] => event'[d].status # "ABSENT"
    BY <1>1, <1>3, <1>5 DEF OutboxInv, Done
  <2>4. \A d \in sweep'.ids : event'[d].status # "ABSENT"
    BY <1>1, <1>3, <1>5 DEF OutboxInv, Done, OutboxTypeOK
  <2> QED BY <2>1, <2>2, <2>3, <2>4 DEF Done
<1> QED BY <1>4, <1>6, <1>7 DEF OutboxInv

LEMMA SweepInv == ASSUME OutboxInv, Sweep PROVE OutboxInv'
<1>1. CASE SweepScan \/ CrashSweep
  <2>1. UNCHANGED <<event, message, worker, performed, swept>>
    BY <1>1 DEF SweepScan, CrashSweep
  <2>2. /\ sweep' \in [pc: {"idle", "release", "enqueue"}, ids: SUBSET Event]
        /\ \A e \in sweep'.ids : event[e].status # "ABSENT"
    BY <1>1 DEF SweepScan, CrashSweep, NoSweep, Trapped
  <2> QED BY <2>1, <2>2 DEF OutboxInv, OutboxTypeOK, Exclusive, Done, Holds
<1>2. CASE SweepRelease
  <2>1. OutboxTypeOK'
    <3>1. event' \in [Event -> EventRow]
      BY <1>2, RowType DEF SweepRelease, OutboxInv, OutboxTypeOK, Status
    <3>2. swept' \in [Event -> BOOLEAN]
      BY <1>2 DEF SweepRelease, OutboxInv, OutboxTypeOK
    <3> QED BY <1>2, <3>1, <3>2 DEF SweepRelease, OutboxInv, OutboxTypeOK
  <2>2. \A e \in Event :
          /\ e \notin sweep.ids => event'[e] = event[e] /\ swept'[e] = swept[e]
          /\ e \in sweep.ids => event'[e].status = "FAILED" /\ swept'[e]
    BY <1>2, RowType DEF SweepRelease, OutboxInv, OutboxTypeOK, Status
  <2>3. UNCHANGED <<message, worker, performed>> /\ sweep'.ids = {}
    BY <1>2 DEF SweepRelease
  <2>4. Exclusive'
    BY <2>2, <2>3 DEF OutboxInv, Exclusive, Holds
  <2>5. Done'
    BY <2>2, <2>3 DEF OutboxInv, OutboxTypeOK, Done
  <2> QED BY <2>1, <2>4, <2>5 DEF OutboxInv
<1>3. CASE SweepEnqueue
  <2>1. OutboxTypeOK'
    BY <1>3, SentType DEF SweepEnqueue, NoSweep, OutboxInv, OutboxTypeOK
  <2> QED
    BY <1>3, <2>1 DEF SweepEnqueue, NoSweep, OutboxInv, Exclusive, Done, Holds
<1> QED BY <1>1, <1>2, <1>3 DEF Sweep

LEMMA OutboxStepInv == OutboxInv /\ [OutboxNext]_outboxVars => OutboxInv'
<1> SUFFICES ASSUME OutboxInv, [OutboxNext]_outboxVars PROVE OutboxInv'
  OBVIOUS
<1>1. CASE OutboxNext
  BY <1>1, EventStepInv, ClaimStepInv, DispatchInv, EndStepInv, SweepInv DEF OutboxNext
<1>2. CASE UNCHANGED outboxVars
  BY <1>2 DEF outboxVars, OutboxInv, OutboxTypeOK, Exclusive, Done, Holds
<1> QED BY <1>1, <1>2

LEMMA OutboxAlways == OutboxSpec => []OutboxInv
<1>1. OutboxInit => OutboxInv
  BY OutboxInitInv
<1>2. OutboxInv /\ [OutboxNext]_outboxVars => OutboxInv'
  BY OutboxStepInv
<1> QED BY <1>1, <1>2, PTL DEF OutboxSpec

\* Rows, messages and locals stay in their ranges.
THEOREM OutboxTypeCorrect == OutboxSpec => []OutboxTypeOK
<1>1. OutboxInv => OutboxTypeOK
  BY DEF OutboxInv
<1> QED BY <1>1, OutboxAlways, PTL

\* Messages sent twice, retries and blocked events never put two workers at one
\* event: only a sweep does.
THEOREM OneWorker == OutboxSpec => []OneWorkerUnlessSwept
<1>1. OutboxInv => OneWorkerUnlessSwept
  BY DEF OutboxInv, Exclusive, OneWorkerUnlessSwept
<1> QED BY <1>1, OutboxAlways, PTL

LEMMA DoneStep ==
  ASSUME OutboxInv, [OutboxNext]_outboxVars, NEW e \in Event,
         event[e].status = "DONE", event'[e].status # "DONE"
  PROVE  swept'[e]
<1>1. OutboxNext
  BY DEF outboxVars
<1>2. ASSUME NEW d \in Event, EventStep(d) PROVE FALSE
  <2>1. CASE CreateEvent(d)
    BY <1>2, <2>1 DEF CreateEvent, OutboxInv, OutboxTypeOK
  <2>2. CASE LoseMessage(d)
    BY <2>2 DEF LoseMessage
  <2>3. CASE BecomeDue(d) \/ BecomeStale(d)
    <3>1. event[d] \in EventRow
      BY DEF OutboxInv, OutboxTypeOK
    <3>2. event'[d].status = event[d].status /\ (e # d => event'[e] = event[e])
      BY <2>3, <3>1 DEF BecomeDue, BecomeStale, OutboxInv, OutboxTypeOK, EventRow
    <3> QED BY <3>2
  <2> QED BY <1>2, <2>1, <2>2, <2>3 DEF EventStep
<1>3. ASSUME NEW w \in Worker, ClaimStep(w) PROVE FALSE
  BY <1>3 DEF ClaimStep, Claim, Skip, Claimable, Waiting, OutboxInv, OutboxTypeOK
<1>4. ASSUME NEW w \in Worker, Dispatch(w) PROVE FALSE
  BY <1>4 DEF Dispatch
<1>5. ASSUME NEW w \in Worker, EndStep(w) PROVE swept'[e]
  <2>1. CASE Fail(w)
    <3>1. worker[w].event = e
      BY <2>1 DEF Fail, OutboxInv, OutboxTypeOK
    <3>2. Holds(w, e) /\ swept' = swept
      BY <2>1, <3>1 DEF Fail, Holds
    <3> QED BY <3>2 DEF OutboxInv, Exclusive
  <2>2. CASE Complete(w)
    BY <2>2, RowType DEF Complete, OutboxInv, OutboxTypeOK, Status
  <2>3. CASE CrashWorker(w)
    BY <2>3 DEF CrashWorker
  <2> QED BY <1>5, <2>1, <2>2, <2>3 DEF EndStep
<1>6. CASE Sweep
  <2>1. CASE SweepRelease
    BY <2>1 DEF SweepRelease, OutboxInv, OutboxTypeOK
  <2>2. CASE SweepScan \/ SweepEnqueue \/ CrashSweep
    BY <2>2 DEF SweepScan, SweepEnqueue, CrashSweep
  <2> QED BY <1>6, <2>1, <2>2 DEF Sweep
<1> QED BY <1>1, <1>2, <1>3, <1>4, <1>5, <1>6 DEF OutboxNext

\* What was completed is opened again only through a sweep.
THEOREM DoneStays == OutboxSpec => DoneUnlessSwept
<1>1. OutboxInv /\ [OutboxNext]_outboxVars =>
        [\A e \in Event : event[e].status = "DONE" /\ event'[e].status # "DONE"
           => swept'[e]]_outboxVars
  BY DoneStep
<1> QED BY <1>1, OutboxAlways, PTL DEF OutboxSpec, DoneUnlessSwept

LEMMA EventStateType ==
  ASSUME NEW status
  PROVE  EventState(status) \in {"none", "open", "settled", "dropped"}
BY DEF EventState

LEMMA EventQueueInit == OutboxInit => EventQueue!Init
BY DEF OutboxInit, EventQueue!Init, EventState, NoEvent

\* What a step of the outbox does to one event, in terms of AtLeastOnce.
Moves(e) ==
  LET before == EventState(event[e].status)  after == EventState(event'[e].status) IN
  \/ after = before /\ performed'[e] = performed[e]
  \/ before = "none" /\ after = "open" /\ ~performed'[e]
  \/ before # "none" /\ after = before /\ performed'[e]
  \/ before # "none" /\ after = "settled" /\ performed[e] /\ performed'[e]
  \/ before # "none" /\ after \in {"open", "dropped"} /\ performed'[e] = performed[e]

LEMMA EventStepMoves ==
  ASSUME OutboxInv, NEW d \in Event, EventStep(d), NEW e \in Event
  PROVE  Moves(e)
<1>1. CASE CreateEvent(d)
  <2>1. CASE e = d
    BY <1>1, <2>1 DEF CreateEvent, Moves, EventState, OutboxInv, OutboxTypeOK, Done
  <2>2. CASE e # d
    BY <1>1, <2>2 DEF CreateEvent, Moves, OutboxInv, OutboxTypeOK
  <2> QED BY <2>1, <2>2
<1>2. CASE LoseMessage(d)
  BY <1>2 DEF LoseMessage, Moves
<1>3. CASE BecomeDue(d) \/ BecomeStale(d)
  <2>1. event'[e].status = event[e].status
    BY <1>3 DEF BecomeDue, BecomeStale, OutboxInv, OutboxTypeOK, EventRow
  <2> QED BY <1>3, <2>1 DEF BecomeDue, BecomeStale, Moves
<1> QED BY <1>1, <1>2, <1>3 DEF EventStep

LEMMA ClaimStepMoves ==
  ASSUME OutboxInv, NEW w \in Worker, ClaimStep(w), NEW e \in Event
  PROVE  Moves(e)
<1> PICK d \in Event : Claim(w, d) \/ Skip(w, d)
  BY DEF ClaimStep
<1>1. CASE Claim(w, d) /\ e = d
  <2>1. event[e].status \in {"PENDING", "FAILED"} /\ event'[e].status = "IN_PROGRESS"
    BY <1>1, ClaimedType DEF Claim, Claimable, Waiting, OutboxInv, OutboxTypeOK
  <2> QED BY <1>1, <2>1 DEF Claim, Moves, EventState
<1>2. CASE Claim(w, d) /\ e # d
  BY <1>2 DEF Claim, Moves, OutboxInv, OutboxTypeOK
<1>3. CASE Skip(w, d)
  BY <1>3 DEF Skip, Moves
<1> QED BY <1>1, <1>2, <1>3

LEMMA DispatchMoves ==
  ASSUME OutboxInv, NEW w \in Worker, Dispatch(w), NEW e \in Event
  PROVE  Moves(e)
<1>1. CASE e = worker[w].event
  BY <1>1 DEF Dispatch, Moves, EventState, OutboxInv, OutboxTypeOK, Done
<1>2. CASE e # worker[w].event
  BY <1>2 DEF Dispatch, Moves, OutboxInv, OutboxTypeOK
<1> QED BY <1>1, <1>2

LEMMA EndStepMoves ==
  ASSUME OutboxInv, NEW w \in Worker, EndStep(w), NEW e \in Event
  PROVE  Moves(e)
<1>1. CASE Fail(w)
  <2>1. PICK status \in {"FAILED", "BLOCKED"} :
          event' = [event EXCEPT ![worker[w].event] = Row(@, status, FALSE)]
    BY <1>1 DEF Fail
  <2>2. performed' = performed /\ worker[w].pc # "idle"
    BY <1>1 DEF Fail
  <2>3. CASE e = worker[w].event
    <3>1. event[e].status # "ABSENT"
      BY <2>2, <2>3 DEF OutboxInv, Done
    <3>2. event[e] \in EventRow /\ status \in Status /\ event'[e] = Row(event[e], status, FALSE)
      BY <2>1, <2>3 DEF OutboxInv, OutboxTypeOK, Status
    <3>3. event'[e].status = status
      BY <3>2, RowType
    <3> QED BY <2>2, <3>1, <3>3 DEF Moves, EventState
  <2>4. CASE e # worker[w].event
    BY <2>1, <2>2, <2>4 DEF Moves, OutboxInv, OutboxTypeOK
  <2> QED BY <2>3, <2>4
<1>2. CASE Complete(w)
  <2>1. CASE e = worker[w].event
    <3>1. event[e].status # "ABSENT" /\ event'[e].status = "DONE"
      BY <1>2, <2>1, RowType DEF Complete, OutboxInv, OutboxTypeOK, Status, Done
    <3>2. performed[e] /\ performed'[e]
      BY <1>2, <2>1 DEF Complete, OutboxInv, Done
    <3> QED BY <3>1, <3>2 DEF Moves, EventState
  <2>2. CASE e # worker[w].event
    BY <1>2, <2>2 DEF Complete, Moves, OutboxInv, OutboxTypeOK
  <2> QED BY <2>1, <2>2
<1>3. CASE CrashWorker(w)
  BY <1>3 DEF CrashWorker, Moves
<1> QED BY <1>1, <1>2, <1>3 DEF EndStep

LEMMA SweepMoves == ASSUME OutboxInv, Sweep, NEW e \in Event PROVE Moves(e)
<1>1. CASE SweepRelease
  <2>1. CASE e \in sweep.ids
    <3>1. event[e].status # "ABSENT" /\ event'[e].status = "FAILED"
      BY <1>1, <2>1, RowType DEF SweepRelease, OutboxInv, OutboxTypeOK, Status, Done
    <3> QED BY <1>1, <3>1 DEF SweepRelease, Moves, EventState
  <2>2. CASE e \notin sweep.ids
    BY <1>1, <2>2 DEF SweepRelease, Moves
  <2> QED BY <2>1, <2>2
<1>2. CASE SweepScan \/ SweepEnqueue \/ CrashSweep
  BY <1>2 DEF SweepScan, SweepEnqueue, CrashSweep, Moves
<1> QED BY <1>1, <1>2 DEF Sweep

LEMMA EventQueueStep ==
  ASSUME OutboxInv, OutboxInv', [OutboxNext]_outboxVars
  PROVE  [EventQueue!Next]_(EventQueue!vars)
<1>1. CASE UNCHANGED outboxVars
  BY <1>1 DEF outboxVars, EventQueue!vars
<1>2. CASE OutboxNext
  <2>1. \A e \in Event : Moves(e)
    BY <1>2, EventStepMoves, ClaimStepMoves, DispatchMoves, EndStepMoves, SweepMoves
    DEF OutboxNext
  <2>2. \A e \in Event :
          \/ EventQueue!Keep(e) \/ EventQueue!Create(e) \/ EventQueue!Perform(e)
          \/ EventQueue!Settle(e) \/ EventQueue!Drop(e) \/ EventQueue!Reopen(e)
    BY <2>1 DEF Moves, EventQueue!Keep, EventQueue!Create, EventQueue!Perform,
       EventQueue!Settle, EventQueue!Drop, EventQueue!Reopen
  <2>3. performed' \in [Event -> BOOLEAN]
    BY DEF OutboxInv, OutboxTypeOK
  <2> QED BY <2>2, <2>3, EventStateType DEF EventQueue!Next
<1> QED BY <1>1, <1>2

\* The outbox is an at-least-once queue: nothing is DONE that was not dispatched.
THEOREM OutboxImplementsQueue == OutboxSpec => EventsDispatched
<1>1. OutboxInv /\ OutboxInv' /\ [OutboxNext]_outboxVars
        => [EventQueue!Next]_(EventQueue!vars)
  BY EventQueueStep
<1> QED
  BY <1>1, EventQueueInit, OutboxAlways, PTL DEF OutboxSpec, EventsDispatched, EventQueue!Spec

----------------------------------------------------------------------------
(* Print jobs *)

\* Tabs and requests are about jobs that exist; a report that a job is done is
\* about one that was printed, and so is a job that is DONE.
Reported ==
  /\ \A a \in Agent : agent[a].pc # "idle" => agent[a].job \in Job /\ Exists(agent[a].job)
  /\ \A q \in request : Exists(q.job) /\ (q.command = "finish" => printed[q.job])
  /\ \A j \in Job : job[j].estado = "DONE" => printed[j]
  /\ \A j \in Job : printed[j] => Exists(j)

PrintInv == PrintTypeOK /\ Reported

LEMMA PrintInitInv == PrintInit => PrintInv
BY DEF PrintInit, PrintInv, PrintTypeOK, Reported, IdleAgent, Exists

LEMMA SavedType ==
  ASSUME NEW estado \in Estado
  PROVE  /\ Saved(estado) \in [estado: {"ABSENT"} \cup Estado, old: BOOLEAN]
         /\ Saved(estado).estado = estado
BY DEF Saved

LEMMA SendType ==
  ASSUME PrintTypeOK, NEW who \in Agent \cup Operator, NEW command \in Command,
         NEW j \in Job, Send(who, command, j)
  PROVE  /\ request' \subseteq RequestRecord
         /\ \A q \in request' : q \in request \/ (q.job = j /\ q.command = command)
BY DEF PrintTypeOK, Send, RequestRecord

\* A row is written: estado is one of Estado, and DONE only for a printed job.
LEMMA WriteInv ==
  ASSUME PrintInv, NEW j \in Job, NEW row \in [estado: Estado, old: BOOLEAN],
         job' = [job EXCEPT ![j] = row],
         created' \in Seq(Job), request' \subseteq request, asked' \in [Job -> BOOLEAN],
         UNCHANGED <<agent, printed>>,
         row.estado = "DONE" => printed[j]
  PROVE  PrintInv'
<1>1. PrintTypeOK'
  BY DEF PrintInv, PrintTypeOK
<1>2. \A k \in Job : /\ Exists(k) => Exists(k)'
                     /\ job'[k].estado = "DONE" => printed[k]
  BY DEF PrintInv, PrintTypeOK, Reported, Exists, Estado
<1>3. \A q \in request : q.job \in Job
  BY DEF PrintInv, PrintTypeOK, RequestRecord
<1>4. Reported'
  BY <1>2, <1>3 DEF PrintInv, Reported
<1> QED BY <1>1, <1>4 DEF PrintInv

LEMMA CreateJobInv == ASSUME PrintInv, NEW j \in Job, CreateJob(j) PROVE PrintInv'
<1>1. created' \in Seq(Job)
  BY DEF CreateJob, Insert, PrintInv, PrintTypeOK
<1> QED
  BY <1>1, WriteInv DEF CreateJob, Insert, Saved, Estado, PrintInv, PrintTypeOK

LEMMA RowStepInv == ASSUME PrintInv, NEW j \in Job, RowStep(j) PROVE PrintInv'
<1>1. CASE QueueReceipt(j)
  <2>1. created' \in Seq(Job) /\ asked' \in [Job -> BOOLEAN]
    BY <1>1 DEF QueueReceipt, PrintInv, PrintTypeOK
  <2> QED BY <1>1, <2>1, WriteInv DEF QueueReceipt, Saved, Estado
<1>2. CASE GetStuck(j)
  BY <1>2, WriteInv DEF GetStuck, Estado, PrintInv, PrintTypeOK
<1>3. ASSUME NEW o \in Operator, PressRetry(o, j) PROVE PrintInv'
  <2>1. /\ request' \subseteq RequestRecord
        /\ \A q \in request' : q \in request \/ (q.job = j /\ q.command = "retry")
    BY <1>3, SendType DEF PressRetry, PrintInv, Command
  <2>2. UNCHANGED <<job, created, agent, asked, printed>> /\ Exists(j)
    BY <1>3 DEF PressRetry, Exists
  <2> QED BY <2>1, <2>2 DEF PrintInv, PrintTypeOK, Reported, Exists
<1> QED BY <1>1, <1>2, <1>3 DEF RowStep

LEMMA AgentStepInv == ASSUME PrintInv, NEW a \in Agent, AgentStep(a) PROVE PrintInv'
<1> USE DEF PrintInv
<1>1. CASE Poll(a)
  <2>1. PICK j \in Job : /\ Oldest(j) /\ Send(a, "take", j)
                         /\ agent' = [agent EXCEPT ![a] = [pc |-> "take", job |-> j]]
    BY <1>1 DEF Poll
  <2>2. /\ request' \subseteq RequestRecord
        /\ \A q \in request' : q \in request \/ (q.job = j /\ q.command = "take")
    BY <2>1, SendType DEF Command
  <2>3. Exists(j) /\ UNCHANGED <<job, created, asked, printed>>
    BY <1>1, <2>1 DEF Poll, Oldest, Exists
  <2>4. PrintTypeOK'
    BY <2>1, <2>2, <2>3 DEF PrintTypeOK
  <2>5. Reported'
    BY <2>1, <2>2, <2>3 DEF PrintTypeOK, Reported, Exists
  <2> QED BY <2>4, <2>5
<1>2. CASE StartPrinting(a)
  <2>1. PrintTypeOK'
    BY <1>2 DEF StartPrinting, PrintTypeOK
  <2> QED BY <1>2, <2>1 DEF StartPrinting, PrintTypeOK, Reported, Exists
<1>3. ASSUME NEW command \in {"finish", "fail"}, Report(a, command),
             agent[a].pc # "idle", printed' \in [Job -> BOOLEAN],
             \A j \in Job : /\ printed[j] => printed'[j]
                            /\ printed'[j] => printed[j] \/ j = agent[a].job,
             command = "finish" => printed'[agent[a].job]
      PROVE  PrintInv'
  <2>1. agent[a].job \in Job /\ Exists(agent[a].job)
    BY <1>3 DEF Reported
  <2>2. /\ request' \subseteq RequestRecord
        /\ \A q \in request' :
             q \in request \/ (q.job = agent[a].job /\ q.command = command)
    BY <1>3, <2>1, SendType DEF Command, Report
  <2>3. agent' = [agent EXCEPT ![a].pc = command] /\ UNCHANGED <<job, created, asked>>
    BY <1>3 DEF Report
  <2>4. PrintTypeOK'
    BY <1>3, <2>2, <2>3 DEF PrintTypeOK
  <2>5. \A q \in request : q.job \in Job
    BY DEF PrintTypeOK, RequestRecord
  <2>6. \A b \in Agent : /\ agent'[b].job = agent[b].job
                         /\ agent'[b].pc # "idle" => agent[b].pc # "idle"
    BY <1>3, <2>3 DEF PrintTypeOK
  <2>7. Reported'
    BY <1>3, <2>1, <2>2, <2>3, <2>5, <2>6 DEF Reported, Exists
  <2> QED BY <2>4, <2>7
<1>4. CASE FinishPrinting(a) \/ FailPrinting(a) \/ LoseConnection(a)
  <2>1. agent[a].pc # "idle"
    BY <1>4 DEF FinishPrinting, FailPrinting, LoseConnection
  <2>2. agent[a].job \in Job
    BY <2>1 DEF Reported
  <2>3. CASE FinishPrinting(a)
    BY <1>3, <2>1, <2>2, <2>3 DEF FinishPrinting, PrintTypeOK
  <2>4. CASE FailPrinting(a)
    BY <1>3, <2>1, <2>2, <2>4 DEF FailPrinting, PrintTypeOK
  <2>5. CASE LoseConnection(a)
    BY <1>3, <2>1, <2>2, <2>5 DEF LoseConnection, PrintTypeOK
  <2> QED BY <1>4, <2>3, <2>4, <2>5
<1>5. CASE EndJob(a) \/ CloseTab(a)
  <2>1. Rest(a)
    BY <1>5 DEF EndJob, CloseTab
  <2>2. PrintTypeOK'
    BY <2>1 DEF Rest, IdleAgent, PrintTypeOK
  <2>3. Reported'
    BY <2>1 DEF Rest, IdleAgent, PrintTypeOK, Reported, Exists
  <2> QED BY <2>2, <2>3
<1> QED BY <1>1, <1>2, <1>4, <1>5 DEF AgentStep

LEMMA RequestStepInv ==
  ASSUME PrintInv, NEW q \in request, RequestStep(q) PROVE PrintInv'
<1>1. q \in RequestRecord
  BY DEF PrintInv, PrintTypeOK
<1>2. CASE Check(q)
  <2>1. [q EXCEPT !.stage = "checked"] \in RequestRecord
    BY <1>1 DEF RequestRecord
  <2>2. /\ [q EXCEPT !.stage = "checked"].job = q.job
        /\ [q EXCEPT !.stage = "checked"].command = q.command
    BY <1>1 DEF RequestRecord
  <2>3. /\ \A r \in request' : r \in request \/ r = [q EXCEPT !.stage = "checked"]
        /\ UNCHANGED <<job, created, agent, asked, printed>>
    BY <1>2 DEF Check
  <2>4. PrintTypeOK'
    BY <2>1, <2>3 DEF PrintInv, PrintTypeOK
  <2>5. Reported'
    BY <2>2, <2>3 DEF PrintInv, Reported, Exists
  <2> QED BY <2>4, <2>5 DEF PrintInv
<1>3. CASE Save(q)
  <2>1. /\ Result(q.command) \in Estado
        /\ Result(q.command) = "DONE" => q.command = "finish"
    BY <1>1 DEF RequestRecord, Command, Result, Estado
  <2>2. Saved(Result(q.command)) \in [estado: Estado, old: BOOLEAN]
    BY <2>1 DEF Saved
  <2>3. q.job \in Job /\ (q.command = "finish" => printed[q.job])
    BY <1>1 DEF RequestRecord, PrintInv, Reported
  <2> QED
    BY <1>3, <2>1, <2>2, <2>3, WriteInv, SavedType DEF Save, PrintInv, PrintTypeOK
<1>4. CASE Lose(q)
  BY <1>4 DEF Lose, PrintInv, PrintTypeOK, Reported, Exists
<1> QED BY <1>2, <1>3, <1>4 DEF RequestStep

LEMMA RequeueInv == ASSUME PrintInv, Requeue PROVE PrintInv'
<1>1. /\ UNCHANGED <<created, agent, request, asked, printed>>
      /\ job' = [j \in Job |-> IF Stuck(j) THEN [estado |-> "PENDING", old |-> TRUE]
                              ELSE job[j]]
  BY DEF Requeue
<1>2. \A j \in Job : /\ job'[j] \in [estado: {"ABSENT"} \cup Estado, old: BOOLEAN]
                     /\ \/ job'[j].estado = job[j].estado
                        \/ Exists(j) /\ job'[j].estado = "PENDING"
  BY <1>1 DEF Stuck, Estado, Exists, PrintInv, PrintTypeOK
<1>3. PrintTypeOK'
  BY <1>1, <1>2 DEF PrintInv, PrintTypeOK
<1>4. \A q \in request : q.job \in Job
  BY DEF PrintInv, PrintTypeOK, RequestRecord
<1>5. Reported'
  BY <1>1, <1>2, <1>4 DEF PrintInv, Reported, Exists
<1> QED BY <1>3, <1>5 DEF PrintInv

LEMMA PrintStepInv == PrintInv /\ [PrintNext]_printVars => PrintInv'
<1> SUFFICES ASSUME PrintInv, [PrintNext]_printVars PROVE PrintInv'
  OBVIOUS
<1>1. CASE PrintNext
  BY <1>1, CreateJobInv, RowStepInv, AgentStepInv, RequestStepInv, RequeueInv DEF PrintNext
<1>2. CASE UNCHANGED printVars
  BY <1>2 DEF printVars, PrintInv, PrintTypeOK, Reported, Exists
<1> QED BY <1>1, <1>2

LEMMA PrintAlways == PrintSpec => []PrintInv
<1>1. PrintInit => PrintInv
  BY PrintInitInv
<1>2. PrintInv /\ [PrintNext]_printVars => PrintInv'
  BY PrintStepInv
<1> QED BY <1>1, <1>2, PTL DEF PrintSpec

\* Rows, commands and tabs stay in their ranges.
THEOREM PrintTypeCorrect == PrintSpec => []PrintTypeOK
<1>1. PrintInv => PrintTypeOK
  BY DEF PrintInv
<1> QED BY <1>1, PrintAlways, PTL

LEMMA JobStateType ==
  ASSUME NEW estado
  PROVE  JobState(estado) \in {"none", "open", "settled", "dropped"}
BY DEF JobState

LEMMA JobQueueInit == PrintInit => JobQueue!Init
BY DEF PrintInit, JobQueue!Init, JobState

\* What a step does to one job, in terms of AtLeastOnce: the row, or the paper.
Prints(j) ==
  \/ job'[j].estado = job[j].estado /\ printed'[j] = printed[j]
  \/ job[j].estado = "ABSENT" /\ job'[j].estado = "PENDING" /\ ~printed'[j]
  \/ Exists(j) /\ job'[j].estado = job[j].estado /\ printed'[j]
  \/ Exists(j) /\ job'[j].estado \in Estado /\ printed'[j] = printed[j]
     /\ (job'[j].estado = "DONE" => printed[j])

LEMMA WritePrints ==
  ASSUME PrintInv, NEW j \in Job, NEW row \in [estado: Estado, old: BOOLEAN],
         job' = [job EXCEPT ![j] = row], UNCHANGED printed,
         row.estado = "DONE" => printed[j],
         Exists(j) \/ row.estado = "PENDING",
         NEW k \in Job
  PROVE  Prints(k)
<1>1. CASE k = j
  BY <1>1 DEF PrintInv, PrintTypeOK, Reported, Prints, Exists
<1>2. CASE k # j
  BY <1>2 DEF PrintInv, PrintTypeOK, Prints
<1> QED BY <1>1, <1>2

LEMMA CreateJobPrints ==
  ASSUME PrintInv, NEW j \in Job, CreateJob(j), NEW k \in Job PROVE Prints(k)
BY WritePrints DEF CreateJob, Insert, Saved, Estado

LEMMA RowStepPrints ==
  ASSUME PrintInv, NEW j \in Job, RowStep(j), NEW k \in Job PROVE Prints(k)
<1>1. CASE QueueReceipt(j)
  BY <1>1, WritePrints DEF QueueReceipt, Saved, Estado
<1>2. CASE GetStuck(j)
  BY <1>2, WritePrints DEF GetStuck, Estado, Exists
<1>3. ASSUME NEW o \in Operator, PressRetry(o, j) PROVE Prints(k)
  BY <1>3 DEF PressRetry, Prints
<1> QED BY <1>1, <1>2, <1>3 DEF RowStep

LEMMA AgentStepPrints ==
  ASSUME PrintInv, NEW a \in Agent, AgentStep(a), NEW k \in Job PROVE Prints(k)
<1>1. UNCHANGED job
  BY DEF AgentStep, Poll, StartPrinting, FinishPrinting, FailPrinting, LoseConnection,
     EndJob, CloseTab, Rest, Report
<1>2. CASE FinishPrinting(a) \/ FailPrinting(a)
  <2>1. agent[a].job \in Job /\ Exists(agent[a].job)
    BY <1>2 DEF FinishPrinting, FailPrinting, PrintInv, Reported
  <2>2. printed'[k] = printed[k] \/ (k = agent[a].job /\ printed'[k])
    BY <1>2, <2>1 DEF FinishPrinting, FailPrinting, PrintInv, PrintTypeOK
  <2> QED BY <1>1, <2>1, <2>2 DEF Prints
<1>3. CASE UNCHANGED printed
  BY <1>1, <1>3 DEF Prints
<1> QED
  BY <1>2, <1>3 DEF AgentStep, Poll, StartPrinting, LoseConnection, EndJob, CloseTab, Rest

LEMMA RequestStepPrints ==
  ASSUME PrintInv, NEW q \in request, RequestStep(q), NEW k \in Job PROVE Prints(k)
<1>1. CASE Check(q) \/ Lose(q)
  BY <1>1 DEF Check, Lose, Prints
<1>2. CASE Save(q)
  <2>1. q \in RequestRecord
    BY DEF PrintInv, PrintTypeOK
  <2>2. /\ Result(q.command) \in Estado
        /\ Result(q.command) = "DONE" => q.command = "finish"
    BY <2>1 DEF RequestRecord, Command, Result, Estado
  <2>3. Saved(Result(q.command)) \in [estado: Estado, old: BOOLEAN]
    BY <2>2 DEF Saved
  <2>4. q.job \in Job /\ Exists(q.job) /\ (q.command = "finish" => printed[q.job])
    BY <2>1 DEF RequestRecord, PrintInv, Reported
  <2> QED BY <1>2, <2>2, <2>3, <2>4, WritePrints, SavedType DEF Save
<1> QED BY <1>1, <1>2 DEF RequestStep

LEMMA RequeuePrints == ASSUME PrintInv, Requeue, NEW k \in Job PROVE Prints(k)
<1>1. \/ job'[k].estado = job[k].estado
      \/ Exists(k) /\ job'[k].estado = "PENDING"
  BY DEF Requeue, Stuck, Exists, PrintInv, PrintTypeOK
<1> QED BY <1>1 DEF Requeue, Prints, Estado

LEMMA JobQueueStep ==
  ASSUME PrintInv, PrintInv', [PrintNext]_printVars
  PROVE  [JobQueue!Next]_(JobQueue!vars)
<1>1. CASE UNCHANGED printVars
  BY <1>1 DEF printVars, JobQueue!vars
<1>2. CASE PrintNext
  <2>1. \A j \in Job : Prints(j)
    BY <1>2, CreateJobPrints, RowStepPrints, AgentStepPrints, RequestStepPrints,
       RequeuePrints DEF PrintNext
  <2>2. ASSUME NEW j \in Job
        PROVE  \/ JobQueue!Keep(j) \/ JobQueue!Create(j) \/ JobQueue!Perform(j)
               \/ JobQueue!Settle(j) \/ JobQueue!Drop(j) \/ JobQueue!Reopen(j)
    BY <2>1 DEF Prints, Exists, JobState, Estado, JobQueue!Keep, JobQueue!Create,
       JobQueue!Perform, JobQueue!Settle, JobQueue!Drop, JobQueue!Reopen
  <2>3. printed' \in [Job -> BOOLEAN]
    BY DEF PrintInv, PrintTypeOK
  <2> QED BY <2>2, <2>3, JobStateType DEF JobQueue!Next
<1> QED BY <1>1, <1>2

\* Print jobs are an at-least-once queue: no job is DONE that was not printed.
THEOREM PrintJobsImplementQueue == PrintSpec => JobsPrinted
<1>1. PrintInv /\ PrintInv' /\ [PrintNext]_printVars
        => [JobQueue!Next]_(JobQueue!vars)
  BY JobQueueStep
<1> QED
  BY <1>1, JobQueueInit, PrintAlways, PTL DEF PrintSpec, JobsPrinted, JobQueue!Spec

----------------------------------------------------------------------------
(* The composition *)

LEMMA PipelineSteps ==
  ASSUME OutboxInv, [Next]_vars
  PROVE  [OutboxNext]_outboxVars /\ [PrintNext]_printVars
<1>1. CASE UNCHANGED vars
  BY <1>1 DEF vars
<1>2. ASSUME NEW w \in Worker, MakeJob(w)
      PROVE  [OutboxNext]_outboxVars /\ [PrintNext]_printVars
  <2>1. PICK j \in JobsOf[worker[w].event] : CreateJob(j)
    BY <1>2 DEF MakeJob
  <2>2. j \in Job
    BY PipelineAssumption DEF OutboxInv, OutboxTypeOK
  <2> QED BY <1>2, <2>1, <2>2 DEF MakeJob, PrintNext
<1>3. ASSUME NEW w \in Worker, DispatchSale(w)
      PROVE  [OutboxNext]_outboxVars /\ [PrintNext]_printVars
  BY <1>3 DEF DispatchSale, OutboxNext
<1>4. CASE OutboxStep /\ UNCHANGED printVars
  BY <1>4 DEF OutboxStep, OutboxNext
<1>5. CASE PrintStep /\ UNCHANGED outboxVars
  BY <1>5 DEF PrintStep, PrintNext
<1> QED BY <1>1, <1>2, <1>3, <1>4, <1>5 DEF Next

\* A worker past its dispatch, and a DONE event, have all their jobs.
JobsMade ==
  /\ \A w \in Worker : worker[w].pc = "dispatched" =>
       \A j \in JobsOf[worker[w].event] : Exists(j)
  /\ PaidSaleHasJobs

PipelineInv == OutboxInv /\ PrintInv /\ JobsMade

LEMMA RowsStay ==
  ASSUME PrintInv, PrintInv', [PrintNext]_printVars, NEW j \in Job, Exists(j)
  PROVE  Exists(j)'
<1>1. CASE UNCHANGED printVars
  BY <1>1 DEF printVars, Exists
<1>2. CASE PrintNext
  <2>1. Prints(j)
    BY <1>2, CreateJobPrints, RowStepPrints, AgentStepPrints, RequestStepPrints,
       RequeuePrints DEF PrintNext
  <2> QED BY <2>1 DEF Prints, Exists, Estado
<1> QED BY <1>1, <1>2

\* Which steps complete an event, or a dispatch.
Completions ==
  /\ \A w \in Worker : worker'[w].pc = "dispatched" =>
       worker'[w] = worker[w]
  /\ \A e \in Event : event'[e].status = "DONE" =>
       \/ event[e].status = "DONE"
       \/ \E w \in Worker : worker[w].pc = "dispatched" /\ worker[w].event = e

LEMMA EventStepCompletions ==
  ASSUME OutboxInv, NEW e \in Event, EventStep(e) PROVE Completions
<1>1. UNCHANGED worker
  BY DEF EventStep, CreateEvent, LoseMessage, BecomeDue, BecomeStale
<1>2. event \in [Event -> EventRow]
  BY DEF OutboxInv, OutboxTypeOK
<1>3. event' = [event EXCEPT ![e].status = "PENDING"]
      \/ event' = [event EXCEPT ![e].due = TRUE]
      \/ event' = [event EXCEPT ![e].stale = TRUE] \/ UNCHANGED event
  BY DEF EventStep, CreateEvent, LoseMessage, BecomeDue, BecomeStale
<1>4. \A d \in Event : event'[d].status = "DONE" => event[d].status = "DONE"
  BY <1>2, <1>3 DEF EventRow
<1> QED BY <1>1, <1>4 DEF Completions

LEMMA ClaimStepCompletions ==
  ASSUME OutboxInv, NEW v \in Worker, ClaimStep(v) PROVE Completions
<1>1. PICK e \in Event : Claim(v, e) \/ Skip(v, e)
  BY DEF ClaimStep
<1>2. CASE Skip(v, e)
  BY <1>2 DEF Skip, Completions
<1>3. CASE Claim(v, e)
  <2>1. event' = [event EXCEPT ![e] = ClaimedRow(@)] /\ event \in [Event -> EventRow]
    BY <1>3 DEF Claim, OutboxInv, OutboxTypeOK
  <2>2. ClaimedRow(event[e]).status = "IN_PROGRESS"
    BY <2>1 DEF ClaimedRow, EventRow
  <2>3. \A d \in Event : event'[d].status = "DONE" => event[d].status = "DONE"
    BY <2>1, <2>2
  <2>4. \A w \in Worker : worker'[w].pc = "dispatched" => worker'[w] = worker[w]
    BY <1>3 DEF Claim, OutboxInv, OutboxTypeOK
  <2> QED BY <2>3, <2>4 DEF Completions
<1> QED BY <1>1, <1>2, <1>3

LEMMA EndStepCompletions ==
  ASSUME OutboxInv, NEW v \in Worker, EndStep(v) PROVE Completions
<1>1. \A w \in Worker : worker'[w].pc = "dispatched" => worker'[w] = worker[w]
  <2>1. Idle(v) /\ worker = [w \in Worker |-> worker[w]]
    BY DEF EndStep, Fail, Complete, CrashWorker, OutboxInv, OutboxTypeOK
  <2>2. worker'[v].pc = "idle" /\ \A w \in Worker \ {v} : worker'[w] = worker[w]
    BY <2>1 DEF Idle
  <2> QED BY <2>2
<1>2. event \in [Event -> EventRow] /\ worker[v].event \in Event
  BY DEF OutboxInv, OutboxTypeOK
<1>3. CASE Complete(v)
  BY <1>1, <1>2, <1>3 DEF Complete, Completions
<1>4. CASE CrashWorker(v)
  BY <1>1, <1>4 DEF CrashWorker, Completions
<1>5. CASE Fail(v)
  <2>1. PICK next \in {"BLOCKED", "FAILED"} :
          event' = [event EXCEPT ![worker[v].event] = Row(@, next, FALSE)]
    BY <1>5 DEF Fail
  <2>2. Row(event[worker[v].event], next, FALSE).status = next
    BY <1>2 DEF Row, EventRow
  <2>3. \A d \in Event : event'[d].status = "DONE" => event[d].status = "DONE"
    BY <1>2, <2>1, <2>2
  <2> QED BY <1>1, <2>3 DEF Completions
<1> QED BY <1>3, <1>4, <1>5 DEF EndStep

LEMMA SweepCompletions == ASSUME OutboxInv, Sweep PROVE Completions
<1>1. CASE SweepRelease
  <2>1. \A e \in Event : event'[e].status = "DONE" => event[e].status = "DONE"
    BY <1>1 DEF SweepRelease, Row, OutboxInv, OutboxTypeOK, EventRow
  <2> QED BY <1>1, <2>1 DEF SweepRelease, Completions
<1>2. CASE SweepScan \/ SweepEnqueue \/ CrashSweep
  BY <1>2 DEF SweepScan, SweepEnqueue, CrashSweep, Completions
<1> QED BY <1>1, <1>2 DEF Sweep

LEMMA PipelineInitInv == Init => PipelineInv
<1> SUFFICES ASSUME Init PROVE PipelineInv
  OBVIOUS
<1>1. OutboxInv /\ PrintInv
  BY OutboxInitInv, PrintInitInv DEF Init
<1>2. JobsMade
  BY DEF Init, OutboxInit, NoEvent, JobsMade, PaidSaleHasJobs
<1> QED BY <1>1, <1>2 DEF PipelineInv

LEMMA PipelineStepInv == PipelineInv /\ [Next]_vars => PipelineInv'
<1> SUFFICES ASSUME PipelineInv, [Next]_vars PROVE PipelineInv'
  OBVIOUS
<1>1. OutboxInv /\ PrintInv /\ JobsMade
  BY DEF PipelineInv
<1>2. [OutboxNext]_outboxVars /\ [PrintNext]_printVars
  BY <1>1, PipelineSteps
<1>3. OutboxInv' /\ PrintInv'
  BY <1>1, <1>2, OutboxStepInv, PrintStepInv
<1>4. \A j \in Job : Exists(j) => Exists(j)'
  BY <1>1, <1>2, <1>3, RowsStay
<1>5. ASSUME Completions PROVE JobsMade'
  <2>1. \A e \in Event : JobsOf[e] \subseteq Job
    BY PipelineAssumption
  <2>2. \A w \in Worker : worker[w].event \in Event
    BY <1>1 DEF OutboxInv, OutboxTypeOK
  <2> QED BY <1>1, <1>4, <1>5, <2>1, <2>2 DEF Completions, JobsMade, PaidSaleHasJobs
<1>6. ASSUME UNCHANGED outboxVars PROVE JobsMade'
  BY <1>5, <1>6 DEF outboxVars, Completions
<1>7. ASSUME OutboxStep PROVE JobsMade'
  BY <1>1, <1>5, <1>7, EventStepCompletions, ClaimStepCompletions,
     EndStepCompletions, SweepCompletions DEF OutboxStep
<1>8. ASSUME NEW v \in Worker, DispatchSale(v) PROVE JobsMade'
  <2>1. /\ \A j \in JobsOf[worker[v].event] : Exists(j)
        /\ worker' = [worker EXCEPT ![v].pc = "dispatched"] /\ UNCHANGED event
    BY <1>8 DEF DispatchSale, Dispatch
  <2>2. UNCHANGED job
    BY <1>8 DEF DispatchSale, printVars
  <2>3. \A w \in Worker : worker'[w].event = worker[w].event
    BY <1>1, <2>1 DEF OutboxInv, OutboxTypeOK
  <2>4. \A w \in Worker : worker'[w].pc = "dispatched" =>
          w = v \/ worker[w].pc = "dispatched"
    BY <1>1, <2>1 DEF OutboxInv, OutboxTypeOK
  <2> QED BY <1>1, <2>1, <2>2, <2>3, <2>4 DEF JobsMade, PaidSaleHasJobs, Exists
<1> QED BY <1>3, <1>5, <1>6, <1>7, <1>8 DEF Next, MakeJob, vars, PipelineInv

LEMMA PipelineAlways == Spec => []PipelineInv
<1> QED BY PipelineInitInv, PipelineStepInv, PTL DEF Spec

\* A DONE event has all its print jobs, for any number of events, jobs, workers
\* and tabs, and whatever is lost, dies or is swept.
THEOREM SaleHasJobs == Spec => []PaidSaleHasJobs
<1>1. PipelineInv => PaidSaleHasJobs
  BY DEF PipelineInv, JobsMade
<1> QED BY <1>1, PipelineAlways, PTL

\* Both parts of the pipeline keep their promises when they run together: a DONE
\* event was dispatched, a DONE job was printed.
THEOREM PipelineImplementsQueues == Spec => EventsDispatched /\ JobsPrinted
<1>1. PipelineInv /\ [Next]_vars => [OutboxNext]_outboxVars /\ [PrintNext]_printVars
  BY PipelineSteps DEF PipelineInv
<1>2. Init => OutboxInit /\ PrintInit
  BY DEF Init
<1>3. Spec => OutboxSpec /\ PrintSpec
  BY <1>1, <1>2, PipelineAlways, PTL DEF Spec, OutboxSpec, PrintSpec
<1> QED BY <1>3, OutboxImplementsQueue, PrintJobsImplementQueue
=============================================================================
