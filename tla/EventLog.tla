------------------------------ MODULE EventLog ------------------------------
(***************************************************************************)
(* What a journal kept in numbered segments promises: a segment only       *)
(* grows, one record at a time, and no more once it is closed or its tail  *)
(* is damaged.  What could be read stays readable until the segment is     *)
(* destroyed as a whole, which is never done to one that is sound and      *)
(* open, unless it was copied or somebody acted on an out-of-date view.    *)
(***************************************************************************)
EXTENDS Sequences

CONSTANTS Segment, Event

VARIABLES
  log,     \* the records that can be read back from each segment
  closed,  \* the segments that are closed
  damaged, \* the segments with something unreadable behind their records
  copied,  \* the segments copied to another place
  raced    \* the segments somebody had an out-of-date view of

vars == <<log, closed, damaged, copied, raced>>

Init ==
  /\ log = [s \in Segment |-> <<>>]
  /\ closed = {} /\ damaged = {} /\ copied = {} /\ raced = {}

Record(s, e) ==
  /\ s \notin closed \cup damaged
  /\ log' = [log EXCEPT ![s] = Append(@, e)]
  /\ UNCHANGED <<closed, damaged, copied>>

Close(s) ==
  /\ s \notin closed \cup damaged
  /\ closed' = closed \cup {s}
  /\ UNCHANGED <<log, damaged, copied>>

Damage(s) ==
  /\ damaged' = damaged \cup {s}
  /\ UNCHANGED <<log, closed, copied>>

Copy(s) ==
  /\ copied' = copied \cup {s}
  /\ UNCHANGED <<log, closed, damaged>>

Destroy(s) ==
  /\ s \in closed \cup damaged \cup copied \cup raced
  /\ log' = [log EXCEPT ![s] = <<>>]
  /\ closed' = closed \ {s} /\ damaged' = damaged \ {s} /\ copied' = copied \ {s}

\* A race is noticed with any step, or alone.
Next ==
  /\ raced \subseteq raced' /\ raced' \subseteq Segment
  /\ \/ UNCHANGED <<log, closed, damaged, copied>>
     \/ \E s \in Segment :
          \/ Close(s) \/ Damage(s) \/ Copy(s) \/ Destroy(s)
          \/ \E e \in Event : Record(s, e)

Spec == Init /\ [][Next]_vars
=============================================================================
