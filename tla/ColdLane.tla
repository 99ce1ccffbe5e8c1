------------------------------- MODULE ColdLane -------------------------------
(***************************************************************************)
(* One bucket of the replay gateway's cold lane                            *)
(* (pos/infrastructure/replay_gateway): the Lua scripts of the Redis       *)
(* coordinator, the heartbeat of a ticket and the proxy that holds it.     *)
(*                                                                         *)
(* Each script is one step.  Time is what it brings about, in any order:   *)
(* a ticket's key expires by Redis' clock, a slot's score passes by the    *)
(* clock of whichever gateway prunes, a waiter grows old, a slice is       *)
(* spent, a slice's key expires.  A lease that lapses while its request    *)
(* goes on is a fault, and faults are bounded.                             *)
(***************************************************************************)
EXTENDS Naturals, FiniteSets

CONSTANTS
  Organization,
  Request,    \* requests a gateway can be proxying
  MaxSlots,
  MaxWaiters, \* max_waiters_per_bucket
  MaxFaults,  \* bound: leases that lapse in use, gateways that die, releases
              \* that fail, requests cut by a timeout
  NoRequest, NoOrganization

ASSUME LaneAssumption ==
  /\ MaxSlots \in Nat \ {0} /\ MaxWaiters \in Nat /\ MaxFaults \in Nat
  /\ NoRequest \notin Request /\ NoOrganization \notin Organization
  /\ IsFiniteSet(Organization)

VARIABLES
  ticket,  \* org:<org>:ticket, whose value names the request it was given to
  slots,   \* members of the ZSET of slots
  waiters, \* members of the ZSET of waiters
  slice,   \* slice:<org>: no key, not spent yet, or spent
  proxy,   \* the requests in the gateways
  faults,  \* how many faults may still come
  early    \* history: organizations whose slot passed before their ticket

vars == <<ticket, slots, waiters, slice, proxy, faults, early>>

Idle == [pc |-> "idle", org |-> NoOrganization]

TypeOK ==
  /\ ticket \in [Organization -> Request \cup {NoRequest}]
  /\ slots \subseteq Organization /\ waiters \subseteq Organization
  /\ slice \in [Organization -> {"none", "running", "spent"}]
  /\ proxy \in [Request -> [pc: {"idle", "admitted", "sent"},
                            org: Organization \cup {NoOrganization}]]
  /\ faults \in 0..MaxFaults
  /\ early \subseteq Organization

Init ==
  /\ ticket = [o \in Organization |-> NoRequest]
  /\ slots = {} /\ waiters = {}
  /\ slice = [o \in Organization |-> "none"]
  /\ proxy = [r \in Request |-> Idle]
  /\ faults = MaxFaults
  /\ early = {}

Live(o) == ticket[o] # NoRequest
InProgress(r) == proxy[r] # Idle

Fault == faults > 0 /\ faults' = faults - 1

-----------------------------------------------------------------------------
(* LUA_ADMIT *)

\* Mutant: the slots are counted one too few.
OffByOneFull == Cardinality(slots) > MaxSlots

Full == Cardinality(slots) >= MaxSlots
Draining(o) == slice[o] = "spent" /\ waiters \ {o} # {}

RegisterWaiter(o) ==
  waiters' = IF Cardinality(waiters) < MaxWaiters THEN waiters \cup {o} ELSE waiters

\* An organization that has a ticket is denied and nothing changes.
Admit(r, o) ==
  /\ ~InProgress(r)
  /\ ~Live(o) /\ ~Full /\ ~Draining(o)
  /\ slice' = [slice EXCEPT ![o] = "running"]
  /\ slots' = slots \cup {o}
  /\ ticket' = [ticket EXCEPT ![o] = r]
  /\ waiters' = waiters \ {o}
  /\ proxy' = [proxy EXCEPT ![r] = [pc |-> "admitted", org |-> o]]
  /\ UNCHANGED <<faults, early>>

Deny(o) ==
  /\ ~Live(o)
  /\ Full \/ Draining(o)
  /\ RegisterWaiter(o)
  /\ UNCHANGED <<ticket, slots, slice, proxy, faults, early>>

-----------------------------------------------------------------------------
(* The holder *)

\* TicketHeartbeatThread renews both leases while the ticket is the holder's.
Heartbeat(r) ==
  LET o == proxy[r].org IN
  /\ InProgress(r)
  /\ ticket[o] = r
  /\ slots' = slots \cup {o}
  /\ UNCHANGED <<ticket, waiters, slice, proxy, faults, early>>

\* Mutant: whatever ticket the organization has.
GiveBackAny(r) ==
  LET o == proxy[r].org IN
  /\ ticket' = [ticket EXCEPT ![o] = NoRequest]
  /\ slots' = slots \ {o}
  /\ UNCHANGED early

\* LUA_RELEASE: only the holder's own ticket.
GiveBack(r) ==
  LET o == proxy[r].org IN
  IF ticket[o] = r
    THEN /\ ticket' = [ticket EXCEPT ![o] = NoRequest]
         /\ slots' = slots \ {o}
         /\ early' = early \ {o}
    ELSE UNCHANGED <<ticket, slots, early>>

Leave(r) == proxy' = [proxy EXCEPT ![r] = Idle]

\* The request goes upstream right after the admission.
Send(r) ==
  /\ proxy[r].pc = "admitted"
  /\ proxy' = [proxy EXCEPT ![r].pc = "sent"]
  /\ UNCHANGED <<ticket, slots, waiters, slice, faults, early>>

\* The answer is through and the ticket is given back.
Complete(r) ==
  /\ proxy[r].pc = "sent"
  /\ Leave(r) /\ GiveBack(r)
  /\ UNCHANGED <<waiters, slice, faults>>

\* check_fence fails before a chunk: the ticket is no longer the holder's.
Fenced(r) ==
  /\ proxy[r].pc = "sent"
  /\ ticket[proxy[r].org] # r
  /\ Leave(r) /\ GiveBack(r)
  /\ UNCHANGED <<waiters, slice, faults>>

\* A total or idle timeout, or an error, ends the request.
Cut(r) ==
  /\ InProgress(r)
  /\ Fault
  /\ Leave(r) /\ GiveBack(r)
  /\ UNCHANGED <<waiters, slice>>

\* The gateway dies, or Redis does not answer the release.
Abandon(r) ==
  /\ InProgress(r)
  /\ Fault
  /\ Leave(r)
  /\ UNCHANGED <<ticket, slots, waiters, slice, early>>

-----------------------------------------------------------------------------
(* What time does to the keys *)

InUse(o) == Live(o) /\ InProgress(ticket[o]) /\ proxy[ticket[o]].org = o

TicketExpires(o) ==
  /\ Live(o)
  /\ IF InUse(o) THEN Fault ELSE UNCHANGED faults
  /\ ticket' = [ticket EXCEPT ![o] = NoRequest]
  /\ early' = early \ {o}
  /\ UNCHANGED <<slots, waiters, slice, proxy>>

\* The score is the gateway's clock plus the time to live, and it passes by
\* the clock of the gateway that prunes: perhaps while the ticket lives.
SlotPasses(o) ==
  /\ o \in slots
  /\ IF Live(o) THEN Fault ELSE UNCHANGED faults
  /\ slots' = slots \ {o}
  /\ early' = IF Live(o) THEN early \cup {o} ELSE early
  /\ UNCHANGED <<ticket, waiters, slice, proxy>>

WaiterExpires(o) ==
  /\ o \in waiters
  /\ waiters' = waiters \ {o}
  /\ UNCHANGED <<ticket, slots, slice, proxy, faults, early>>

SliceSpent(o) ==
  /\ slice[o] = "running"
  /\ slice' = [slice EXCEPT ![o] = "spent"]
  /\ UNCHANGED <<ticket, slots, waiters, proxy, faults, early>>

\* Mutant: the key of a slice has no safety TTL.
SliceKeyStays(o) == slice[o] = "none" /\ UNCHANGED vars

SliceKeyExpires(o) ==
  /\ slice[o] # "none"
  /\ slice' = [slice EXCEPT ![o] = "none"]
  /\ UNCHANGED <<ticket, slots, waiters, proxy, faults, early>>

Time ==
  \E o \in Organization :
    \/ TicketExpires(o) \/ SlotPasses(o) \/ WaiterExpires(o)
    \/ SliceSpent(o) \/ SliceKeyExpires(o)

-----------------------------------------------------------------------------
Ask(o) == Deny(o) \/ \E r \in Request : Admit(r, o)

Next ==
  \/ \E o \in Organization : Ask(o)
  \/ \E r \in Request :
       \/ Heartbeat(r) \/ Send(r) \/ Complete(r)
       \/ Fenced(r) \/ Cut(r) \/ Abandon(r)
  \/ Time

Spec == Init /\ [][Next]_vars

\* Tills go on asking, requests end, and Redis expires the keys that nobody
\* renews.  A waiter need not grow old: its organization asks again before.
Fairness ==
  /\ \A o \in Organization :
       /\ WF_vars(Ask(o))
       /\ WF_vars(SliceKeyExpires(o))
       /\ WF_vars(~InUse(o) /\ TicketExpires(o))
       /\ WF_vars(~Live(o) /\ SlotPasses(o))
  /\ \A r \in Request :
       WF_vars(Send(r)) /\ WF_vars(Complete(r))

FairSpec == Spec /\ Fairness

-----------------------------------------------------------------------------
(* Properties *)

\* The cold lane of a bucket holds at most its slots, over all gateways and
\* whatever becomes of their requests.  A slot is scored by a gateway's clock
\* and a ticket expires by Redis': an organization whose slot passed before
\* its ticket did is not counted, and its heartbeat takes the slot again
\* without asking whether another has it by now.
LaneCapacity ==
  Cardinality({o \in Organization : Live(o)} \ early) <= MaxSlots

\* A request loses its ticket to time alone: while a request goes on, the
\* ticket of its organization is its own, or it expired, and then no other
\* request takes it from the one that asked next.
TicketLostToTime ==
  [][\A o \in Organization :
       InUse(o) /\ ticket'[o] # ticket[o] =>
         \/ proxy'[ticket[o]] = Idle
         \/ ticket'[o] = NoRequest /\ faults' < faults]_vars

\* While organizations keep asking, the cold lane is not left empty for ever,
\* although each may be told to drain because the other waits: what ends the
\* standoff is the expiry of the key of a slice.
NoStandoff == []<>(\E o \in Organization : Live(o))
=============================================================================
