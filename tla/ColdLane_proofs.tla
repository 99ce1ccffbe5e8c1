--------------------------- MODULE ColdLane_proofs ---------------------------
(***************************************************************************)
(* Theorems about ColdLane, for any organizations, requests and bounds and *)
(* any number of slots.  What makes the capacity hold is that an           *)
(* organization whose ticket lives has its slot unless the slot passed     *)
(* first (HoldersHaveSlots): the admission counts slots, not tickets.      *)
(***************************************************************************)
EXTENDS ColdLane, FiniteSetTheorems, TLAPS

\* The organizations whose ticket lives and whose slot has not passed.
Holders == {o \in Organization : Live(o)} \ early

HoldersHaveSlots == Holders \subseteq slots

\* A request in progress asked for an organization.
RequestsAsked == \A r \in Request : InProgress(r) => proxy[r].org \in Organization

LaneInv == TypeOK /\ RequestsAsked /\ HoldersHaveSlots /\ LaneCapacity

----------------------------------------------------------------------------
(* Helpers *)

LEMMA SlotsFinite ==
  ASSUME TypeOK PROVE IsFiniteSet(slots)
BY FS_Subset, LaneAssumption DEF TypeOK

LEMMA HoldersFinite == IsFiniteSet(Holders) /\ Cardinality(Holders) \in Nat
<1>1. Holders \in SUBSET Organization
  BY DEF Holders
<1> QED BY <1>1, FS_Subset, FS_CardinalityType, LaneAssumption

LEMMA CapacityOfHolders == LaneCapacity <=> Cardinality(Holders) <= MaxSlots
BY DEF LaneCapacity, Holders

\* Fewer holders need no more slots.
LEMMA FewerHolders ==
  ASSUME LaneCapacity, Holders' \subseteq Holders
  PROVE  LaneCapacity'
<1>1. Cardinality(Holders') <= Cardinality(Holders) /\ Cardinality(Holders') \in Nat
  BY HoldersFinite, FS_Subset, FS_CardinalityType
<1>2. LaneCapacity' <=> Cardinality(Holders') <= MaxSlots
  BY DEF LaneCapacity, Holders
<1> QED BY <1>1, <1>2, HoldersFinite, CapacityOfHolders, LaneAssumption

\* Nothing about the holders changes.
LEMMA SameHolders ==
  ASSUME LaneInv, UNCHANGED <<ticket, early>>, slots \subseteq slots'
  PROVE  HoldersHaveSlots' /\ LaneCapacity'
<1>1. Holders' = Holders
  BY DEF Holders, Live
<1> QED BY <1>1, FewerHolders DEF LaneInv, HoldersHaveSlots

LEMMA LaneInitInv == Init => LaneInv
<1> SUFFICES ASSUME Init PROVE LaneInv
  OBVIOUS
<1>1. TypeOK /\ RequestsAsked
  BY LaneAssumption DEF Init, TypeOK, RequestsAsked, InProgress, Idle
<1>2. Holders = {}
  BY DEF Init, Holders, Live
<1>3. LaneCapacity
  BY <1>2, FS_EmptySet, CapacityOfHolders, LaneAssumption
<1> QED BY <1>1, <1>2, <1>3 DEF LaneInv, HoldersHaveSlots

----------------------------------------------------------------------------
(* The steps keep the invariant *)

LEMMA AdmitInv ==
  ASSUME LaneInv, NEW r \in Request, NEW o \in Organization, Admit(r, o)
  PROVE  LaneInv'
<1>1. TypeOK' /\ RequestsAsked'
  BY DEF Admit, LaneInv, TypeOK, RequestsAsked, InProgress, Idle
<1>2. Holders' \subseteq Holders \cup {o}
  BY DEF Admit, LaneInv, TypeOK, Holders, Live
<1>3. HoldersHaveSlots'
  BY <1>2 DEF Admit, LaneInv, HoldersHaveSlots
<1>4. LaneCapacity'
  <2>1. Cardinality(slots) < MaxSlots /\ Cardinality(slots) \in Nat
    BY SlotsFinite, FS_CardinalityType, LaneAssumption DEF Admit, Full, LaneInv
  <2>2. /\ IsFiniteSet(slots \cup {o})
        /\ Cardinality(slots \cup {o}) <= Cardinality(slots) + 1
    BY <2>1, SlotsFinite, FS_AddElement DEF LaneInv
  <2>3. Holders' \subseteq slots \cup {o}
    BY <1>3 DEF HoldersHaveSlots, Admit
  <2>4. /\ Cardinality(Holders') <= Cardinality(slots \cup {o})
        /\ Cardinality(Holders') \in Nat /\ Cardinality(slots \cup {o}) \in Nat
    BY <2>2, <2>3, FS_Subset, FS_CardinalityType
  <2>5. LaneCapacity' <=> Cardinality(Holders') <= MaxSlots
    BY DEF LaneCapacity, Holders
  <2> QED BY <2>1, <2>2, <2>4, <2>5, LaneAssumption
<1> QED BY <1>1, <1>3, <1>4 DEF LaneInv

LEMMA DenyInv ==
  ASSUME LaneInv, NEW o \in Organization, Deny(o)
  PROVE  LaneInv'
<1>1. TypeOK' /\ RequestsAsked'
  BY DEF Deny, RegisterWaiter, LaneInv, TypeOK, RequestsAsked, InProgress
<1>2. HoldersHaveSlots' /\ LaneCapacity'
  BY SameHolders DEF Deny
<1> QED BY <1>1, <1>2 DEF LaneInv

\* Giving a ticket back takes its organization out of the holders with its slot.
LEMMA GiveBackInv ==
  ASSUME LaneInv, NEW r \in Request, InProgress(r), Leave(r), GiveBack(r),
         UNCHANGED <<waiters, slice>>, faults' \in 0..MaxFaults
  PROVE  LaneInv'
<1> DEFINE o == proxy[r].org
<1>1. o \in Organization
  BY DEF LaneInv, RequestsAsked
<1>2. TypeOK' /\ RequestsAsked'
  BY <1>1 DEF LaneInv, TypeOK, RequestsAsked, InProgress, Leave, GiveBack, Idle
<1>3. CASE ticket[o] = r
  <2>1. /\ ticket' = [ticket EXCEPT ![o] = NoRequest]
        /\ slots' = slots \ {o} /\ early' = early \ {o}
    BY <1>3 DEF GiveBack
  <2>2. Holders' = Holders \ {o}
    BY <1>1, <2>1 DEF LaneInv, TypeOK, Holders, Live
  <2>3. HoldersHaveSlots' /\ LaneCapacity'
    BY <2>1, <2>2, FewerHolders DEF LaneInv, HoldersHaveSlots
  <2> QED BY <1>2, <2>3 DEF LaneInv
<1>4. CASE ticket[o] # r
  BY <1>2, <1>4, SameHolders DEF GiveBack, LaneInv
<1> QED BY <1>3, <1>4

LEMMA HolderStepInv ==
  ASSUME LaneInv, NEW r \in Request,
         \/ Heartbeat(r) \/ Send(r) \/ Complete(r)
         \/ Fenced(r) \/ Cut(r) \/ Abandon(r)
  PROVE  LaneInv'
<1>1. CASE Heartbeat(r)
  <2>1. TypeOK' /\ RequestsAsked'
    BY <1>1 DEF Heartbeat, LaneInv, TypeOK, RequestsAsked, InProgress
  <2> QED BY <1>1, <2>1, SameHolders DEF Heartbeat, LaneInv
<1>2. CASE Send(r)
  <2>1. InProgress(r)
    BY <1>2 DEF Send, InProgress, Idle
  <2>2. TypeOK' /\ RequestsAsked'
    BY <1>2, <2>1 DEF Send, LaneInv, TypeOK, RequestsAsked, InProgress
  <2> QED BY <1>2, <2>2, SameHolders DEF Send, LaneInv
<1>3. CASE Complete(r) \/ Fenced(r)
  BY <1>3, GiveBackInv DEF Complete, Fenced, InProgress, Idle, LaneInv, TypeOK
<1>4. CASE Cut(r)
  <2>1. faults' \in 0..MaxFaults
    BY <1>4, LaneAssumption DEF Cut, Fault, LaneInv, TypeOK
  <2> QED BY <1>4, <2>1, GiveBackInv DEF Cut
<1>5. CASE Abandon(r)
  <2>1. TypeOK' /\ RequestsAsked'
    BY <1>5, LaneAssumption DEF Abandon, Leave, Fault, Idle, LaneInv, TypeOK,
       RequestsAsked, InProgress
  <2> QED BY <1>5, <2>1, SameHolders DEF Abandon, LaneInv
<1> QED BY <1>1, <1>2, <1>3, <1>4, <1>5

LEMMA TimeInv ==
  ASSUME LaneInv, Time
  PROVE  LaneInv'
<1> PICK o \in Organization :
      \/ TicketExpires(o) \/ SlotPasses(o) \/ WaiterExpires(o)
      \/ SliceSpent(o) \/ SliceKeyExpires(o)
  BY DEF Time
<1>1. RequestsAsked'
  BY DEF TicketExpires, SlotPasses, WaiterExpires, SliceSpent, SliceKeyExpires,
     LaneInv, RequestsAsked, InProgress
<1>2. TypeOK'
  BY LaneAssumption DEF TicketExpires, SlotPasses, WaiterExpires, SliceSpent,
     SliceKeyExpires, Fault, LaneInv, TypeOK
<1>3. CASE TicketExpires(o)
  <2>1. Holders' = Holders \ {o} /\ slots' = slots
    BY <1>3 DEF TicketExpires, LaneInv, TypeOK, Holders, Live
  <2>2. HoldersHaveSlots' /\ LaneCapacity'
    BY <2>1, FewerHolders DEF LaneInv, HoldersHaveSlots
  <2> QED BY <1>1, <1>2, <2>2 DEF LaneInv
<1>4. CASE SlotPasses(o)
  <2>1. Holders' = Holders \ {o} /\ slots' = slots \ {o}
    BY <1>4 DEF SlotPasses, LaneInv, TypeOK, Holders, Live
  <2>2. HoldersHaveSlots' /\ LaneCapacity'
    BY <2>1, FewerHolders DEF LaneInv, HoldersHaveSlots
  <2> QED BY <1>1, <1>2, <2>2 DEF LaneInv
<1>5. CASE WaiterExpires(o) \/ SliceSpent(o) \/ SliceKeyExpires(o)
  BY <1>1, <1>2, <1>5, SameHolders
     DEF WaiterExpires, SliceSpent, SliceKeyExpires, LaneInv
<1> QED BY <1>3, <1>4, <1>5

LEMMA LaneNextInv == LaneInv /\ [Next]_vars => LaneInv'
<1> SUFFICES ASSUME LaneInv, [Next]_vars PROVE LaneInv'
  OBVIOUS
<1>1. CASE \E o \in Organization : Ask(o)
  BY <1>1, AdmitInv, DenyInv DEF Ask
<1>2. CASE \E r \in Request : \/ Heartbeat(r) \/ Send(r) \/ Complete(r)
                              \/ Fenced(r) \/ Cut(r) \/ Abandon(r)
  BY <1>2, HolderStepInv
<1>3. CASE Time
  BY <1>3, TimeInv
<1>4. CASE UNCHANGED vars
  <2>1. TypeOK' /\ RequestsAsked'
    BY <1>4 DEF vars, LaneInv, TypeOK, RequestsAsked, InProgress
  <2> QED BY <1>4, <2>1, SameHolders DEF vars, LaneInv
<1> QED BY <1>1, <1>2, <1>3, <1>4 DEF Next

LEMMA LaneInvariant == Spec => []LaneInv
BY LaneInitInv, LaneNextInv, PTL DEF Spec

----------------------------------------------------------------------------
(* The theorems *)

\* Every variable of the bucket keeps its type, whatever its leases, slots,
\* waiters and slices go through.
THEOREM LaneTypeCorrect == Spec => []TypeOK
BY LaneInvariant, PTL DEF LaneInv

\* A bucket never has more organizations with a ticket and a slot than slots,
\* whatever expires, dies or is sent late (the Lua scripts and the heartbeat).
THEOREM CapacityKept == Spec => []LaneCapacity
BY LaneInvariant, PTL DEF LaneInv

LEMMA TicketStep ==
  ASSUME LaneInv, [Next]_vars, NEW o \in Organization,
         InUse(o), ticket'[o] # ticket[o]
  PROVE  \/ proxy'[ticket[o]] = Idle
         \/ ticket'[o] = NoRequest /\ faults' < faults
<1>1. CASE \E p \in Organization : Ask(p)
  <2> PICK p \in Organization : Ask(p)
    BY <1>1
  <2>1. ~Deny(p)
    BY DEF Deny
  <2>2. \E r \in Request : Admit(r, p)
    BY <2>1 DEF Ask
  <2>3. p # o
    BY <2>2 DEF Admit, InUse
  <2> QED BY <2>2, <2>3 DEF Admit, LaneInv, TypeOK
<1>2. CASE \E r \in Request : \/ Heartbeat(r) \/ Send(r) \/ Abandon(r)
  BY <1>2 DEF Heartbeat, Send, Abandon
<1>3. CASE \E r \in Request : Complete(r) \/ Fenced(r) \/ Cut(r)
  <2> PICK r \in Request : Complete(r) \/ Fenced(r) \/ Cut(r)
    BY <1>3
  <2>1. Leave(r) /\ GiveBack(r)
    BY DEF Complete, Fenced, Cut
  <2>2. ticket[o] = r
    BY <2>1 DEF GiveBack, LaneInv, TypeOK
  <2> QED BY <2>1, <2>2 DEF Leave, LaneInv, TypeOK
<1>4. CASE \E p \in Organization : TicketExpires(p)
  <2> PICK p \in Organization : TicketExpires(p)
    BY <1>4
  <2>1. p = o
    BY DEF TicketExpires, LaneInv, TypeOK
  <2> QED BY <2>1 DEF TicketExpires, Fault, LaneInv, TypeOK
<1>5. CASE \/ \E p \in Organization : \/ SlotPasses(p) \/ WaiterExpires(p)
                                      \/ SliceSpent(p) \/ SliceKeyExpires(p)
           \/ UNCHANGED vars
  BY <1>5 DEF SlotPasses, WaiterExpires, SliceSpent, SliceKeyExpires, vars
<1> QED BY <1>1, <1>2, <1>3, <1>4, <1>5 DEF Next, Time

\* Nobody else takes the ticket of a request that goes on: only time does,
\* and that costs a fault (LUA_RELEASE, LUA_ADMIT).
THEOREM TicketKept == Spec => TicketLostToTime
<1>1. LaneInv /\ [Next]_vars =>
        [\A o \in Organization :
           InUse(o) /\ ticket'[o] # ticket[o] =>
             \/ proxy'[ticket[o]] = Idle
             \/ ticket'[o] = NoRequest /\ faults' < faults]_vars
  BY TicketStep
<1> QED BY <1>1, LaneInvariant, PTL DEF Spec, TicketLostToTime
=============================================================================
