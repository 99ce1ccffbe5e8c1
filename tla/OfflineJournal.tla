--------------------------- MODULE OfflineJournal ---------------------------
(***************************************************************************)
(* The journal of captured sales in pos/infrastructure/offline: segments   *)
(* of hash-chained JSON lines, each with a sidecar that says how much of   *)
(* it is confirmed and whether it is sealed.  What can be read back from a *)
(* segment is its longest valid prefix.                                    *)
(*                                                                         *)
(* Captures and the actions of the dashboard hold a file lock; the limbo   *)
(* view, which repairs the sidecar it reads, and the management commands   *)
(* do not.  Any of them may die at any step, and the power may fail in the *)
(* middle of a line.                                                       *)
(*                                                                         *)
(* An offset counts lines, whole or torn.  A record is its event; the hash *)
(* chain that binds it to what precedes it is the sequence of events up to *)
(* it.                                                                     *)
(*                                                                         *)
(* A manager may copy a segment to a USB disk, which leaves a receipt in   *)
(* its sidecar, and with that receipt destroy it although no server has    *)
(* its captures.                                                           *)
(***************************************************************************)
EXTENDS Integers, Sequences, FiniteSets

CONSTANTS
  Event,        \* events to capture; no two have the same event_id
  MaxSegments,  \* bound: segments of the stream
  SegmentMax,   \* whole lines at which a segment is full: segment_max_bytes
  MaxLines,     \* bound: lines of a file, torn ones and footers included
  MaxUnlocked,  \* bound: starts of unlocked calls and of retention actions
  MaxFaults,    \* bound: deaths and lines cut short
  NoEvent, NoFooter

ASSUME JournalAssumption ==
  /\ MaxSegments \in Nat \ {0} /\ SegmentMax \in Nat \ {0} /\ MaxLines \in Nat
  /\ MaxUnlocked \in Nat /\ MaxFaults \in Nat
  /\ NoEvent \notin Event /\ NoFooter \notin Seq(Event)

Segment == 1..MaxSegments
NoSegment == 0

VARIABLES
  file,      \* the .jsonl of each segment; empty when there is none
  snap,      \* the .snapshot.json of each segment
  writer,    \* who holds the lock
  command,   \* the management command that reseals or purges a segment
  viewer,    \* whoever repairs a sidecar without the lock
  calls,     \* captures that have not started
  left,      \* how many unlocked calls and faults may still come
  acked,     \* history: <<segment, event>> of captures that succeeded
  destroyed, \* history: events a purge could read in what it removed
  torn,      \* history: segments with a line that was cut short
  raced,     \* history: segments written from a read that was out of date
  unlinked,  \* history: segments whose file is removed and sidecar is not yet
  usb,       \* what can be read back from the copy of each segment
  copied,    \* history: segments copied since their file was made
  late,      \* history: events written to such a segment, and not copied since
  overwritten, \* history: events a later copy of that name replaced
  byHand     \* history: <<segment, event>> destroyed on the word of a manager

copies == <<usb, copied, late, overwritten, byHand>>

journalVars == <<file, snap, writer, command, viewer, calls, left,
                 acked, destroyed, torn, raced, unlinked, copies>>

Line == [kind: {"event", "footer", "torn"}, chain: Seq(Event)]
EventLine(c) == [kind |-> "event", chain |-> c]
Footer(c) == [kind |-> "footer", chain |-> c]
Torn == [kind |-> "torn", chain |-> <<>>]

\* A usb_export receipt stands for the records of the copy it was given for.
Snapshot == [present: BOOLEAN, offset: Nat, sealed: BOOLEAN,
             pending: Seq(Event) \cup {NoFooter}, receipts: SUBSET Seq(Event)]
NoSnapshot == [present |-> FALSE, offset |-> 0, sealed |-> FALSE,
               pending |-> NoFooter, receipts |-> {}]

\* read is the file as it was when the call decided what to write, snap its
\* copy of the sidecar, touches how often it will load and save it again.
Call == [pc: {"idle", "write", "check", "prepare", "reseal", "footer", "seal", "view",
              "viewActive", "mark", "store", "unlink"},
         seg: Segment \cup {NoSegment}, event: Event \cup {NoEvent},
         read: Seq(Line), snap: Snapshot, touches: 0..2]
NoCall == [pc |-> "idle", seg |-> NoSegment, event |-> NoEvent,
           read |-> <<>>, snap |-> NoSnapshot, touches |-> 0]

JournalTypeOK ==
  /\ file \in [Segment -> Seq(Line)]
  /\ snap \in [Segment -> Snapshot]
  /\ writer \in Call
  /\ command \in [pc: {"idle", "footer", "seal", "note", "store", "destroy", "purge", "unlink"},
                  seg: Segment \cup {NoSegment}, read: Seq(Line), snap: Snapshot]
  /\ viewer \in [pc: {"idle", "repair"}, seg: Segment \cup {NoSegment},
                 file: Seq(Line), snap: Snapshot]
  /\ calls \subseteq Event
  /\ left \in [unlocked: 0..MaxUnlocked, faults: 0..MaxFaults]
  /\ acked \subseteq Segment \X Event
  /\ destroyed \subseteq Event
  /\ torn \subseteq Segment /\ raced \subseteq Segment /\ unlinked \subseteq Segment
  /\ usb \in [Segment -> Seq(Event)] /\ copied \subseteq Segment
  /\ late \subseteq Event /\ overwritten \subseteq Event
  /\ byHand \subseteq Segment \X Event

NoCommand == [pc |-> "idle", seg |-> NoSegment, read |-> <<>>, snap |-> NoSnapshot]
NoViewer == [pc |-> "idle", seg |-> NoSegment, file |-> <<>>, snap |-> NoSnapshot]

JournalInit ==
  /\ file = [s \in Segment |-> <<>>]
  /\ snap = [s \in Segment |-> NoSnapshot]
  /\ writer = NoCall /\ command = NoCommand /\ viewer = NoViewer
  /\ calls = Event
  /\ left = [unlocked |-> MaxUnlocked, faults |-> MaxFaults]
  /\ acked = {} /\ destroyed = {} /\ torn = {} /\ raced = {} /\ unlinked = {}
  /\ usb = [s \in Segment |-> <<>>] /\ copied = {} /\ late = {}
  /\ overwritten = {} /\ byHand = {}

----------------------------------------------------------------------------
(* Reading a segment back *)

\* _validate_event_record, _validate_footer_record: a line is bound to the
\* one before it; nothing is valid after a footer or a torn line.
Valid(f, i) ==
  LET before == IF i = 1 THEN <<>> ELSE f[i - 1].chain
  IN  /\ i > 1 => f[i - 1].kind = "event"
      /\ \/ /\ f[i].kind = "event"
            /\ f[i].chain # <<>>
            /\ SubSeq(f[i].chain, 1, Len(f[i].chain) - 1) = before
         \/ f[i].kind = "footer" /\ f[i].chain = before

\* recover_segment_prefix: the lines before the first that is not valid.
ValidLength(f) ==
  LET invalid == {i \in DOMAIN f : ~Valid(f, i)}
  IN  IF invalid = {} THEN Len(f)
      ELSE (CHOOSE i \in invalid : \A j \in invalid : i <= j) - 1

Records(f) == LET n == ValidLength(f) IN IF n = 0 THEN <<>> ELSE f[n].chain
RecordSet(f) == LET r == Records(f) IN {r[i] : i \in DOMAIN r}
Closed(f) == LET n == ValidLength(f) IN n > 0 /\ f[n].kind = "footer"
Healthy(f) == ValidLength(f) = Len(f)
\* A torn line may be as short as one byte: it fills nothing.
Full(f) == Cardinality({i \in DOMAIN f : f[i].kind # "torn"}) >= SegmentMax

\* reconcile_snapshot_with_segment: the sidecar is made anew from the
\* journal, unless it claims more than can be read back.
Reconcilable(s) == snap[s].offset <= ValidLength(file[s])

Repaired(f, old) ==
  [present |-> TRUE, offset |-> ValidLength(f), sealed |-> Closed(f),
   pending |-> IF ~Closed(f) /\ old.pending = Records(f) THEN old.pending ELSE NoFooter,
   receipts |-> old.receipts]
Reconciled(s) == Repaired(file[s], snap[s])

Largest(S) == CHOOSE s \in S : \A t \in S : t <= s

\* _discover_active_segment_id: the last sidecar that is not sealed, else
\* the last one.
Known == {s \in Segment : snap[s].present}
Unsealed == {s \in Known : ~snap[s].sealed}
ActiveSegment ==
  IF Unsealed # {} THEN Largest(Unsealed)
  ELSE IF Known # {} THEN Largest(Known) ELSE NoSegment

\* _next_segment_id counts the files, not the sidecars.
Existing == {s \in Segment : file[s] # <<>>}
NextSegment == IF Existing = {} THEN 1 ELSE Largest(Existing) + 1

\* Mutant: a segment that is full is left although its footer is missing.
FirstChoice == IF ActiveSegment = NoSegment THEN NextSegment ELSE ActiveSegment
TargetNotFull == IF Full(file[FirstChoice]) THEN NextSegment ELSE FirstChoice
Target == IF Closed(file[FirstChoice]) THEN NextSegment ELSE FirstChoice

----------------------------------------------------------------------------
(* Under the lock *)

\* A stale write decides from a file that has changed since it was read, or
\* from a sidecar that another file has left behind.
RacedBy(s, read) ==
  IF file[s] = read /\ s \notin unlinked THEN raced ELSE raced \cup {s}
Spend(k) == left[k] > 0 /\ left' = [left EXCEPT ![k] = @ - 1]
Room(s) == Len(file[s]) < MaxLines

\* append_offline_journal_envelope takes the lock; _ensure_active_journal
\* repairs the sidecar of the segment it finds and, if that one is sealed,
\* opens the next.
OpenJournal(e) ==
  /\ writer.pc = "idle" /\ e \in calls
  /\ FirstChoice \in Segment /\ Target \in Segment
  /\ Reconcilable(FirstChoice) /\ Reconcilable(Target)
  /\ calls' = calls \ {e}
  /\ snap' = [s \in Segment |-> IF s \in {FirstChoice, Target}
                                THEN Reconciled(s) ELSE snap[s]]
  /\ writer' = [NoCall EXCEPT !.pc = "write", !.seg = Target, !.event = e,
                              !.read = file[Target], !.snap = Reconciled(Target)]
  /\ UNCHANGED <<left, file, command, viewer, acked, destroyed, torn, raced, unlinked, copies>>

\* The sidecar claims too much: the capture fails and is only logged.
OpenRefused(e) ==
  /\ writer.pc = "idle" /\ e \in calls
  /\ FirstChoice \in Segment /\ Target \in Segment
  /\ ~(Reconcilable(FirstChoice) /\ Reconcilable(Target))
  /\ calls' = calls \ {e}
  /\ snap' = IF Reconcilable(FirstChoice)
             THEN [snap EXCEPT ![FirstChoice] = Reconciled(FirstChoice)] ELSE snap
  /\ UNCHANGED <<left, file, writer, command, viewer, acked, destroyed, torn, raced, unlinked, copies>>

\* append_event: the line goes to the end of the file, wherever that is,
\* chained to the record that was last when the file was read.  Mutant: it is
\* chained to nothing.
UnchainedLine(read, e) == EventLine(<<e>>)
NewLine(read, e) == EventLine(Append(Records(read), e))

WriteRecord ==
  LET s == writer.seg IN
  /\ writer.pc = "write" /\ Room(s)
  /\ file' = [file EXCEPT ![s] = Append(@, NewLine(writer.read, writer.event))]
  /\ raced' = RacedBy(s, writer.read)
  /\ late' = IF s \in copied THEN late \cup {writer.event} ELSE late
  /\ writer' = [writer EXCEPT !.pc = "check"]
  /\ UNCHANGED <<left, snap, command, viewer, calls, acked, destroyed, torn, unlinked,
                 usb, copied, overwritten, byHand>>

\* The tail is what was written: the sidecar claims the whole file.
ConfirmRecord ==
  LET s == writer.seg IN
  /\ writer.pc = "check"
  /\ file[s] # <<>>
  /\ file[s][Len(file[s])] = NewLine(writer.read, writer.event)
  /\ snap' = [snap EXCEPT ![s] = [writer.snap EXCEPT !.offset = Len(file[s])]]
  /\ writer' = [writer EXCEPT !.pc = IF Full(file[s]) THEN "prepare" ELSE "view"]
  /\ UNCHANGED <<left, file, command, viewer, calls, acked, destroyed, torn, raced, unlinked, copies>>

\* Something else was written behind it: the call fails with the sidecar as
\* it was read.  If the file is gone it just fails.
RecordNotAtTail ==
  LET s == writer.seg IN
  /\ writer.pc = "check"
  /\ file[s] # <<>> => file[s][Len(file[s])] # NewLine(writer.read, writer.event)
  /\ snap' = IF file[s] = <<>> THEN snap ELSE [snap EXCEPT ![s] = writer.snap]
  /\ writer' = NoCall
  /\ UNCHANGED <<left, file, command, viewer, calls, acked, destroyed, torn, raced, unlinked, copies>>

\* SegmentJournal.seal: the footer to write is noted in the sidecar.
PrepareSeal ==
  LET s == writer.seg IN
  /\ writer.pc = "prepare"
  /\ Reconcilable(s)
  /\ snap' = [snap EXCEPT ![s] =
       IF Closed(file[s]) THEN Reconciled(s)
       ELSE [Reconciled(s) EXCEPT !.pending = Records(file[s])]]
  /\ writer' = [writer EXCEPT !.pc = "reseal"]
  /\ UNCHANGED <<left, file, command, viewer, calls, acked, destroyed, torn, raced, unlinked, copies>>

\* reseal_segment_from_snapshot reads the sidecar again: the footer is
\* written only if it still waits.
Reseal ==
  LET s == writer.seg IN
  /\ writer.pc = "reseal"
  /\ Reconcilable(s)
  /\ snap' = [snap EXCEPT ![s] = Reconciled(s)]
  /\ writer' = IF Reconciled(s).pending = NoFooter
               THEN [writer EXCEPT !.pc = "viewActive"]
               ELSE [writer EXCEPT !.pc = "footer", !.read = file[s],
                                   !.snap = Reconciled(s)]
  /\ UNCHANGED <<left, file, command, viewer, calls, acked, destroyed, torn, raced, unlinked, copies>>

SealRefused ==
  /\ writer.pc \in {"prepare", "reseal"}
  /\ ~Reconcilable(writer.seg)
  /\ writer' = NoCall
  /\ UNCHANGED <<left, file, snap, command, viewer, calls, acked, destroyed, torn, raced, unlinked, copies>>

WriteFooter ==
  LET s == writer.seg IN
  /\ writer.pc = "footer" /\ Room(s)
  /\ file' = [file EXCEPT ![s] = Append(@, Footer(Records(writer.read)))]
  /\ raced' = RacedBy(s, writer.read)
  /\ writer' = [writer EXCEPT !.pc = "seal"]
  /\ UNCHANGED <<left, snap, command, viewer, calls, acked, destroyed, torn, unlinked, copies>>

SealedSnapshot(s, read) == [read EXCEPT !.offset = Len(file[s]), !.sealed = TRUE,
                                        !.pending = NoFooter]
FooterAtTail(s, read) ==
  file[s] # <<>> /\ file[s][Len(file[s])] = Footer(Records(read))

ConfirmSeal ==
  LET s == writer.seg IN
  /\ writer.pc = "seal"
  /\ FooterAtTail(s, writer.read)
  /\ snap' = [snap EXCEPT ![s] = SealedSnapshot(s, writer.snap)]
  /\ writer' = [writer EXCEPT !.pc = "viewActive"]
  /\ UNCHANGED <<left, file, command, viewer, calls, acked, destroyed, torn, raced, unlinked, copies>>

FooterNotAtTail ==
  /\ writer.pc = "seal" /\ ~FooterAtTail(writer.seg, writer.read)
  /\ writer' = NoCall
  /\ UNCHANGED <<left, file, snap, command, viewer, calls, acked, destroyed, torn, raced, unlinked, copies>>

\* get_limbo_view ends every call: it repairs the sidecar of the segment in
\* use, or of the active one after a seal, and raises if that claims too
\* much.  A capture is acknowledged only after it.  Mutant: it never raises.
Viewed == IF writer.pc = "view" THEN writer.seg ELSE ActiveSegment
ViewNeverRefuses == FALSE
ViewRefuses == Viewed # NoSegment /\ ~Reconcilable(Viewed)

EndCall ==
  /\ writer.pc \in {"view", "viewActive"}
  /\ ~ViewRefuses
  /\ snap' = IF Viewed = NoSegment THEN snap
             ELSE [snap EXCEPT ![Viewed] = Reconciled(Viewed)]
  /\ acked' = IF writer.event = NoEvent THEN acked
              ELSE acked \cup {<<writer.seg, writer.event>>}
  /\ writer' = NoCall
  /\ UNCHANGED <<left, file, command, viewer, calls, destroyed, torn, raced, unlinked, copies>>

EndRefused ==
  /\ writer.pc \in {"view", "viewActive"}
  /\ ViewRefuses
  /\ writer' = NoCall
  /\ UNCHANGED <<left, file, snap, command, viewer, calls, acked, destroyed, torn, raced, unlinked, copies>>

\* Every action of the dashboard begins with the limbo view, which repairs the
\* sidecar of the active segment or, if that claims too much, says nothing.
Limbo ==
  IF ActiveSegment # NoSegment /\ Reconcilable(ActiveSegment)
  THEN [snap EXCEPT ![ActiveSegment] = Reconciled(ActiveSegment)] ELSE snap
OpenInLimbo(s) == s = ActiveSegment /\ Reconcilable(s) /\ ~Closed(file[s])

\* reconcile_sidecar of the dashboard.
ReconcileSidecar(s) ==
  /\ writer.pc = "idle"
  /\ s \in Known \cup Existing /\ Reconcilable(s)
  /\ snap' = [Limbo EXCEPT ![s] = Reconciled(s)]
  /\ UNCHANGED <<left, file, writer, command, viewer, calls, acked, destroyed, torn, raced, unlinked, copies>>

Locked(pc, s) == [NoCall EXCEPT !.pc = pc, !.seg = s]

\* reseal_segment of the dashboard, on any segment whose files are there.
ResealSegment(s) ==
  /\ writer.pc = "idle"
  /\ s \in Existing /\ Reconcilable(s)
  /\ snap' = Limbo
  /\ writer' = Locked("reseal", s)
  /\ UNCHANGED <<left, file, command, viewer, calls, acked, destroyed, torn, raced, unlinked, copies>>

\* _build_rotation_status: a segment is to be sealed when it is full or a
\* footer waits, and may be when its tail is sound.
RotationAllowed(s) ==
  /\ ~Closed(file[s]) /\ Healthy(file[s])
  /\ Full(file[s]) \/ Reconciled(s).pending # NoFooter

\* seal_active_segment of the dashboard.
SealActiveSegment ==
  LET s == ActiveSegment IN
  /\ writer.pc = "idle"
  /\ s # NoSegment /\ Reconcilable(s) /\ RotationAllowed(s)
  /\ snap' = Limbo
  /\ writer' = Locked("prepare", s)
  /\ UNCHANGED <<left, file, command, viewer, calls, acked, destroyed, torn, raced, unlinked, copies>>

(* Retention and review, from the dashboard *)

\* Reviews and retention are for segments that are not in use, as far as the
\* limbo view knows.
Historical(s) == s \in Existing /\ ~OpenInLimbo(s)

\* revalidate_footer, mark_operational_review: the sidecar is loaded and saved
\* with the note, and again with the id of the audit log.
MarkSegment(s) ==
  /\ writer.pc = "idle" /\ Historical(s)
  /\ snap' = Limbo
  /\ writer' = [Locked("mark", s) EXCEPT !.touches = 1]
  /\ Spend("unlocked")
  /\ UNCHANGED <<file, command, viewer, calls, acked, destroyed, torn, raced, unlinked, copies>>

\* export_segment_bundle_to_usb: the copy has the name of the segment and
\* replaces one of the same name.
CopyToUsb(s) ==
  /\ usb' = [usb EXCEPT ![s] = Records(file[s])]
  /\ copied' = copied \cup {s}
  /\ late' = late \ RecordSet(file[s])
  /\ overwritten' = (overwritten \cup {usb[s][i] : i \in DOMAIN usb[s]}) \ RecordSet(file[s])
  /\ UNCHANGED byHand

ExportSegment(s) ==
  /\ writer.pc = "idle" /\ Historical(s) /\ s \in Known
  /\ snap' = Limbo
  /\ CopyToUsb(s)
  /\ writer' = [Locked("mark", s) EXCEPT !.read = file[s], !.touches = 2]
  /\ Spend("unlocked")
  /\ UNCHANGED <<file, command, viewer, calls, acked, destroyed, torn, raced, unlinked>>

\* _append_snapshot_receipt, load_snapshot_payload: a sidecar that is gone is
\* loaded as an empty one.
Marked(s) == [snap[s] EXCEPT !.present = TRUE]
Noted(s, read) == [Marked(s) EXCEPT !.receipts = @ \cup {Records(read)}]

ToStore == IF writer.touches = 2 THEN Noted(writer.seg, writer.read) ELSE Marked(writer.seg)

LoadSidecar ==
  /\ writer.pc = "mark"
  /\ writer' = [writer EXCEPT !.pc = "store", !.snap = ToStore]
  /\ UNCHANGED <<left, file, snap, command, viewer, calls, acked, destroyed, torn, raced, unlinked, copies>>

\* A sidecar that somebody else has changed meanwhile is put back.
StoreSidecar ==
  LET s == writer.seg IN
  /\ writer.pc = "store"
  /\ snap' = [snap EXCEPT ![s] = writer.snap]
  /\ raced' = IF ToStore = writer.snap THEN raced ELSE raced \cup {s}
  /\ writer' = IF writer.touches = 0 THEN NoCall
               ELSE [Locked("mark", s) EXCEPT !.touches = writer.touches - 1]
  /\ UNCHANGED <<left, file, command, viewer, calls, acked, destroyed, torn, unlinked, copies>>

\* destroy_unreplayed_segment_after_usb_export: any receipt in the sidecar
\* will do, and nothing is compared with the copy.  The purge receipt that is
\* put into the sidecar just before both files go, here and in purge_synced, is
\* left out: nothing reads it, and a sidecar put back from an older read is
\* what CommandStore models.
\* Mutant: no receipt is needed.
DestroyableAny(s) == s \in Known \cap Existing
Destroyable(s) == s \in Known \cap Existing /\ snap[s].receipts # {}

\* Whoever has read what is removed goes on with it.
RacedByRemoval(s, other) ==
  IF other.seg = s /\ other.pc # "unlink" THEN raced \cup {s} ELSE raced

RemoveFile(s, other) ==
  /\ file' = [file EXCEPT ![s] = <<>>]
  /\ destroyed' = destroyed \cup RecordSet(file[s])
  /\ unlinked' = unlinked \cup {s}
  /\ raced' = RacedByRemoval(s, other)
  /\ copied' = copied \ {s}
  /\ UNCHANGED <<usb, late, overwritten>>
ByHand(s) == byHand \cup ({s} \X RecordSet(file[s]))

DestroySegment(s) ==
  /\ writer.pc = "idle" /\ Historical(s) /\ Destroyable(s)
  /\ snap' = Limbo
  /\ RemoveFile(s, command) /\ byHand' = ByHand(s)
  /\ writer' = Locked("unlink", s)
  /\ Spend("unlocked")
  /\ UNCHANGED <<command, viewer, calls, acked, torn>>

DestroySidecar ==
  LET s == writer.seg IN
  /\ writer.pc = "unlink"
  /\ snap' = [snap EXCEPT ![s] = NoSnapshot]
  /\ unlinked' = unlinked \ {s}
  /\ raced' = RacedByRemoval(s, command)
  /\ writer' = NoCall
  /\ UNCHANGED <<left, file, command, viewer, calls, acked, destroyed, torn, copies>>

\* The write is cut short: the disk is full, the process dies, the power
\* fails.  The lock goes with the process.
CutShort ==
  LET s == writer.seg IN
  /\ writer.pc \in {"write", "footer"} /\ Room(s)
  /\ file' = [file EXCEPT ![s] = Append(@, Torn)]
  /\ torn' = torn \cup {s}
  /\ raced' = RacedBy(s, writer.read)
  /\ writer' = NoCall
  /\ Spend("faults")
  /\ UNCHANGED <<snap, command, viewer, calls, acked, destroyed, unlinked, copies>>

Crash ==
  /\ writer.pc # "idle"
  /\ writer' = NoCall
  /\ Spend("faults")
  /\ UNCHANGED <<file, snap, command, viewer, calls, acked, destroyed, torn, raced, unlinked, copies>>

----------------------------------------------------------------------------
(* Without the lock *)

\* The limbo view that the dashboard polls, ops_preflight, offline_limbo and
\* offline_journal --reconcile read a segment and its sidecar, and then
\* replace the sidecar.
ReadSidecar(s) ==
  /\ viewer.pc = "idle"
  /\ s \in Known /\ Reconcilable(s)
  /\ viewer' = [pc |-> "repair", seg |-> s, file |-> file[s], snap |-> snap[s]]
  /\ Spend("unlocked")
  /\ UNCHANGED <<file, snap, writer, command, calls, acked, destroyed, torn, raced, unlinked, copies>>

RepairSidecar ==
  LET s == viewer.seg IN
  /\ viewer.pc = "repair"
  /\ snap' = [snap EXCEPT ![s] = Repaired(viewer.file, viewer.snap)]
  /\ raced' = IF file[s] = viewer.file /\ snap[s] = viewer.snap
              THEN raced ELSE raced \cup {s}
  /\ viewer' = NoViewer
  /\ UNCHANGED <<left, file, writer, command, calls, acked, destroyed, torn, unlinked, copies>>

ViewerDies ==
  /\ viewer.pc # "idle"
  /\ viewer' = NoViewer
  /\ Spend("faults")
  /\ UNCHANGED <<file, snap, writer, command, calls, acked, destroyed, torn, raced, unlinked, copies>>

\* offline_journal --reseal.
CommandReseal(s) ==
  /\ command.pc = "idle"
  /\ s \in Known /\ Reconcilable(s)
  /\ Reconciled(s).pending # NoFooter
  /\ snap' = [snap EXCEPT ![s] = Reconciled(s)]
  /\ command' = [pc |-> "footer", seg |-> s, read |-> file[s], snap |-> Reconciled(s)]
  /\ Spend("unlocked")
  /\ UNCHANGED <<file, writer, viewer, calls, acked, destroyed, torn, raced, unlinked, copies>>

CommandFooter ==
  LET s == command.seg IN
  /\ command.pc = "footer" /\ Room(s)
  /\ file' = [file EXCEPT ![s] = Append(@, Footer(Records(command.read)))]
  /\ raced' = RacedBy(s, command.read)
  /\ command' = [command EXCEPT !.pc = "seal"]
  /\ UNCHANGED <<left, snap, writer, viewer, calls, acked, destroyed, torn, unlinked, copies>>

CommandCutShort ==
  LET s == command.seg IN
  /\ command.pc = "footer" /\ Room(s)
  /\ file' = [file EXCEPT ![s] = Append(@, Torn)]
  /\ torn' = torn \cup {s}
  /\ raced' = RacedBy(s, command.read)
  /\ command' = NoCommand
  /\ Spend("faults")
  /\ UNCHANGED <<snap, writer, viewer, calls, acked, destroyed, unlinked, copies>>

CommandSealed ==
  LET s == command.seg IN
  /\ command.pc = "seal"
  /\ FooterAtTail(s, command.read)
  /\ snap' = [snap EXCEPT ![s] = SealedSnapshot(s, command.snap)]
  /\ command' = NoCommand
  /\ UNCHANGED <<left, file, writer, viewer, calls, acked, destroyed, torn, raced, unlinked, copies>>

\* offline_retention --action purge_synced: only a sealed segment, with the
\* receipt of the server; the file goes first, then the sidecar.  Whoever
\* holds the lock may still act on the segment after the check.  Mutant: any
\* segment will do.
PurgeableAny(s) == s \in Known \cap Existing
Purgeable(s) ==
  /\ s \in Known \cap Existing
  /\ snap[s].sealed \/ Closed(file[s])

CommandPurge(s) ==
  /\ command.pc = "idle" /\ Purgeable(s)
  /\ command' = [NoCommand EXCEPT !.pc = "purge", !.seg = s]
  /\ Spend("unlocked")
  /\ UNCHANGED <<file, snap, writer, viewer, calls, acked, destroyed, torn, raced, unlinked, copies>>

PurgeFile ==
  LET s == command.seg IN
  /\ command.pc = "purge" /\ s \in Existing
  /\ RemoveFile(s, writer) /\ UNCHANGED byHand
  /\ command' = [command EXCEPT !.pc = "unlink"]
  /\ UNCHANGED <<left, snap, writer, viewer, calls, acked, torn>>

PurgeSidecar ==
  LET s == command.seg IN
  /\ command.pc = "unlink"
  /\ snap' = [snap EXCEPT ![s] = NoSnapshot]
  /\ unlinked' = unlinked \ {s}
  /\ raced' = RacedByRemoval(s, writer)
  /\ command' = NoCommand
  /\ UNCHANGED <<left, file, writer, viewer, calls, acked, destroyed, torn, copies>>

\* offline_retention --action export_usb, on any segment.
CommandExport(s) ==
  /\ command.pc = "idle" /\ s \in Known \cap Existing
  /\ CopyToUsb(s)
  /\ command' = [NoCommand EXCEPT !.pc = "note", !.seg = s, !.read = file[s]]
  /\ Spend("unlocked")
  /\ UNCHANGED <<file, snap, writer, viewer, calls, acked, destroyed, torn, raced, unlinked>>

CommandLoad ==
  /\ command.pc = "note"
  /\ command' = [command EXCEPT !.pc = "store",
                                !.snap = Noted(command.seg, command.read)]
  /\ UNCHANGED <<left, file, snap, writer, viewer, calls, acked, destroyed, torn, raced, unlinked, copies>>

CommandStore ==
  LET s == command.seg IN
  /\ command.pc = "store"
  /\ snap' = [snap EXCEPT ![s] = command.snap]
  /\ raced' = IF Noted(s, command.read) = command.snap THEN raced
            ELSE raced \cup {s}
  /\ command' = NoCommand
  /\ UNCHANGED <<left, file, writer, viewer, calls, acked, destroyed, torn, unlinked, copies>>

\* offline_retention --action purge_after_usb, on any segment: captures may
\* still come between the check and the end of the file.
CommandDestroy(s) ==
  /\ command.pc = "idle" /\ Destroyable(s)
  /\ command' = [NoCommand EXCEPT !.pc = "destroy", !.seg = s]
  /\ Spend("unlocked")
  /\ UNCHANGED <<file, snap, writer, viewer, calls, acked, destroyed, torn, raced, unlinked, copies>>

CommandDestroyFile ==
  LET s == command.seg IN
  /\ command.pc = "destroy" /\ s \in Existing
  /\ RemoveFile(s, writer) /\ byHand' = ByHand(s)
  /\ command' = [command EXCEPT !.pc = "unlink"]
  /\ UNCHANGED <<left, snap, writer, viewer, calls, acked, torn>>

\* The command dies, or fails because the tail is not its footer or the file
\* is gone.
CommandDies ==
  /\ command.pc # "idle"
  /\ command' = NoCommand
  /\ Spend("faults")
  /\ UNCHANGED <<file, snap, writer, viewer, calls, acked, destroyed, torn, raced, unlinked, copies>>

----------------------------------------------------------------------------
LockedStep ==
  \/ \E e \in Event : OpenJournal(e) \/ OpenRefused(e)
  \/ WriteRecord \/ ConfirmRecord \/ RecordNotAtTail
  \/ PrepareSeal \/ Reseal \/ SealRefused
  \/ WriteFooter \/ ConfirmSeal \/ FooterNotAtTail
  \/ EndCall \/ EndRefused
  \/ \E s \in Segment :
       \/ ReconcileSidecar(s) \/ ResealSegment(s) \/ MarkSegment(s)
       \/ ExportSegment(s) \/ DestroySegment(s)
  \/ LoadSidecar \/ StoreSidecar \/ DestroySidecar
  \/ SealActiveSegment
  \/ CutShort \/ Crash

UnlockedStep ==
  \/ \E s \in Segment :
       \/ ReadSidecar(s) \/ CommandReseal(s) \/ CommandPurge(s)
       \/ CommandExport(s) \/ CommandDestroy(s)
  \/ CommandLoad \/ CommandStore \/ CommandDestroyFile \/ PurgeFile
  \/ RepairSidecar \/ ViewerDies
  \/ CommandFooter \/ CommandCutShort \/ CommandSealed
  \/ PurgeSidecar \/ CommandDies

JournalNext == LockedStep \/ UnlockedStep

JournalSpec == JournalInit /\ [][JournalNext]_journalVars

----------------------------------------------------------------------------
(* Properties *)

\* A capture that was acknowledged can be read back until its segment is
\* purged, whatever crashes, torn lines and purges come between; only a
\* write that acted on an out-of-date read can lose it
\* (append_offline_journal_envelope, recover_segment_prefix).
AckedReadBack ==
  \A a \in acked : a[2] \in RecordSet(file[a[1]]) \cup destroyed \/ a[1] \in raced

\* A sidecar claims more than its journal can give back, which stops every
\* further append to it, only after a line was cut short, after a race, or
\* after a purge that removed the file and not yet the sidecar
\* (reconcile_snapshot_with_segment).
AheadOnlyByDamage ==
  \A s \in Segment : ~Reconcilable(s) => s \in torn \cup raced \cup unlinked

\* Segments are filled one after the other: while a later one has lines, an
\* earlier one is closed, unless lines of either or of one between them were
\* cut short or raced (_discover_active_segment_id, _next_segment_id).
FilledInOrder ==
  \A s, t \in Existing :
    s < t /\ (s..t) \cap (torn \cup raced) = {} => Closed(file[s])

\* What a manager destroyed is on the USB disk, but for what was written after
\* the copy was taken and for copies that one of the same name replaced; a
\* receipt is no stronger than that (export_segment_bundle_to_usb,
\* destroy_unreplayed_segment_after_usb_export).
DestroyedIsCopied ==
  \A d \in byHand :
    \/ \E s \in Segment : \E i \in DOMAIN usb[s] : usb[s][i] = d[2]
    \/ d[2] \in late \cup overwritten
    \/ d[1] \in raced

\* What can be read back behaves as a log: it grows by one record while the
\* segment is open and sound, never shrinks, and goes as a whole (EventLog).
Log == INSTANCE EventLog WITH
  Event <- Event, Segment <- Segment,
  log <- [s \in Segment |-> Records(file[s])],
  closed <- {s \in Segment : Closed(file[s])},
  damaged <- {s \in Segment : ~Healthy(file[s])},
  copied <- copied
ImplementsLog == Log!Spec

\* As the guide has it, the valid prefix of the active segment can be
\* recovered and written on after a line was cut short (append_event).
TornTailRecovers ==
  raced = {} /\ unlinked = {} /\ writer.pc = "idle" /\ ActiveSegment # NoSegment
    => Reconcilable(ActiveSegment)
=============================================================================
