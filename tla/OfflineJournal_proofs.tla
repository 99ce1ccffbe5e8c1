----------------------- MODULE OfflineJournal_proofs -----------------------
(***************************************************************************)
(* Proofs about OfflineJournal.  First what can be read back of a file     *)
(* when a line is put behind it; then, segment by segment, what a step may *)
(* do to a file and its sidecar as long as nobody acts on an out-of-date   *)
(* read; then what the three actors know of the segment they are at; and   *)
(* from these the invariants of the journal and the refinement of EventLog.*)
(***************************************************************************)
EXTENDS OfflineJournal, FiniteSetTheorems, WellFoundedInduction, TLAPS

----------------------------------------------------------------------------
(* Least and largest *)

LEMMA LeastNat ==
  ASSUME NEW S \in SUBSET Nat, S # {}
  PROVE  \E i \in S : \A j \in S : i <= j
<1>1. PICK i \in S : \A j \in S : ~ (<<j, i>> \in OpToRel(<, Nat))
  BY NatLessThanWellFounded, WFMin
<1>2. ASSUME NEW j \in S PROVE i <= j
  <2>1. ~ (j < i)
    BY <1>1 DEF OpToRel
  <2> QED BY <2>1
<1> QED BY <1>2

LEMMA LargestSegment ==
  ASSUME NEW S \in SUBSET Segment, S # {}
  PROVE  Largest(S) \in S /\ \A t \in S : t <= Largest(S)
<1> DEFINE D == {MaxSegments - s : s \in S}
<1>1. MaxSegments \in Nat /\ \A s \in S : s \in Nat /\ MaxSegments - s \in Nat
  BY JournalAssumption DEF Segment
<1>2. PICK d \in D : \A j \in D : d <= j
  BY <1>1, LeastNat
<1>3. PICK s \in S : d = MaxSegments - s
  OBVIOUS
<1>4. ASSUME NEW t \in S PROVE t <= s
  <2>1. MaxSegments - s <= MaxSegments - t
    BY <1>2, <1>3
  <2> QED BY <1>1, <2>1
<1> QED BY <1>3, <1>4 DEF Largest

----------------------------------------------------------------------------
(* Reading back *)

LEMMA LineKinds ==
  ASSUME NEW c \in Seq(Event)
  PROVE  EventLine(c) \in Line /\ Footer(c) \in Line /\ Torn \in Line
BY DEF EventLine, Footer, Torn, Line

\* ValidLength is where the first line that is not valid stops the reader.
LEMMA ValidLengthIs ==
  ASSUME NEW f \in Seq(Line)
  PROVE  /\ ValidLength(f) \in 0..Len(f)
         /\ \A i \in 1..ValidLength(f) : Valid(f, i)
         /\ ValidLength(f) < Len(f) => ~Valid(f, ValidLength(f) + 1)
<1> DEFINE I == {i \in DOMAIN f : ~Valid(f, i)}
           least == CHOOSE i \in I : \A j \in I : i <= j
<1>1. Len(f) \in Nat /\ DOMAIN f = 1..Len(f)
  OBVIOUS
<1> HIDE DEF Line
<1>2. CASE I = {}
  <2>1. ValidLength(f) = Len(f)
    BY <1>2 DEF ValidLength
  <2>2. \A i \in 1..Len(f) : Valid(f, i)
    BY <1>1, <1>2
  <2> QED BY <1>1, <2>1, <2>2
<1>3. CASE I # {}
  <2>1. I \in SUBSET Nat
    BY <1>1
  <2>2. least \in I /\ \A j \in I : least <= j
    BY <1>3, <2>1, LeastNat
  <2>3. ValidLength(f) = least - 1
    BY <1>3 DEF ValidLength
  <2>4. least \in 1..Len(f) /\ ~Valid(f, least)
    BY <1>1, <2>2
  <2> HIDE DEF least
  <2>5. ASSUME NEW i \in 1..(least - 1) PROVE Valid(f, i)
    <3>1. i \in DOMAIN f /\ ~(least <= i)
      BY <1>1, <2>4
    <3> QED BY <2>2, <3>1
  <2> QED BY <1>1, <2>3, <2>4, <2>5
<1> QED BY <1>2, <1>3

LEMMA ValidLengthUnique ==
  ASSUME NEW f \in Seq(Line), NEW n \in 0..Len(f), \A i \in 1..n : Valid(f, i),
         n < Len(f) => ~Valid(f, n + 1)
  PROVE  ValidLength(f) = n
<1> DEFINE m == ValidLength(f)
<1>1. Len(f) \in Nat
  OBVIOUS
<1>2. m \in 0..Len(f) /\ (\A i \in 1..m : Valid(f, i)) /\ (m < Len(f) => ~Valid(f, m + 1))
  BY ValidLengthIs
<1> HIDE DEF m
<1>3. ~(m < n)
  <2> SUFFICES ASSUME m < n PROVE FALSE
    OBVIOUS
  <2>1. m + 1 \in 1..n /\ m < Len(f)
    BY <1>1, <1>2
  <2> QED BY <1>2, <2>1
<1>4. ~(n < m)
  <2> SUFFICES ASSUME n < m PROVE FALSE
    OBVIOUS
  <2>1. n + 1 \in 1..m /\ n < Len(f)
    BY <1>1, <1>2
  <2> QED BY <1>2, <2>1
<1> QED BY <1>1, <1>2, <1>3, <1>4 DEF m

LEMMA RecordsType ==
  ASSUME NEW f \in Seq(Line)
  PROVE  Records(f) \in Seq(Event) /\ Closed(f) \in BOOLEAN /\ ValidLength(f) \in Nat
<1>1. ValidLength(f) \in 0..Len(f) /\ Len(f) \in Nat
  BY ValidLengthIs
<1>2. ASSUME NEW i \in 1..Len(f) PROVE f[i].chain \in Seq(Event)
  <2>1. f[i] \in Line
    OBVIOUS
  <2> QED BY <2>1 DEF Line
<1>3. <<>> \in Seq(Event)
  OBVIOUS
<1>4. Records(f) \in Seq(Event)
  BY <1>1, <1>2, <1>3 DEF Records
<1> QED BY <1>1, <1>4 DEF Closed

\* A line at the end does not change what the lines before it are worth.
LEMMA AppendValid ==
  ASSUME NEW f \in Seq(Line), NEW x \in Line
  PROVE  /\ Append(f, x) \in Seq(Line) /\ Len(Append(f, x)) = Len(f) + 1
         /\ \A i \in 1..Len(f) : Valid(Append(f, x), i) <=> Valid(f, i)
         /\ Append(f, x)[Len(f) + 1] = x
<1> DEFINE g == Append(f, x)
<1>1. /\ g \in Seq(Line) /\ Len(g) = Len(f) + 1 /\ g[Len(f) + 1] = x
      /\ Len(f) \in Nat /\ \A i \in 1..Len(f) : g[i] = f[i]
  OBVIOUS
<1> HIDE DEF g
<1>2. ASSUME NEW i \in 1..Len(f) PROVE Valid(g, i) <=> Valid(f, i)
  <2>1. g[i] = f[i] /\ (i # 1 => g[i - 1] = f[i - 1])
    BY <1>1
  <2> QED BY <2>1 DEF Valid
<1> QED BY <1>1, <1>2 DEF g

\* Behind a line that cannot be read, nothing can.
LEMMA AppendBehind ==
  ASSUME NEW f \in Seq(Line), NEW x \in Line,
         ~Healthy(f) \/ ~Valid(Append(f, x), Len(f) + 1)
  PROVE  /\ ~Healthy(Append(f, x))
         /\ ValidLength(Append(f, x)) = ValidLength(f)
         /\ Records(Append(f, x)) = Records(f) /\ (Closed(Append(f, x)) <=> Closed(f))
<1> DEFINE g == Append(f, x)
           n == ValidLength(f)
<1>1. /\ g \in Seq(Line) /\ Len(g) = Len(f) + 1 /\ Len(f) \in Nat
      /\ \A i \in 1..Len(f) : g[i] = f[i]
      /\ \A i \in 1..Len(f) : Valid(g, i) <=> Valid(f, i)
  BY AppendValid
<1>2. n \in 0..Len(f) /\ (\A i \in 1..n : Valid(f, i)) /\ (n < Len(f) => ~Valid(f, n + 1))
  BY ValidLengthIs
<1>3. ~Healthy(f) \/ ~Valid(g, Len(f) + 1)
  OBVIOUS
<1>4. Healthy(f) <=> n = Len(f)
  BY DEF Healthy
<1> HIDE DEF g, n
<1>5. \A i \in 1..n : Valid(g, i)
  BY <1>1, <1>2
<1>6. ~Valid(g, n + 1)
  <2>1. CASE n = Len(f)
    BY <1>3, <1>4, <2>1
  <2>2. CASE n < Len(f)
    BY <1>1, <1>2, <2>2
  <2> QED BY <1>2, <2>1, <2>2
<1>7. n \in 0..Len(g) /\ n < Len(g)
  BY <1>1, <1>2
<1>8. ValidLength(g) = n
  BY <1>1, <1>5, <1>6, <1>7, ValidLengthUnique
<1>9. ~Healthy(g)
  BY <1>7, <1>8 DEF Healthy
<1>10. n # 0 => g[n] = f[n]
  BY <1>1, <1>2
<1>11. Records(g) = Records(f) /\ (Closed(g) <=> Closed(f))
  BY <1>2, <1>8, <1>10 DEF Records, Closed, n
<1> QED BY <1>8, <1>9, <1>11 DEF g, n

LEMMA AppendBefore ==
  ASSUME NEW f \in Seq(Line), NEW x \in Line,
         Healthy(f), Valid(Append(f, x), Len(f) + 1)
  PROVE  /\ Healthy(Append(f, x))
         /\ ValidLength(Append(f, x)) = Len(f) + 1
         /\ Records(Append(f, x)) = x.chain
         /\ Closed(Append(f, x)) <=> x.kind = "footer"
<1> DEFINE g == Append(f, x)
<1>1. /\ g \in Seq(Line) /\ Len(g) = Len(f) + 1 /\ Len(f) \in Nat
      /\ \A i \in 1..Len(f) : Valid(g, i) <=> Valid(f, i)
      /\ g[Len(f) + 1] = x
  BY AppendValid
<1>2. (\A i \in 1..Len(f) : Valid(f, i)) /\ Valid(g, Len(f) + 1)
  BY ValidLengthIs DEF Healthy
<1> HIDE DEF g
<1>3. ValidLength(g) = Len(f) + 1
  <2>1. Len(f) + 1 \in 0..Len(g) /\ ~(Len(f) + 1 < Len(g))
    BY <1>1
  <2>2. \A i \in 1..(Len(f) + 1) : Valid(g, i)
    BY <1>1, <1>2
  <2> QED BY <1>1, <2>1, <2>2, ValidLengthUnique
<1> QED BY <1>1, <1>3 DEF Healthy, Records, Closed, g

\* What the last line of a sound file binds the next one to.
LEMMA NextValid ==
  ASSUME NEW f \in Seq(Line), NEW x \in Line, Healthy(f)
  PROVE  Valid(Append(f, x), Len(f) + 1) <=>
           /\ ~Closed(f)
           /\ \/ /\ x.kind = "event" /\ x.chain # <<>>
                 /\ SubSeq(x.chain, 1, Len(x.chain) - 1) = Records(f)
              \/ x.kind = "footer" /\ x.chain = Records(f)
<1> DEFINE g == Append(f, x)
           n == Len(f)
<1>1. n \in Nat /\ g[n + 1] = x /\ \A i \in 1..n : g[i] = f[i]
  BY AppendValid
<1>2. ValidLength(f) = n
  BY DEF Healthy
<1>3. n > 0 => f[n].kind \in {"event", "footer"}
  <2> SUFFICES ASSUME n > 0 PROVE f[n].kind \in {"event", "footer"}
    OBVIOUS
  <2>1. Valid(f, n)
    BY <1>1, <1>2, ValidLengthIs
  <2> QED BY <2>1 DEF Valid
<1>4. Closed(f) <=> n > 0 /\ f[n].kind = "footer"
  BY <1>2 DEF Closed
<1>5. Records(f) = IF n = 0 THEN <<>> ELSE f[n].chain
  BY <1>2 DEF Records
<1> HIDE DEF n, g
<1>6. (n + 1) - 1 = n /\ (n + 1 = 1 <=> n = 0) /\ (n + 1 > 1 <=> n > 0)
  BY <1>1
<1>7. n > 0 => g[n] = f[n]
  BY <1>1
<1>8. Valid(g, n + 1) <=>
        /\ n > 0 => f[n].kind = "event"
        /\ \/ /\ x.kind = "event" /\ x.chain # <<>>
              /\ SubSeq(x.chain, 1, Len(x.chain) - 1) = IF n = 0 THEN <<>> ELSE f[n].chain
           \/ x.kind = "footer" /\ x.chain = IF n = 0 THEN <<>> ELSE f[n].chain
  <2>1. CASE n = 0
    BY <1>1, <1>6, <2>1 DEF Valid
  <2>2. CASE n > 0
    BY <1>1, <1>6, <1>7, <2>2 DEF Valid
  <2> QED BY <1>1, <2>1, <2>2
<1>9. ~Closed(f) <=> (n > 0 => f[n].kind = "event")
  BY <1>3, <1>4
<1> QED BY <1>5, <1>8, <1>9 DEF g, n

\* What a line at the end changes: nothing that was read before is lost.
Behind(f, g) ==
  /\ ~Healthy(g) /\ ValidLength(g) = ValidLength(f)
  /\ Records(g) = Records(f) /\ (Closed(g) <=> Closed(f))
Grows(f, g) ==
  /\ ValidLength(f) <= ValidLength(g)
  /\ f # <<>> => g # <<>>
  /\ ~Healthy(f) => ~Healthy(g) /\ ValidLength(g) = ValidLength(f)
  /\ Closed(f) => Closed(g)
  /\ RecordSet(f) \subseteq RecordSet(g)

IsLonger(g, f, x) == g = Append(f, x)

LEMMA GrowsSame == ASSUME NEW f \in Seq(Line) PROVE Grows(f, f)
<1>1. ValidLength(f) \in Nat
  BY RecordsType
<1>2. ValidLength(f) <= ValidLength(f)
  BY <1>1
<1> QED BY <1>2 DEF Grows

LEMMA AppendNotEmpty ==
  ASSUME NEW f \in Seq(Line), NEW x \in Line PROVE Append(f, x) # <<>>
<1>1. Len(Append(f, x)) = Len(f) + 1 /\ Len(f) \in Nat
  BY AppendValid
<1> QED BY <1>1

LEMMA BehindGrows ==
  ASSUME NEW f \in Seq(Line), NEW x \in Line, Behind(f, Append(f, x))
  PROVE  Grows(f, Append(f, x))
<1>1. ValidLength(f) <= ValidLength(f)
  BY RecordsType
<1>2. RecordSet(Append(f, x)) = RecordSet(f)
  BY DEF Behind, RecordSet
<1> QED BY <1>1, <1>2, AppendNotEmpty DEF Behind, Grows

\* A new record is read back, or no more is than before.
LEMMA EventAppended ==
  ASSUME NEW f \in Seq(Line), NEW r \in Seq(Event), NEW e \in Event,
         NEW g, IsLonger(g, f, EventLine(Append(r, e)))
  PROVE  /\ g \in Seq(Line) /\ g # <<>> /\ Grows(f, g)
         /\ \/ Behind(f, g)
            \/ /\ Healthy(f) /\ ~Closed(f) /\ Healthy(g) /\ ~Closed(g)
               /\ Records(g) = Append(Records(f), e)
         /\ Healthy(f) /\ ~Closed(f) /\ r = Records(f) => Healthy(g) /\ e \in RecordSet(g)
<1> DEFINE x == EventLine(Append(r, e))
<1>1. /\ x \in Line /\ x.kind = "event" /\ x.chain = Append(r, e) /\ x.chain # <<>>
      /\ SubSeq(x.chain, 1, Len(x.chain) - 1) = r
  <2>1. /\ Append(r, e) \in Seq(Event) /\ Append(r, e) # <<>>
        /\ SubSeq(Append(r, e), 1, Len(Append(r, e)) - 1) = r
    OBVIOUS
  <2> QED BY <2>1, LineKinds DEF EventLine
<1> HIDE DEF x
<1>2. g = Append(f, x)
  BY DEF x, IsLonger
<1>3. g \in Seq(Line) /\ g # <<>>
  BY <1>1, <1>2, AppendValid, AppendNotEmpty
<1>4. Records(f) \in Seq(Event)
  BY RecordsType
<1>5. CASE Healthy(f) /\ Valid(g, Len(f) + 1)
  <2>1. ~Closed(f) /\ r = Records(f)
    BY <1>1, <1>2, <1>5, NextValid
  <2>2. /\ Healthy(g) /\ ~Closed(g) /\ ValidLength(g) = Len(f) + 1
        /\ Records(g) = Append(Records(f), e)
    BY <1>1, <1>2, <1>5, <2>1, AppendBefore
  <2>3. /\ Len(Records(g)) = Len(Records(f)) + 1 /\ Records(g)[Len(Records(g))] = e
        /\ Records(g) \in Seq(Event) /\ Len(Records(f)) \in Nat
        /\ \A i \in 1..Len(Records(f)) : Records(g)[i] = Records(f)[i]
    BY <1>4, <2>2
  <2>4. RecordSet(f) \subseteq RecordSet(g) /\ e \in RecordSet(g)
    <3>1. DOMAIN Records(f) = 1..Len(Records(f)) /\ DOMAIN Records(g) = 1..(Len(Records(f)) + 1)
      BY <1>4, <2>3
    <3>2. ASSUME NEW i \in DOMAIN Records(f)
          PROVE  i \in DOMAIN Records(g) /\ Records(g)[i] = Records(f)[i]
      BY <2>3, <3>1
    <3>3. Len(Records(g)) \in DOMAIN Records(g)
      BY <2>3, <3>1
    <3> QED BY <2>3, <3>2, <3>3 DEF RecordSet
  <2>5. ValidLength(f) <= ValidLength(g)
    <3>1. ValidLength(f) \in 0..Len(f) /\ Len(f) \in Nat
      BY ValidLengthIs
    <3> QED BY <2>2, <3>1
  <2>6. Grows(f, g)
    BY <1>3, <1>5, <2>1, <2>4, <2>5 DEF Grows
  <2> QED BY <1>3, <1>5, <2>1, <2>2, <2>4, <2>6
<1>6. CASE ~(Healthy(f) /\ Valid(g, Len(f) + 1))
  <2>1. Behind(f, g)
    BY <1>1, <1>2, <1>6, AppendBehind DEF Behind
  <2>2. ~(Healthy(f) /\ ~Closed(f) /\ r = Records(f))
    BY <1>1, <1>2, <1>6, NextValid
  <2> QED BY <1>1, <1>2, <1>3, <2>1, <2>2, BehindGrows
<1> QED BY <1>5, <1>6

\* A footer closes a sound file whose records it counts.
LEMMA FooterAppended ==
  ASSUME NEW f \in Seq(Line), NEW r \in Seq(Event), NEW g, IsLonger(g, f, Footer(r))
  PROVE  /\ g \in Seq(Line) /\ g # <<>> /\ Grows(f, g) /\ Records(g) = Records(f)
         /\ \/ Behind(f, g)
            \/ Healthy(f) /\ ~Closed(f) /\ Healthy(g) /\ Closed(g)
         /\ Healthy(f) /\ ~Closed(f) /\ r = Records(f) => Healthy(g) /\ Closed(g)
<1> DEFINE x == Footer(r)
<1>1. x \in Line /\ x.kind = "footer" /\ x.chain = r
  BY LineKinds DEF Footer
<1> HIDE DEF x
<1>2. g = Append(f, x)
  BY DEF x, IsLonger
<1>3. g \in Seq(Line) /\ g # <<>>
  BY <1>1, <1>2, AppendValid, AppendNotEmpty
<1>5. CASE Healthy(f) /\ Valid(g, Len(f) + 1)
  <2>1. ~Closed(f) /\ r = Records(f)
    BY <1>1, <1>2, <1>5, NextValid
  <2>2. Healthy(g) /\ Closed(g) /\ ValidLength(g) = Len(f) + 1 /\ Records(g) = Records(f)
    BY <1>1, <1>2, <1>5, <2>1, AppendBefore
  <2>3. ValidLength(f) <= ValidLength(g)
    <3>1. ValidLength(f) \in 0..Len(f) /\ Len(f) \in Nat
      BY ValidLengthIs
    <3> QED BY <2>2, <3>1
  <2>4. RecordSet(g) = RecordSet(f)
    BY <2>2 DEF RecordSet
  <2>5. Grows(f, g)
    BY <1>3, <1>5, <2>1, <2>3, <2>4 DEF Grows
  <2> QED BY <1>3, <1>5, <2>1, <2>2, <2>5
<1>6. CASE ~(Healthy(f) /\ Valid(g, Len(f) + 1))
  <2>1. Behind(f, g)
    BY <1>1, <1>2, <1>6, AppendBehind DEF Behind
  <2>2. ~(Healthy(f) /\ ~Closed(f) /\ r = Records(f))
    BY <1>1, <1>2, <1>6, NextValid
  <2>3. Records(g) = Records(f)
    BY <2>1 DEF Behind
  <2> QED BY <1>1, <1>2, <1>3, <2>1, <2>2, <2>3, BehindGrows
<1> QED BY <1>5, <1>6

LEMMA TornAppended ==
  ASSUME NEW f \in Seq(Line), NEW g, IsLonger(g, f, Torn)
  PROVE  g \in Seq(Line) /\ g # <<>> /\ Grows(f, g) /\ Behind(f, g)
<1>0. g = Append(f, Torn)
  BY DEF IsLonger
<1>1. Torn \in Line /\ Torn.kind = "torn"
  BY DEF Torn, Line
<1>2. ~Healthy(f) \/ ~Valid(g, Len(f) + 1)
  BY <1>0, <1>1, NextValid
<1>3. Behind(f, g)
  BY <1>0, <1>1, <1>2, AppendBehind DEF Behind
<1> QED BY <1>0, <1>1, <1>3, AppendValid, AppendNotEmpty, BehindGrows

\* The last line of a sound file says whether it is closed.
LEMMA TailSays ==
  ASSUME NEW f \in Seq(Line), f # <<>>, Healthy(f)
  PROVE  /\ Closed(f) <=> f[Len(f)].kind = "footer"
         /\ ValidLength(f) = Len(f) /\ Len(f) > 0
         /\ ~Closed(f) => Records(f) # <<>>
<1>1. Len(f) \in Nat \ {0} /\ ValidLength(f) = Len(f)
  BY DEF Healthy
<1>2. Valid(f, Len(f))
  BY <1>1, ValidLengthIs
<1> QED BY <1>1, <1>2 DEF Closed, Records, Valid

LEMMA EmptyFile ==
  /\ Healthy(<<>>) /\ ~Closed(<<>>) /\ ValidLength(<<>>) = 0 /\ Records(<<>>) = <<>>
  /\ RecordSet(<<>>) = {}
<1>1. <<>> \in Seq(Line) /\ Len(<<>>) = 0
  OBVIOUS
<1>2. ValidLength(<<>>) = 0
  <2>1. ValidLength(<<>>) \in 0..0
    BY <1>1, ValidLengthIs
  <2> QED BY <2>1
<1> QED BY <1>1, <1>2 DEF Healthy, Closed, Records, RecordSet

----------------------------------------------------------------------------
(* Types *)

\* Whoever is at work is at a segment.
Placed ==
  /\ writer.pc # "idle" => writer.seg \in Segment
  /\ writer.pc = "write" => writer.event \in Event
  /\ command.pc # "idle" => command.seg \in Segment
  /\ viewer.pc # "idle" => viewer.seg \in Segment

TypeInv == JournalTypeOK /\ Placed

LEMMA RepairedType ==
  ASSUME NEW f \in Seq(Line), NEW old \in Snapshot PROVE Repaired(f, old) \in Snapshot
BY RecordsType DEF Repaired, Snapshot

LEMMA SnapType == ASSUME JournalTypeOK, NEW s \in Segment
  PROVE  /\ file[s] \in Seq(Line) /\ snap[s] \in Snapshot
         /\ Reconciled(s) \in Snapshot /\ Marked(s) \in Snapshot
         /\ \A r \in Seq(Line) : Noted(s, r) \in Snapshot
<1>1. file[s] \in Seq(Line) /\ snap[s] \in Snapshot
  BY DEF JournalTypeOK
<1>2. Reconciled(s) \in Snapshot
  BY <1>1, RepairedType DEF Reconciled
<1>3. Marked(s) \in Snapshot
  BY <1>1 DEF Marked, Snapshot
<1>4. ASSUME NEW r \in Seq(Line) PROVE Noted(s, r) \in Snapshot
  BY <1>3, RecordsType DEF Noted, Snapshot
<1> QED BY <1>1, <1>2, <1>3, <1>4

LEMMA ActiveType == ActiveSegment \in Segment \cup {NoSegment}
<1>1. Unsealed \subseteq Known /\ Known \subseteq Segment
  BY DEF Unsealed, Known
<1> QED BY <1>1, LargestSegment DEF ActiveSegment

LEMMA LimboType == ASSUME JournalTypeOK PROVE Limbo \in [Segment -> Snapshot]
<1>1. ActiveSegment # NoSegment => ActiveSegment \in Segment
  BY ActiveType
<1>2. snap \in [Segment -> Snapshot]
  BY DEF JournalTypeOK
<1> QED BY <1>1, <1>2, SnapType DEF Limbo

LEMMA EmptyTypes ==
  NoCall \in Call /\ NoSnapshot \in Snapshot /\ <<>> \in Seq(Line) /\ NoSnapshot.receipts = {}
BY DEF NoCall, Call, NoSnapshot, Snapshot, NoSegment

\* The rest of the state, by what most steps leave alone.
OthersType ==
  /\ calls \subseteq Event
  /\ left \in [unlocked: 0..MaxUnlocked, faults: 0..MaxFaults]
  /\ acked \subseteq Segment \X Event
  /\ destroyed \subseteq Event
  /\ torn \subseteq Segment /\ raced \subseteq Segment /\ unlinked \subseteq Segment
CopiesType ==
  /\ usb \in [Segment -> Seq(Event)] /\ copied \subseteq Segment
  /\ late \subseteq Event /\ overwritten \subseteq Event
  /\ byHand \subseteq Segment \X Event
FilesType == file \in [Segment -> Seq(Line)] /\ snap \in [Segment -> Snapshot]
WriterType ==
  /\ writer \in Call
  /\ writer.pc # "idle" => writer.seg \in Segment
  /\ writer.pc = "write" => writer.event \in Event
CommandType ==
  /\ command \in [pc: {"idle", "footer", "seal", "note", "store", "destroy", "purge", "unlink"},
                  seg: Segment \cup {NoSegment}, read: Seq(Line), snap: Snapshot]
  /\ command.pc # "idle" => command.seg \in Segment
ViewerType ==
  /\ viewer \in [pc: {"idle", "repair"}, seg: Segment \cup {NoSegment},
                 file: Seq(Line), snap: Snapshot]
  /\ viewer.pc # "idle" => viewer.seg \in Segment

LEMMA TypeParts ==
  TypeInv <=> /\ OthersType /\ CopiesType /\ FilesType
              /\ WriterType /\ CommandType /\ ViewerType
BY DEF TypeInv, JournalTypeOK, Placed, OthersType, CopiesType, FilesType, WriterType,
       CommandType, ViewerType

LEMMA TypePartsNext ==
  TypeInv' <=> /\ OthersType' /\ CopiesType' /\ FilesType'
               /\ WriterType' /\ CommandType' /\ ViewerType'
BY DEF TypeInv, JournalTypeOK, Placed, OthersType, CopiesType, FilesType, WriterType,
       CommandType, ViewerType

LEMMA IdleTypes ==
  /\ writer' = NoCall => WriterType'
  /\ command' = NoCommand => CommandType'
  /\ viewer' = NoViewer => ViewerType'
<1>1. writer' = NoCall => WriterType'
  BY EmptyTypes DEF WriterType, NoCall
<1>2. command' = NoCommand => CommandType'
  BY EmptyTypes DEF CommandType, NoCommand, NoSegment
<1>3. viewer' = NoViewer => ViewerType'
  BY EmptyTypes DEF ViewerType, NoViewer, NoSegment
<1> QED BY <1>1, <1>2, <1>3

\* What a step leaves alone keeps its type.
LEMMA TypesKept ==
  ASSUME TypeInv
  PROVE  /\ UNCHANGED <<calls, left, acked, destroyed, torn, raced, unlinked>> => OthersType'
         /\ UNCHANGED copies => CopiesType'
         /\ UNCHANGED <<file, snap>> => FilesType'
         /\ UNCHANGED writer => WriterType'
         /\ UNCHANGED command => CommandType'
         /\ UNCHANGED viewer => ViewerType'
<1>1. UNCHANGED <<calls, left, acked, destroyed, torn, raced, unlinked>> => OthersType'
  BY TypeParts DEF OthersType
<1>2. UNCHANGED copies => CopiesType'
  BY TypeParts DEF CopiesType, copies
<1>3. UNCHANGED <<file, snap>> => FilesType'
  BY TypeParts DEF FilesType
<1>4. UNCHANGED writer => WriterType'
  BY TypeParts DEF WriterType
<1>5. UNCHANGED command => CommandType'
  BY TypeParts DEF CommandType
<1>6. UNCHANGED viewer => ViewerType'
  BY TypeParts DEF ViewerType
<1> QED BY <1>1, <1>2, <1>3, <1>4, <1>5, <1>6

LEMMA SpendType ==
  ASSUME left \in [unlocked: 0..MaxUnlocked, faults: 0..MaxFaults],
         NEW k \in {"unlocked", "faults"}, Spend(k)
  PROVE  left' \in [unlocked: 0..MaxUnlocked, faults: 0..MaxFaults]
BY JournalAssumption DEF Spend

LEMMA RacedType ==
  ASSUME TypeInv, NEW s \in Segment, NEW r, NEW c
  PROVE  RacedBy(s, r) \subseteq Segment /\ RacedByRemoval(s, c) \subseteq Segment
BY TypeParts DEF RacedBy, RacedByRemoval, OthersType

LEMMA RecordSetType ==
  ASSUME NEW f \in Seq(Line) PROVE RecordSet(f) \subseteq Event
<1>1. Records(f) \in Seq(Event)
  BY RecordsType
<1> QED BY <1>1 DEF RecordSet

LEMMA OffsetType ==
  ASSUME NEW n \in Snapshot, NEW k \in Nat
  PROVE  /\ [n EXCEPT !.offset = k] \in Snapshot
         /\ [n EXCEPT !.offset = k, !.sealed = TRUE, !.pending = NoFooter] \in Snapshot
BY DEF Snapshot

LEMMA CopyTypes ==
  ASSUME TypeInv, NEW s \in Segment, CopyToUsb(s) PROVE CopiesType'
<1>1. CopiesType /\ Records(file[s]) \in Seq(Event) /\ RecordSet(file[s]) \subseteq Event
  BY TypeParts, RecordsType, RecordSetType DEF FilesType
<1>2. {usb[s][i] : i \in DOMAIN usb[s]} \subseteq Event
  BY <1>1 DEF CopiesType
<1> QED BY <1>1, <1>2 DEF CopyToUsb, CopiesType

LEMMA RemoveTypes ==
  ASSUME TypeInv, NEW s \in Segment, NEW other, RemoveFile(s, other),
         byHand' \in {byHand, ByHand(s)}
  PROVE  /\ file' \in [Segment -> Seq(Line)] /\ destroyed' \subseteq Event
         /\ unlinked' \subseteq Segment /\ raced' \subseteq Segment /\ CopiesType'
<1>1. RecordSet(file[s]) \subseteq Event /\ CopiesType /\ OthersType /\ FilesType
  BY TypeParts, RecordSetType DEF FilesType
<1>2. file' \in [Segment -> Seq(Line)] /\ destroyed' \subseteq Event /\ unlinked' \subseteq Segment
  BY <1>1, EmptyTypes DEF RemoveFile, FilesType, OthersType
<1>3. raced' \subseteq Segment
  BY RacedType DEF RemoveFile
<1>4. CopiesType'
  BY <1>1 DEF RemoveFile, CopiesType, ByHand
<1> QED BY <1>2, <1>3, <1>4

LEMMA LockedTypes == ASSUME TypeInv, LockedStep PROVE TypeInv'
<1>0. /\ OthersType /\ CopiesType /\ FilesType /\ WriterType /\ CommandType /\ ViewerType
      /\ JournalTypeOK
  BY TypeParts DEF TypeInv
<1> USE DEF NoSegment
<1>1. ASSUME NEW e \in Event, OpenJournal(e) PROVE TypeInv'
  <2>1. Target \in Segment /\ FirstChoice \in Segment
    BY <1>1 DEF OpenJournal
  <2>2. OthersType'
    BY <1>0, <1>1 DEF OthersType, OpenJournal
  <2>3. FilesType'
    BY <1>0, <1>1, SnapType DEF FilesType, OpenJournal
  <2>4. WriterType'
    <3>1. Reconciled(Target) \in Snapshot /\ file[Target] \in Seq(Line)
      BY <1>0, <2>1, SnapType
    <3> HIDE DEF Target, Reconciled
    <3> QED BY <1>1, <2>1, <3>1, EmptyTypes DEF WriterType, OpenJournal, Call, NoCall
  <2> QED BY <1>1, <2>2, <2>3, <2>4, TypesKept, TypePartsNext DEF OpenJournal
<1>2. ASSUME NEW e \in Event, OpenRefused(e) PROVE TypeInv'
  <2>1. OthersType'
    BY <1>0, <1>2 DEF OthersType, OpenRefused
  <2>2. FilesType'
    BY <1>0, <1>2, SnapType DEF FilesType, OpenRefused
  <2> QED BY <1>2, <2>1, <2>2, TypesKept, TypePartsNext DEF OpenRefused
<1>3. ASSUME WriteRecord PROVE TypeInv'
  <2>1. writer.seg \in Segment /\ writer.event \in Event /\ writer.read \in Seq(Line)
    BY <1>0, <1>3 DEF WriteRecord, WriterType, Call
  <2>2. NewLine(writer.read, writer.event) \in Line
    <3>1. Append(Records(writer.read), writer.event) \in Seq(Event)
      BY <2>1, RecordsType
    <3> QED BY <3>1, LineKinds DEF NewLine
  <2>3. FilesType'
    BY <1>0, <1>3, <2>1, <2>2 DEF FilesType, WriteRecord
  <2>4. OthersType'
    BY <1>0, <1>3, <2>1, RacedType DEF OthersType, WriteRecord
  <2>5. CopiesType'
    BY <1>0, <1>3, <2>1 DEF CopiesType, WriteRecord
  <2>6. WriterType'
    BY <1>0, <1>3, <2>1 DEF WriterType, WriteRecord, Call
  <2> QED BY <1>3, <2>3, <2>4, <2>5, <2>6, TypesKept, TypePartsNext DEF WriteRecord
<1>4. ASSUME ConfirmRecord PROVE TypeInv'
  <2>1. writer.seg \in Segment
    BY <1>0, <1>4 DEF ConfirmRecord, WriterType, Call
  <2>2. [writer.snap EXCEPT !.offset = Len(file[writer.seg])] \in Snapshot
    <3>1. Len(file[writer.seg]) \in Nat /\ writer.snap \in Snapshot
      BY <1>0, <2>1 DEF WriterType, FilesType, Call
    <3> QED BY <3>1, OffsetType
  <2>3. FilesType'
    BY <1>0, <1>4, <2>2 DEF FilesType, ConfirmRecord
  <2>4. WriterType'
    BY <1>0, <1>4, <2>1 DEF WriterType, ConfirmRecord, Call
  <2>5. OthersType'
    BY <1>0, <1>4 DEF OthersType, ConfirmRecord
  <2> QED BY <1>4, <2>3, <2>4, <2>5, TypesKept, TypePartsNext DEF ConfirmRecord
<1>5. ASSUME RecordNotAtTail PROVE TypeInv'
  <2>1. writer.seg \in Segment /\ writer.snap \in Snapshot
    BY <1>0, <1>5 DEF RecordNotAtTail, WriterType, Call
  <2>2. FilesType'
    BY <1>0, <1>5, <2>1 DEF FilesType, RecordNotAtTail
  <2> QED BY <1>5, <2>2, IdleTypes, TypesKept, TypePartsNext DEF RecordNotAtTail
<1>6. ASSUME PrepareSeal PROVE TypeInv'
  <2>1. writer.seg \in Segment
    BY <1>0, <1>6 DEF PrepareSeal, WriterType, Call
  <2>2. /\ Reconciled(writer.seg) \in Snapshot
        /\ [Reconciled(writer.seg) EXCEPT !.pending = Records(file[writer.seg])] \in Snapshot
    <3>1. Reconciled(writer.seg) \in Snapshot /\ Records(file[writer.seg]) \in Seq(Event)
      BY <1>0, <2>1, SnapType, RecordsType
    <3> QED BY <3>1 DEF Snapshot
  <2>3. FilesType'
    BY <1>0, <1>6, <2>2 DEF FilesType, PrepareSeal
  <2>4. WriterType'
    BY <1>0, <1>6, <2>1 DEF WriterType, PrepareSeal, Call
  <2> QED BY <1>6, <2>3, <2>4, TypesKept, TypePartsNext DEF PrepareSeal
<1>7. ASSUME Reseal PROVE TypeInv'
  <2>1. writer.seg \in Segment
    BY <1>0, <1>7 DEF Reseal, WriterType, Call
  <2>2. Reconciled(writer.seg) \in Snapshot /\ file[writer.seg] \in Seq(Line)
    BY <1>0, <2>1, SnapType
  <2>3. FilesType'
    BY <1>0, <1>7, <2>2 DEF FilesType, Reseal
  <2>4. WriterType'
    BY <1>0, <1>7, <2>1, <2>2 DEF WriterType, Reseal, Call
  <2> QED BY <1>7, <2>3, <2>4, TypesKept, TypePartsNext DEF Reseal
<1>8. ASSUME SealRefused \/ FooterNotAtTail \/ EndRefused \/ Crash PROVE TypeInv'
  <2>1. left' \in [unlocked: 0..MaxUnlocked, faults: 0..MaxFaults]
    BY <1>0, <1>8, SpendType
       DEF OthersType, SealRefused, FooterNotAtTail, EndRefused, Crash
  <2>2. OthersType'
    BY <1>0, <1>8, <2>1 DEF OthersType, SealRefused, FooterNotAtTail, EndRefused, Crash
  <2> QED BY <1>8, <2>2, IdleTypes, TypesKept, TypePartsNext
             DEF SealRefused, FooterNotAtTail, EndRefused, Crash
<1>9. ASSUME WriteFooter PROVE TypeInv'
  <2>1. writer.seg \in Segment /\ Footer(Records(writer.read)) \in Line
    BY <1>0, <1>9, RecordsType, LineKinds DEF WriteFooter, WriterType, Call
  <2>2. FilesType'
    BY <1>0, <1>9, <2>1 DEF FilesType, WriteFooter
  <2>3. OthersType'
    BY <1>0, <1>9, <2>1, RacedType DEF OthersType, WriteFooter
  <2>4. WriterType'
    BY <1>0, <1>9, <2>1 DEF WriterType, WriteFooter, Call
  <2> QED BY <1>9, <2>2, <2>3, <2>4, TypesKept, TypePartsNext DEF WriteFooter
<1>10. ASSUME ConfirmSeal PROVE TypeInv'
  <2>1. writer.seg \in Segment
    BY <1>0, <1>10 DEF ConfirmSeal, WriterType, Call
  <2>2. SealedSnapshot(writer.seg, writer.snap) \in Snapshot
    <3>1. Len(file[writer.seg]) \in Nat /\ writer.snap \in Snapshot
      BY <1>0, <2>1 DEF WriterType, FilesType, Call
    <3> QED BY <3>1, OffsetType DEF SealedSnapshot
  <2>3. FilesType'
    BY <1>0, <1>10, <2>2 DEF FilesType, ConfirmSeal
  <2>4. WriterType'
    BY <1>0, <1>10, <2>1 DEF WriterType, ConfirmSeal, Call
  <2> QED BY <1>10, <2>3, <2>4, TypesKept, TypePartsNext DEF ConfirmSeal
<1>11. ASSUME EndCall PROVE TypeInv'
  <2>1. writer.seg \in Segment /\ writer.event \in Event \cup {NoEvent}
    BY <1>0, <1>11 DEF EndCall, WriterType, Call
  <2>2. Viewed # NoSegment => Viewed \in Segment
    BY <2>1, ActiveType DEF Viewed
  <2>3. FilesType'
    BY <1>0, <1>11, <2>2, SnapType DEF FilesType, EndCall
  <2>4. OthersType'
    BY <1>0, <1>11, <2>1 DEF OthersType, EndCall
  <2> QED BY <1>11, <2>3, <2>4, IdleTypes, TypesKept, TypePartsNext DEF EndCall
<1>12. ASSUME NEW s \in Segment, ReconcileSidecar(s) PROVE TypeInv'
  <2>1. FilesType'
    BY <1>0, <1>12, LimboType, SnapType DEF FilesType, ReconcileSidecar
  <2> QED BY <1>12, <2>1, TypesKept, TypePartsNext DEF ReconcileSidecar
<1>13. ASSUME NEW s \in Segment,
              ResealSegment(s) \/ MarkSegment(s) \/ ExportSegment(s) \/ DestroySegment(s)
       PROVE  snap' = Limbo /\ WriterType'
  <2>1. ASSUME NEW pc \in {"reseal", "mark", "unlink"} PROVE Locked(pc, s) \in Call
    BY EmptyTypes DEF Locked, NoCall, Call
  <2>2. CASE ResealSegment(s)
    BY <2>1, <2>2 DEF ResealSegment, WriterType, Locked, NoCall
  <2>6. ASSUME NEW k \in 0..2 PROVE [Locked("mark", s) EXCEPT !.touches = k] \in Call
    <3>1. Locked("mark", s) \in Call
      BY <2>1
    <3> HIDE DEF Locked
    <3> QED BY <3>1 DEF Call
  <2>7. Locked("mark", s).seg = s /\ Locked("mark", s).pc = "mark"
    BY DEF Locked, NoCall
  <2>3. CASE MarkSegment(s)
    <3>1. writer' = [Locked("mark", s) EXCEPT !.touches = 1] /\ snap' = Limbo
      BY <2>3 DEF MarkSegment
    <3>2. writer' \in Call
      BY <2>6, <3>1
    <3>3. writer'.seg = s /\ writer'.pc = "mark"
      BY <3>1 DEF Locked, NoCall
    <3> QED BY <3>1, <3>2, <3>3 DEF WriterType
  <2>4. CASE ExportSegment(s)
    <3>1. writer' = [Locked("mark", s) EXCEPT !.read = file[s], !.touches = 2] /\ snap' = Limbo
      BY <2>4 DEF ExportSegment
    <3>2. file[s] \in Seq(Line) /\ [Locked("mark", s) EXCEPT !.touches = 2] \in Call
      BY <1>0, <2>6 DEF FilesType
    <3>3. writer' = [[Locked("mark", s) EXCEPT !.touches = 2] EXCEPT !.read = file[s]]
      BY <3>1 DEF Locked, NoCall
    <3>4. writer' \in Call
      BY <3>2, <3>3 DEF Call
    <3>5. writer'.seg = s /\ writer'.pc = "mark"
      BY <3>1 DEF Locked, NoCall
    <3> QED BY <3>1, <3>4, <3>5 DEF WriterType
  <2>5. CASE DestroySegment(s)
    BY <2>1, <2>5 DEF DestroySegment, WriterType, Locked, NoCall
  <2> QED BY <1>13, <2>2, <2>3, <2>4, <2>5
<1>14. ASSUME NEW s \in Segment, ResealSegment(s) PROVE TypeInv'
  <2>1. FilesType'
    BY <1>0, <1>13, <1>14, LimboType DEF FilesType, ResealSegment
  <2> QED BY <1>13, <1>14, <2>1, TypesKept, TypePartsNext DEF ResealSegment
<1>15. ASSUME NEW s \in Segment, MarkSegment(s) PROVE TypeInv'
  <2>1. FilesType'
    BY <1>0, <1>13, <1>15, LimboType DEF FilesType, MarkSegment
  <2>2. OthersType'
    BY <1>0, <1>15, SpendType DEF OthersType, MarkSegment
  <2> QED BY <1>13, <1>15, <2>1, <2>2, TypesKept, TypePartsNext DEF MarkSegment
<1>16. ASSUME NEW s \in Segment, ExportSegment(s) PROVE TypeInv'
  <2>1. FilesType'
    BY <1>0, <1>13, <1>16, LimboType DEF FilesType, ExportSegment
  <2>2. OthersType'
    BY <1>0, <1>16, SpendType DEF OthersType, ExportSegment
  <2>3. CopiesType'
    BY <1>16, CopyTypes DEF ExportSegment
  <2> QED BY <1>13, <1>16, <2>1, <2>2, <2>3, TypesKept, TypePartsNext DEF ExportSegment
<1>17. ASSUME NEW s \in Segment, DestroySegment(s) PROVE TypeInv'
  <2>1. /\ file' \in [Segment -> Seq(Line)] /\ destroyed' \subseteq Event
        /\ unlinked' \subseteq Segment /\ raced' \subseteq Segment /\ CopiesType'
    BY <1>17, RemoveTypes DEF DestroySegment
  <2>2. FilesType'
    BY <1>0, <1>13, <1>17, <2>1, LimboType DEF FilesType
  <2>3. OthersType'
    BY <1>0, <1>17, <2>1, SpendType DEF OthersType, DestroySegment
  <2> QED BY <1>13, <1>17, <2>1, <2>2, <2>3, TypesKept, TypePartsNext DEF DestroySegment
<1>18. ASSUME LoadSidecar PROVE TypeInv'
  <2>1. writer.seg \in Segment /\ writer.read \in Seq(Line)
    BY <1>0, <1>18 DEF LoadSidecar, WriterType, Call
  <2>2. ToStore \in Snapshot
    BY <1>0, <2>1, SnapType DEF ToStore
  <2>3. WriterType'
    BY <1>0, <1>18, <2>1, <2>2 DEF WriterType, LoadSidecar, Call
  <2> QED BY <1>18, <2>3, TypesKept, TypePartsNext DEF LoadSidecar
<1>19. ASSUME StoreSidecar PROVE TypeInv'
  <2>1. writer.seg \in Segment /\ writer.snap \in Snapshot /\ writer.touches \in 0..2
    BY <1>0, <1>19 DEF StoreSidecar, WriterType, Call
  <2>2. FilesType'
    BY <1>0, <1>19, <2>1 DEF FilesType, StoreSidecar
  <2>3. OthersType'
    BY <1>0, <1>19, <2>1 DEF OthersType, StoreSidecar
  <2>4. WriterType'
    <3>1. CASE writer.touches = 0
      BY <1>19, <3>1, IdleTypes DEF StoreSidecar
    <3>2. CASE writer.touches # 0
      <4>1. writer.touches - 1 \in 0..2
        BY <2>1, <3>2
      <4>2. writer' = [Locked("mark", writer.seg) EXCEPT !.touches = writer.touches - 1]
        BY <1>19, <3>2 DEF StoreSidecar
      <4> QED BY <2>1, <4>1, <4>2, EmptyTypes DEF WriterType, Locked, NoCall, Call
    <3> QED BY <3>1, <3>2
  <2> QED BY <1>19, <2>2, <2>3, <2>4, TypesKept, TypePartsNext DEF StoreSidecar
<1>20. ASSUME DestroySidecar PROVE TypeInv'
  <2>1. writer.seg \in Segment
    BY <1>0, <1>20 DEF DestroySidecar, WriterType, Call
  <2>2. FilesType'
    BY <1>0, <1>20, <2>1, EmptyTypes DEF FilesType, DestroySidecar
  <2>3. OthersType'
    BY <1>0, <1>20, <2>1, RacedType DEF OthersType, DestroySidecar
  <2> QED BY <1>20, <2>2, <2>3, IdleTypes, TypesKept, TypePartsNext DEF DestroySidecar
<1>21. ASSUME SealActiveSegment PROVE TypeInv'
  <2>1. ActiveSegment \in Segment
    BY <1>21, ActiveType DEF SealActiveSegment
  <2>2. FilesType'
    BY <1>0, <1>21, LimboType DEF FilesType, SealActiveSegment
  <2>3. WriterType'
    BY <1>21, <2>1, EmptyTypes DEF WriterType, SealActiveSegment, Locked, NoCall, Call
  <2> QED BY <1>21, <2>2, <2>3, TypesKept, TypePartsNext DEF SealActiveSegment
<1>22. ASSUME CutShort PROVE TypeInv'
  <2>1. writer.seg \in Segment /\ Torn \in Line
    BY <1>0, <1>22 DEF CutShort, WriterType, Call, Torn, Line
  <2>2. FilesType'
    BY <1>0, <1>22, <2>1 DEF FilesType, CutShort
  <2>3. OthersType'
    BY <1>0, <1>22, <2>1, RacedType, SpendType DEF OthersType, CutShort
  <2> QED BY <1>22, <2>2, <2>3, IdleTypes, TypesKept, TypePartsNext DEF CutShort
<1> QED
  BY <1>1, <1>2, <1>3, <1>4, <1>5, <1>6, <1>7, <1>8, <1>9, <1>10, <1>11, <1>12, <1>14,
     <1>15, <1>16, <1>17, <1>18, <1>19, <1>20, <1>21, <1>22 DEF LockedStep

LEMMA UnlockedTypes == ASSUME TypeInv, UnlockedStep PROVE TypeInv'
<1>0. /\ OthersType /\ CopiesType /\ FilesType /\ WriterType /\ CommandType /\ ViewerType
      /\ JournalTypeOK
  BY TypeParts DEF TypeInv
<1> DEFINE Command == [pc: {"idle", "footer", "seal", "note", "store", "destroy", "purge", "unlink"},
                       seg: Segment \cup {NoSegment}, read: Seq(Line), snap: Snapshot]
<1>1. command \in Command
  BY <1>0 DEF CommandType
<1>2. ASSUME NEW s \in Segment, ReadSidecar(s) PROVE TypeInv'
  <2>1. ViewerType'
    BY <1>0, <1>2 DEF FilesType, ViewerType, ReadSidecar
  <2>2. OthersType'
    BY <1>0, <1>2, SpendType DEF OthersType, ReadSidecar
  <2> QED BY <1>2, <2>1, <2>2, TypesKept, TypePartsNext DEF ReadSidecar
<1>3. ASSUME NEW s \in Segment, CommandReseal(s) PROVE TypeInv'
  <2>1. Reconciled(s) \in Snapshot /\ file[s] \in Seq(Line)
    BY <1>0, SnapType
  <2>2. CommandType'
    BY <1>3, <2>1 DEF CommandType, CommandReseal
  <2>3. FilesType'
    BY <1>0, <1>3, <2>1 DEF FilesType, CommandReseal
  <2>4. OthersType'
    BY <1>0, <1>3, SpendType DEF OthersType, CommandReseal
  <2> QED BY <1>3, <2>2, <2>3, <2>4, TypesKept, TypePartsNext DEF CommandReseal
<1>4. ASSUME PurgeFile PROVE TypeInv'
  <2>1. command.seg \in Segment
    BY <1>0, <1>4 DEF CommandType, PurgeFile
  <2>2. /\ file' \in [Segment -> Seq(Line)] /\ destroyed' \subseteq Event
        /\ unlinked' \subseteq Segment /\ raced' \subseteq Segment /\ CopiesType'
    BY <1>4, <2>1, RemoveTypes DEF PurgeFile
  <2>3. FilesType'
    BY <1>0, <1>4, <2>2 DEF FilesType, PurgeFile
  <2>4. OthersType'
    BY <1>0, <1>4, <2>2 DEF OthersType, PurgeFile
  <2>5. CommandType'
    BY <1>1, <1>4, <2>1 DEF CommandType, PurgeFile
  <2> QED BY <1>4, <2>2, <2>3, <2>4, <2>5, TypesKept, TypePartsNext DEF PurgeFile
<1>5. ASSUME NEW s \in Segment, CommandExport(s) PROVE TypeInv'
  <2>1. file[s] \in Seq(Line)
    BY <1>0, SnapType
  <2>2. CommandType'
    BY <1>5, <2>1, EmptyTypes DEF CommandType, CommandExport, NoCommand
  <2>3. OthersType'
    BY <1>0, <1>5, SpendType DEF OthersType, CommandExport
  <2>4. CopiesType'
    BY <1>5, CopyTypes DEF CommandExport
  <2> QED BY <1>5, <2>2, <2>3, <2>4, TypesKept, TypePartsNext DEF CommandExport
<1>6. ASSUME NEW s \in Segment, CommandDestroy(s) \/ CommandPurge(s) PROVE TypeInv'
  <2>1. CommandType'
    BY <1>6, EmptyTypes DEF CommandType, CommandDestroy, CommandPurge, NoCommand
  <2>2. OthersType'
    BY <1>0, <1>6, SpendType DEF OthersType, CommandDestroy, CommandPurge
  <2> QED BY <1>6, <2>1, <2>2, TypesKept, TypePartsNext DEF CommandDestroy, CommandPurge
<1>7. ASSUME CommandLoad PROVE TypeInv'
  <2>1. command.seg \in Segment /\ command.read \in Seq(Line)
    BY <1>0, <1>1, <1>7 DEF CommandType, CommandLoad
  <2>2. Noted(command.seg, command.read) \in Snapshot
    BY <1>0, <2>1, SnapType
  <2>3. CommandType'
    BY <1>1, <1>7, <2>1, <2>2 DEF CommandType, CommandLoad
  <2> QED BY <1>7, <2>3, TypesKept, TypePartsNext DEF CommandLoad
<1>8. ASSUME CommandStore PROVE TypeInv'
  <2>1. command.seg \in Segment /\ command.snap \in Snapshot
    BY <1>0, <1>1, <1>8 DEF CommandType, CommandStore
  <2>2. FilesType'
    BY <1>0, <1>8, <2>1 DEF FilesType, CommandStore
  <2>3. OthersType'
    BY <1>0, <1>8, <2>1 DEF OthersType, CommandStore
  <2> QED BY <1>8, <2>2, <2>3, IdleTypes, TypesKept, TypePartsNext DEF CommandStore
<1>9. ASSUME CommandDestroyFile PROVE TypeInv'
  <2>1. command.seg \in Segment
    BY <1>0, <1>9 DEF CommandType, CommandDestroyFile
  <2>2. /\ file' \in [Segment -> Seq(Line)] /\ destroyed' \subseteq Event
        /\ unlinked' \subseteq Segment /\ raced' \subseteq Segment /\ CopiesType'
    BY <1>9, <2>1, RemoveTypes DEF CommandDestroyFile
  <2>3. FilesType'
    BY <1>0, <1>9, <2>2 DEF FilesType, CommandDestroyFile
  <2>4. OthersType'
    BY <1>0, <1>9, <2>2 DEF OthersType, CommandDestroyFile
  <2>5. CommandType'
    BY <1>1, <1>9, <2>1 DEF CommandType, CommandDestroyFile
  <2> QED BY <1>9, <2>2, <2>3, <2>4, <2>5, TypesKept, TypePartsNext DEF CommandDestroyFile
<1>10. ASSUME RepairSidecar PROVE TypeInv'
  <2>1. viewer.seg \in Segment /\ viewer.file \in Seq(Line) /\ viewer.snap \in Snapshot
    BY <1>0, <1>10 DEF ViewerType, RepairSidecar
  <2>2. Repaired(viewer.file, viewer.snap) \in Snapshot
    BY <2>1, RepairedType
  <2>3. FilesType'
    BY <1>0, <1>10, <2>2 DEF FilesType, RepairSidecar
  <2>4. OthersType'
    BY <1>0, <1>10, <2>1 DEF OthersType, RepairSidecar
  <2> QED BY <1>10, <2>3, <2>4, IdleTypes, TypesKept, TypePartsNext DEF RepairSidecar
<1>11. ASSUME ViewerDies \/ CommandDies PROVE TypeInv'
  <2>1. left' \in [unlocked: 0..MaxUnlocked, faults: 0..MaxFaults]
    BY <1>0, <1>11, SpendType DEF OthersType, ViewerDies, CommandDies
  <2>2. OthersType'
    BY <1>0, <1>11, <2>1 DEF OthersType, ViewerDies, CommandDies
  <2> QED BY <1>11, <2>2, IdleTypes, TypesKept, TypePartsNext DEF ViewerDies, CommandDies
<1>12. ASSUME CommandFooter PROVE TypeInv'
  <2>1. command.seg \in Segment /\ command.read \in Seq(Line)
    BY <1>0, <1>1, <1>12 DEF CommandType, CommandFooter
  <2>2. Footer(Records(command.read)) \in Line
    BY <2>1, RecordsType, LineKinds
  <2>3. FilesType'
    BY <1>0, <1>12, <2>1, <2>2 DEF FilesType, CommandFooter
  <2>4. OthersType'
    BY <1>0, <1>12, <2>1, RacedType DEF OthersType, CommandFooter
  <2>5. CommandType'
    BY <1>1, <1>12, <2>1 DEF CommandType, CommandFooter
  <2> QED BY <1>12, <2>3, <2>4, <2>5, TypesKept, TypePartsNext DEF CommandFooter
<1>13. ASSUME CommandCutShort PROVE TypeInv'
  <2>1. command.seg \in Segment /\ Torn \in Line
    BY <1>0, <1>13 DEF CommandType, CommandCutShort, Torn, Line
  <2>2. FilesType'
    BY <1>0, <1>13, <2>1 DEF FilesType, CommandCutShort
  <2>3. OthersType'
    BY <1>0, <1>13, <2>1, RacedType, SpendType DEF OthersType, CommandCutShort
  <2> QED BY <1>13, <2>2, <2>3, IdleTypes, TypesKept, TypePartsNext DEF CommandCutShort
<1>14. ASSUME CommandSealed PROVE TypeInv'
  <2>1. command.seg \in Segment /\ command.snap \in Snapshot
    BY <1>0, <1>1, <1>14 DEF CommandType, CommandSealed
  <2>2. SealedSnapshot(command.seg, command.snap) \in Snapshot
    <3>1. Len(file[command.seg]) \in Nat
      BY <1>0, <2>1 DEF FilesType
    <3> QED BY <2>1, <3>1, OffsetType DEF SealedSnapshot
  <2>3. FilesType'
    BY <1>0, <1>14, <2>2 DEF FilesType, CommandSealed
  <2> QED BY <1>14, <2>3, IdleTypes, TypesKept, TypePartsNext DEF CommandSealed
<1>15. ASSUME PurgeSidecar PROVE TypeInv'
  <2>1. command.seg \in Segment
    BY <1>0, <1>15 DEF CommandType, PurgeSidecar
  <2>2. FilesType'
    BY <1>0, <1>15, <2>1, EmptyTypes DEF FilesType, PurgeSidecar
  <2>3. OthersType'
    BY <1>0, <1>15, <2>1, RacedType DEF OthersType, PurgeSidecar
  <2> QED BY <1>15, <2>2, <2>3, IdleTypes, TypesKept, TypePartsNext DEF PurgeSidecar
<1> QED
  BY <1>2, <1>3, <1>4, <1>5, <1>6, <1>7, <1>8, <1>9, <1>10, <1>11, <1>12, <1>13, <1>14,
     <1>15 DEF UnlockedStep

LEMMA InitTypes == ASSUME JournalInit PROVE TypeInv
<1>1. OthersType
  BY JournalAssumption DEF JournalInit, OthersType
<1>2. CopiesType
  BY DEF JournalInit, CopiesType
<1>3. FilesType
  BY EmptyTypes DEF JournalInit, FilesType
<1>4. WriterType
  BY EmptyTypes DEF JournalInit, WriterType, NoCall
<1>5. CommandType
  BY EmptyTypes DEF JournalInit, CommandType, NoCommand, NoSegment
<1>6. ViewerType
  BY EmptyTypes DEF JournalInit, ViewerType, NoViewer, NoSegment
<1> QED BY <1>1, <1>2, <1>3, <1>4, <1>5, <1>6, TypeParts

LEMMA StutterTypes == ASSUME TypeInv, UNCHANGED journalVars PROVE TypeInv'
BY TypesKept, TypePartsNext DEF journalVars, copies

----------------------------------------------------------------------------
(* A segment *)

\* What holds of a segment that nobody acted upon from an out-of-date read: f
\* is its file, n its sidecar, T, U and C the segments that are torn, unlinked
\* and copied, V the events that are on the USB disk or accounted for.
SegmentOK(s, f, n, T, U, C, V) ==
  /\ f # <<>> => s \notin U /\ n.present
  /\ n.sealed /\ f # <<>> => Closed(f) \/ ~Healthy(f)
  /\ n.receipts # {} => s \in U \cup C
  /\ s \in C => RecordSet(f) \subseteq V
  /\ s \notin T => /\ Healthy(f)
                   /\ s \notin U => n.offset <= ValidLength(f)
                   /\ n.sealed => n.offset > 0
                   /\ n.pending # <<>>

\* What a step may do to a file and its sidecar while somebody else is at the
\* segment.
Onward(f, g, n, m) ==
  /\ Grows(f, g)
  /\ n.present => m.present
  /\ m.sealed /\ Healthy(g) /\ ~Closed(g) => n.sealed
  /\ ~Healthy(f) /\ n.offset > ValidLength(f) => m.offset > ValidLength(g)

LEMMA NoFooterNotEmpty == NoFooter # <<>>
<1>1. <<>> \in Seq(Event)
  OBVIOUS
<1> QED BY <1>1, JournalAssumption

LEMMA LengthBounds ==
  ASSUME NEW f \in Seq(Line)
  PROVE  /\ Len(f) \in Nat /\ ValidLength(f) \in Nat /\ ValidLength(f) <= Len(f)
         /\ Healthy(f) <=> ValidLength(f) = Len(f)
         /\ Closed(f) => ValidLength(f) > 0
         /\ ValidLength(f) > 0 => f # <<>>
         /\ f # <<>> => Len(f) > 0
<1>1. ValidLength(f) \in 0..Len(f) /\ Len(f) \in Nat
  BY ValidLengthIs
<1>2. f = <<>> <=> Len(f) = 0
  OBVIOUS
<1> QED BY <1>1, <1>2 DEF Healthy, Closed

LEMMA OKCopied ==
  ASSUME NEW s, NEW f, NEW n, NEW T, NEW U, NEW C, NEW V, NEW T2, NEW U2, NEW C2, NEW V2,
         SegmentOK(s, f, n, T, U, C, V),
         s \in T2 <=> s \in T, s \in U2 <=> s \in U, V \subseteq V2,
         s \in C => s \in C2, s \in C2 => s \in C \/ RecordSet(f) \subseteq V2
  PROVE  SegmentOK(s, f, n, T2, U2, C2, V2)
BY DEF SegmentOK

LEMMA OnwardSame ==
  ASSUME NEW f \in Seq(Line), NEW n \in Snapshot PROVE Onward(f, f, n, n)
BY GrowsSame DEF Onward

LEMMA OKRefreshed ==
  ASSUME NEW s, NEW f \in Seq(Line), NEW n \in Snapshot, NEW T, NEW U, NEW C, NEW V,
         SegmentOK(s, f, n, T, U, C, V)
  PROVE  /\ SegmentOK(s, f, Repaired(f, n), T, U, C, V)
         /\ n.offset <= ValidLength(f) => Onward(f, f, n, Repaired(f, n))
<1> DEFINE m == Repaired(f, n)
<1>1. /\ m.present /\ m.offset = ValidLength(f) /\ m.sealed = Closed(f)
      /\ m.receipts = n.receipts /\ m.pending \in {n.pending, NoFooter}
  BY DEF Repaired
<1> HIDE DEF m
<1>2. ValidLength(f) \in Nat /\ n.offset \in Nat /\ ValidLength(f) <= ValidLength(f)
  BY LengthBounds DEF Snapshot
<1>3. Closed(f) => ValidLength(f) > 0
  BY LengthBounds
<1>4. SegmentOK(s, f, m, T, U, C, V)
  <2>1. s \notin T => m.pending # <<>>
    BY <1>1, NoFooterNotEmpty DEF SegmentOK
  <2> QED BY <1>1, <1>2, <1>3, <2>1 DEF SegmentOK
<1>5. n.offset <= ValidLength(f) => Onward(f, f, n, m)
  BY <1>1, <1>2, GrowsSame DEF Onward
<1> QED BY <1>4, <1>5 DEF m

LEMMA OKPending ==
  ASSUME NEW s, NEW f \in Seq(Line), NEW n \in Snapshot, NEW T, NEW U, NEW C, NEW V,
         SegmentOK(s, f, n, T, U, C, V), ~Closed(f), s \notin T => f # <<>>,
         n.offset <= ValidLength(f),
         NEW m, m = [Repaired(f, n) EXCEPT !.pending = Records(f)]
  PROVE  SegmentOK(s, f, m, T, U, C, V) /\ Onward(f, f, n, m)
<1> DEFINE r == Repaired(f, n)
<1>1. SegmentOK(s, f, r, T, U, C, V) /\ Onward(f, f, n, r)
  BY OKRefreshed
<1>2. /\ m.present = r.present /\ m.offset = r.offset /\ m.sealed = r.sealed
      /\ m.receipts = r.receipts /\ m.pending = Records(f)
  BY DEF Repaired
<1> HIDE DEF r
<1>3. s \notin T => Records(f) # <<>>
  BY <1>1, TailSays DEF SegmentOK
<1>4. SegmentOK(s, f, m, T, U, C, V)
  BY <1>1, <1>2, <1>3 DEF SegmentOK
<1>5. Onward(f, f, n, m)
  BY <1>1, <1>2 DEF Onward
<1> QED BY <1>4, <1>5

\* A line was put behind the file.
LEMMA OKLonger ==
  ASSUME NEW s, NEW f \in Seq(Line), NEW g \in Seq(Line), NEW n \in Snapshot,
         NEW T, NEW U, NEW C, NEW V, NEW T2, NEW V2,
         SegmentOK(s, f, n, T, U, C, V), Grows(f, g), s \notin U, n.present,
         s \notin T2 => s \notin T /\ Healthy(g),
         n.sealed => Closed(g) \/ ~Healthy(g),
         s \in C => RecordSet(g) \subseteq V2
  PROVE  SegmentOK(s, g, n, T2, U, C, V2) /\ Onward(f, g, n, n)
<1>1. /\ ValidLength(f) \in Nat /\ ValidLength(g) \in Nat /\ n.offset \in Nat
      /\ ValidLength(f) <= ValidLength(g)
  BY LengthBounds DEF Snapshot, Grows
<1>2. n.offset <= ValidLength(f) => n.offset <= ValidLength(g)
  BY <1>1
<1>3. SegmentOK(s, g, n, T2, U, C, V2)
  BY <1>2 DEF SegmentOK
<1>4. Onward(f, g, n, n)
  BY DEF Onward, Grows
<1> QED BY <1>3, <1>4

\* The sidecar of an open segment is put back or claims the whole file.
LEMMA OKConfirmed ==
  ASSUME NEW s, NEW f \in Seq(Line), NEW n \in Snapshot, NEW m \in Snapshot,
         NEW T, NEW U, NEW C, NEW V,
         SegmentOK(s, f, n, T, U, C, V), f # <<>>,
         m.present, ~m.sealed, m.receipts # {} => s \in U \cup C,
         s \notin T => m.offset <= ValidLength(f) /\ m.pending # <<>>
  PROVE  /\ SegmentOK(s, f, m, T, U, C, V)
         /\ m.offset = Len(f) => Onward(f, f, n, m)
<1>1. SegmentOK(s, f, m, T, U, C, V)
  BY DEF SegmentOK
<1>2. ~Healthy(f) => Len(f) > ValidLength(f)
  BY LengthBounds
<1> QED BY <1>1, <1>2, GrowsSame DEF Onward

\* The last line is a footer and the sidecar says sealed.
LEMMA OKSealed ==
  ASSUME NEW s, NEW f \in Seq(Line), NEW n \in Snapshot, NEW m \in Snapshot,
         NEW T, NEW U, NEW C, NEW V,
         SegmentOK(s, f, n, T, U, C, V), f # <<>>, f[Len(f)].kind = "footer",
         m.present, m.receipts # {} => s \in U \cup C,
         m.offset = Len(f), m.pending = NoFooter
  PROVE  SegmentOK(s, f, m, T, U, C, V) /\ Onward(f, f, n, m)
<1>1. Healthy(f) => Closed(f)
  BY TailSays
<1>2. /\ Len(f) \in Nat /\ ValidLength(f) \in Nat /\ ValidLength(f) <= Len(f) /\ Len(f) > 0
      /\ Healthy(f) <=> ValidLength(f) = Len(f)
  BY LengthBounds
<1>3. s \notin T => m.offset <= ValidLength(f) /\ m.offset > 0
  BY <1>2 DEF SegmentOK
<1>4. SegmentOK(s, f, m, T, U, C, V)
  BY <1>1, <1>3, NoFooterNotEmpty DEF SegmentOK
<1>5. ~Healthy(f) => m.offset > ValidLength(f)
  BY <1>2
<1>6. Onward(f, f, n, m)
  BY <1>1, <1>5, GrowsSame DEF Onward
<1> QED BY <1>4, <1>6

\* A note or a receipt was put into the sidecar.
LEMMA OKMarked ==
  ASSUME NEW s, NEW f \in Seq(Line), NEW n \in Snapshot, NEW m \in Snapshot,
         NEW T, NEW U, NEW C, NEW V,
         SegmentOK(s, f, n, T, U, C, V),
         m.present, m.sealed = n.sealed, m.offset = n.offset, m.pending = n.pending,
         m.receipts # {} => s \in U \cup C
  PROVE  SegmentOK(s, f, m, T, U, C, V) /\ Onward(f, f, n, m)
<1>1. SegmentOK(s, f, m, T, U, C, V)
  BY DEF SegmentOK
<1>2. Onward(f, f, n, m)
  BY GrowsSame DEF Onward
<1> QED BY <1>1, <1>2

LEMMA OKRemoved ==
  ASSUME NEW s, NEW f, NEW n, NEW T, NEW U, NEW C, NEW V, NEW U2, NEW C2, NEW V2,
         SegmentOK(s, f, n, T, U, C, V), s \in U2, s \notin C2
  PROVE  SegmentOK(s, <<>>, n, T, U2, C2, V2)
BY EmptyFile DEF SegmentOK

LEMMA OKGone ==
  ASSUME NEW s, NEW T, NEW U, NEW C, NEW V
  PROVE  SegmentOK(s, <<>>, NoSnapshot, T, U, C, V)
<1>1. /\ NoSnapshot.sealed = FALSE /\ NoSnapshot.receipts = {} /\ NoSnapshot.offset = 0
      /\ NoSnapshot.pending = NoFooter
  BY DEF NoSnapshot
<1> QED BY <1>1, EmptyFile, NoFooterNotEmpty DEF SegmentOK

----------------------------------------------------------------------------
(* The invariant *)

\* What the USB disk holds, and what is accounted for otherwise.
Saved ==
  {e \in Event : \E z \in Segment : \E i \in DOMAIN usb[z] : usb[z][i] = e}
    \cup late \cup overwritten

OKAt(s) == SegmentOK(s, file[s], snap[s], torn, unlinked, copied, Saved)
SegInv == \A s \in Segment : s \in raced \/ OKAt(s)

\* What the holder of the lock may count on at its segment, whose file is f
\* and whose sidecar is n.
WriterOK(w, f, n, T, U, C) ==
  /\ w.pc \notin {"idle", "unlink"} => n.present
  /\ w.pc = "unlink" => w.seg \in U
  /\ w.pc = "write" /\ Healthy(f) /\ ~Closed(f) => ~n.sealed
  /\ w.pc \in {"write", "check"} => ~w.snap.sealed
  /\ w.pc \in {"write", "check", "footer", "seal"} =>
       w.snap.present /\ (w.snap.receipts # {} => w.seg \in U \cup C)
  /\ w.pc \in {"mark", "store"} /\ w.touches = 2 => w.seg \in U \cup C
  /\ w.seg \notin T =>
       /\ w.pc \in {"write", "check"} =>
            w.snap.offset <= ValidLength(f) /\ w.snap.pending # <<>>
       /\ w.pc \in {"check", "prepare", "reseal", "footer", "seal"} => f # <<>>
WriterAt == WriterOK(writer, file[writer.seg], snap[writer.seg], torn, unlinked, copied)
WriterInv ==
  /\ writer.pc \in {"write", "footer"} => ~Closed(writer.read)
  /\ writer.pc = "idle" \/ writer.seg \in raced \/ WriterAt

\* What the management command may count on.
CommandOK(c, f, n, T, U, C) ==
  /\ c.pc \notin {"idle", "unlink"} => n.present
  /\ c.pc = "unlink" => c.seg \in U
  /\ c.pc \in {"footer", "seal"} =>
       c.snap.present /\ (c.snap.receipts # {} => c.seg \in U \cup C)
  /\ c.pc \in {"note", "store", "destroy"} => c.seg \in U \cup C
  /\ c.pc = "purge" => Closed(f) \/ ~Healthy(f)
  /\ c.seg \notin T /\ c.pc \in {"footer", "seal"} => f # <<>>
CommandAt == CommandOK(command, file[command.seg], snap[command.seg], torn, unlinked, copied)
CommandInv ==
  /\ command.pc = "footer" => ~Closed(command.read)
  /\ command.pc = "idle" \/ command.seg \in raced \/ CommandAt

\* Only a race brings both to remove one sidecar.
BothInv ==
  writer.pc = "unlink" /\ command.pc = "unlink" /\ writer.seg = command.seg
    => writer.seg \in raced

ViewerInv ==
  viewer.pc = "repair" =>
    viewer.snap.present /\ viewer.snap.offset <= ValidLength(viewer.file)

\* While the check of a record is to come, the call may still put back the
\* sidecar of an open segment.
Good(s, t) == (s..t) \cap (torn \cup raced) = {}
Checked == IF writer.pc = "check" THEN {writer.seg} ELSE {}
OrderInv ==
  \A s \in Unsealed \cup Checked : \A t \in Unsealed \cup Existing : s < t => ~Good(s, t)

\* A capture on its way to an acknowledgement is in its file, unless the
\* sidecar gives it away: the view at the end of the call refuses then.
Kept(s, e) == e \in RecordSet(file[s]) \cup destroyed
AckOK(w) ==
  /\ w.pc = "check" => Kept(w.seg, w.event) \/ ~Healthy(file[w.seg])
  /\ w.pc \in {"prepare", "view"} =>
       \/ Kept(w.seg, w.event)
       \/ ~Healthy(file[w.seg]) /\ snap[w.seg].offset > ValidLength(file[w.seg])
  /\ w.pc \in {"reseal", "footer", "seal", "viewActive"} => Kept(w.seg, w.event)
AckInv == writer.pc = "idle" \/ writer.event = NoEvent \/ writer.seg \in raced \/ AckOK(writer)

ByHandInv == \A d \in byHand : d[2] \in Saved \/ d[1] \in raced

StepInv ==
  /\ TypeInv /\ SegInv /\ WriterInv /\ CommandInv /\ BothInv /\ ViewerInv
JournalInv ==
  StepInv /\ OrderInv /\ AckInv /\ AckedReadBack /\ ByHandInv

----------------------------------------------------------------------------
(* What a step does to a segment *)

SameMarks(s) ==
  /\ s \in torn' <=> s \in torn
  /\ s \in unlinked' <=> s \in unlinked
  /\ s \in copied => s \in copied'
  /\ s \in copied' => s \in copied \/ RecordSet(file[s]) \subseteq Saved'
\* The sidecar is left as it is, or made anew from the journal.
Still(s) == file'[s] = file[s] /\ snap'[s] = snap[s] /\ SameMarks(s)
Fresh(s) ==
  file'[s] = file[s] /\ Reconcilable(s) /\ snap'[s] = Reconciled(s) /\ SameMarks(s)

\* What another actor that is at the segment relies on.
Stays(s) ==
  /\ Grows(file[s], file'[s])
  /\ snap[s].present => snap'[s].present
  /\ s \in torn => s \in torn'
  /\ s \in unlinked => s \in unlinked'
  /\ s \in copied => s \in copied'
Onwards(s) == Stays(s) /\ Onward(file[s], file'[s], snap[s], snap'[s])

\* Nothing comes into use that was not.
Used(s) ==
  /\ s \in Unsealed' => s \in Unsealed \cup Checked
  /\ s \in Existing' => s \in Existing \cup Unsealed

LEMMA SavedSame == ASSUME UNCHANGED <<usb, late, overwritten>> PROVE Saved' = Saved
BY DEF Saved

LEMMA QuietSegment ==
  ASSUME TypeInv, NEW s \in Segment, OKAt(s), Still(s) \/ Fresh(s), Saved \subseteq Saved'
  PROVE  OKAt(s)' /\ Onwards(s)
<1>1. file[s] \in Seq(Line) /\ snap[s] \in Snapshot /\ file'[s] = file[s]
  BY SnapType DEF TypeInv, Still, Fresh
<1>2. SegmentOK(s, file[s], snap[s], torn, unlinked, copied, Saved)
  BY DEF OKAt
<1>3. /\ SegmentOK(s, file[s], snap'[s], torn, unlinked, copied, Saved)
      /\ Onward(file[s], file[s], snap[s], snap'[s])
  <2>1. CASE Still(s)
    BY <1>1, <1>2, <2>1, OnwardSame DEF Still
  <2>2. CASE Fresh(s)
    BY <1>1, <1>2, <2>2, OKRefreshed DEF Fresh, Reconciled, Reconcilable
  <2> QED BY <2>1, <2>2
<1>4. SameMarks(s)
  BY DEF Still, Fresh
<1>5. SegmentOK(s, file'[s], snap'[s], torn', unlinked', copied', Saved')
  BY <1>1, <1>3, <1>4, OKCopied DEF SameMarks
<1>6. Onwards(s)
  BY <1>1, <1>3, <1>4 DEF Onwards, Stays, Onward, SameMarks
<1> QED BY <1>5, <1>6 DEF OKAt

\* A sound segment whose sidecar is repaired was in use if it is after.
LEMMA QuietUse ==
  ASSUME TypeInv, NEW s \in Segment, OKAt(s), s \notin torn,
         Still(s) \/ (Fresh(s) /\ s \in Known)
  PROVE  Used(s)
<1>1. file'[s] = file[s]
  BY DEF Still, Fresh
<1>2. ASSUME s \in Unsealed' PROVE s \in Unsealed
  <2>1. CASE Still(s)
    BY <1>2, <2>1 DEF Still, Unsealed, Known
  <2>2. CASE Fresh(s) /\ s \in Known /\ snap[s].sealed
    <3>1. file[s] \in Seq(Line) /\ snap[s] \in Snapshot
      BY SnapType DEF TypeInv
    <3>2. Healthy(file[s]) /\ snap[s].offset > 0 /\ snap[s].offset <= ValidLength(file[s])
      BY <2>2 DEF OKAt, SegmentOK, Fresh, Reconcilable
    <3>3. ValidLength(file[s]) > 0
      BY <3>1, <3>2, LengthBounds DEF Snapshot
    <3>4. Closed(file[s])
      BY <2>2, <3>1, <3>2, <3>3, LengthBounds DEF OKAt, SegmentOK
    <3>5. snap'[s].sealed
      BY <2>2, <3>4 DEF Fresh, Reconciled, Repaired
    <3> QED BY <1>2, <3>5 DEF Unsealed
  <2> QED BY <2>1, <2>2 DEF Unsealed
<1>3. ASSUME s \in Existing' PROVE s \in Existing
  BY <1>1, <1>3 DEF Existing
<1> QED BY <1>2, <1>3 DEF Used

LEMMA LimboStill ==
  ASSUME TypeInv, NEW s \in Segment, snap' = Limbo, file'[s] = file[s], SameMarks(s)
  PROVE  Still(s) \/ (Fresh(s) /\ s \in Known)
<1>1. snap \in [Segment -> Snapshot]
  BY DEF TypeInv, JournalTypeOK
<1>2. ActiveSegment # NoSegment => ActiveSegment \in Known
  <2>1. Unsealed \subseteq Known /\ Known \subseteq Segment
    BY DEF Unsealed, Known
  <2> QED BY <2>1, LargestSegment DEF ActiveSegment
<1>3. snap'[s] = snap[s] \/ (s \in Known /\ Reconcilable(s) /\ snap'[s] = Reconciled(s))
  BY <1>1, <1>2 DEF Limbo
<1> QED BY <1>3 DEF Still, Fresh

\* A step that leaves a segment quiet does no more than repair its sidecar.
Quiet(s) == s \in raced' \/ Still(s) \/ (Fresh(s) /\ s \in Known)

LEMMA SameMarksSame ==
  ASSUME NEW s, UNCHANGED <<torn, unlinked, copied>> PROVE SameMarks(s)
BY DEF SameMarks

LEMMA ActiveKnown == ActiveSegment # NoSegment => ActiveSegment \in Known /\ ActiveSegment \in Segment
<1>1. Unsealed \subseteq Known /\ Known \subseteq Segment
  BY DEF Unsealed, Known
<1> QED BY <1>1, LargestSegment DEF ActiveSegment

LEMMA SnapKept ==
  ASSUME NEW s, UNCHANGED <<file, snap, torn, unlinked, copied>> PROVE Still(s)
BY SameMarksSame DEF Still

\* One sidecar is made anew.
LEMMA OneRefreshed ==
  ASSUME TypeInv, NEW a \in Segment, NEW s \in Segment,
         snap' = [snap EXCEPT ![a] = Reconciled(a)], a = s => Reconcilable(a) /\ a \in Known,
         UNCHANGED <<file, torn, unlinked, copied>>
  PROVE  Still(s) \/ (Fresh(s) /\ s \in Known)
<1>1. snap \in [Segment -> Snapshot]
  BY DEF TypeInv, JournalTypeOK
<1>2. CASE s = a
  BY <1>1, <1>2, SameMarksSame DEF Fresh
<1>3. CASE s # a
  BY <1>1, <1>3, SameMarksSame DEF Still
<1> QED BY <1>2, <1>3

LEMMA QuietLocked ==
  ASSUME StepInv, NEW s \in Segment,
         \/ \E e \in Event : OpenRefused(e)
         \/ SealRefused \/ FooterNotAtTail \/ EndRefused \/ Crash \/ LoadSidecar
         \/ Reseal \/ EndCall \/ SealActiveSegment
         \/ \E t \in Segment : ReconcileSidecar(t) \/ ResealSegment(t) \/ MarkSegment(t)
  PROVE  /\ Quiet(s)
         /\ UNCHANGED <<file, torn, raced, unlinked, usb, copied, late, overwritten, command, viewer>>
<1>0. TypeInv /\ snap \in [Segment -> Snapshot]
  BY DEF StepInv, TypeInv, JournalTypeOK
<1>1. CASE SealRefused \/ FooterNotAtTail \/ EndRefused \/ Crash \/ LoadSidecar
  <2>1. UNCHANGED <<file, snap, torn, unlinked, copied>>
    BY <1>1 DEF SealRefused, FooterNotAtTail, EndRefused, Crash, LoadSidecar, copies
  <2> QED BY <1>1, <2>1, SnapKept
          DEF Quiet, SealRefused, FooterNotAtTail, EndRefused, Crash, LoadSidecar, copies
<1>2. ASSUME NEW t \in Segment, ResealSegment(t) \/ MarkSegment(t) \/ SealActiveSegment
      PROVE  /\ snap' = Limbo
             /\ UNCHANGED <<file, torn, raced, unlinked, usb, copied, late, overwritten, command, viewer>>
  <2>1. CASE ResealSegment(t)
    BY <2>1 DEF ResealSegment, copies
  <2>2. CASE MarkSegment(t)
    BY <2>2 DEF MarkSegment, copies
  <2>3. CASE SealActiveSegment
    BY <2>3 DEF SealActiveSegment, copies
  <2> QED BY <1>2, <2>1, <2>2, <2>3
<1>3. CASE SealActiveSegment \/ \E t \in Segment : ResealSegment(t) \/ MarkSegment(t)
  <2>1. /\ snap' = Limbo
        /\ UNCHANGED <<file, torn, raced, unlinked, usb, copied, late, overwritten, command, viewer>>
    BY <1>2, <1>3
  <2> QED BY <1>0, <2>1, LimboStill, SameMarksSame DEF Quiet
<1>4. ASSUME NEW e \in Event, OpenRefused(e)
      PROVE  /\ Quiet(s)
             /\ UNCHANGED <<file, torn, raced, unlinked, usb, copied, late, overwritten, command, viewer>>
  <2>1. UNCHANGED <<file, torn, raced, unlinked, usb, copied, late, overwritten, command, viewer>>
    BY <1>4 DEF OpenRefused, copies
  <2>2. CASE ~Reconcilable(FirstChoice)
    <3>1. snap' = snap
      BY <1>4, <2>2 DEF OpenRefused
    <3> QED BY <2>1, <3>1, SnapKept DEF Quiet
  <2>3. CASE Reconcilable(FirstChoice)
    <3>1. FirstChoice \in Segment /\ snap' = [snap EXCEPT ![FirstChoice] = Reconciled(FirstChoice)]
      BY <1>4, <2>3 DEF OpenRefused
    <3>2. Target # FirstChoice
      BY <1>4, <2>3 DEF OpenRefused
    <3>5. ActiveSegment # NoSegment /\ FirstChoice = ActiveSegment
      BY <3>2 DEF Target, FirstChoice
    <3>6. FirstChoice \in Known
      BY <3>5, ActiveKnown
    <3> QED BY <1>0, <2>1, <2>3, <3>1, <3>6, OneRefreshed DEF Quiet
  <2> QED BY <2>1, <2>2, <2>3
<1>5. CASE Reseal
  <2>1. UNCHANGED <<file, torn, raced, unlinked, usb, copied, late, overwritten, command, viewer>>
    BY <1>5 DEF Reseal, copies
  <2>2. writer.seg \in Segment /\ writer.pc = "reseal"
    BY <1>0, <1>5 DEF Reseal, TypeInv, Placed
  <2>3. writer.seg \in raced \/ writer.seg \in Known
    BY <2>2 DEF StepInv, WriterInv, WriterAt, WriterOK, Known
  <2>4. Reconcilable(writer.seg) /\ snap' = [snap EXCEPT ![writer.seg] = Reconciled(writer.seg)]
    BY <1>5 DEF Reseal
  <2>5. CASE s \in raced
    BY <2>1, <2>5 DEF Quiet
  <2>6. CASE s \notin raced
    BY <1>0, <2>1, <2>2, <2>3, <2>4, <2>6, OneRefreshed DEF Quiet
  <2> QED BY <2>1, <2>5, <2>6
<1>6. CASE EndCall
  <2>1. UNCHANGED <<file, torn, raced, unlinked, usb, copied, late, overwritten, command, viewer>>
    BY <1>6 DEF EndCall, copies
  <2>2. writer.seg \in Segment /\ writer.pc \in {"view", "viewActive"}
    BY <1>0, <1>6 DEF EndCall, TypeInv, Placed
  <2>3. CASE Viewed = NoSegment
    <3>1. snap' = snap
      BY <1>6, <2>3 DEF EndCall
    <3> QED BY <2>1, <3>1, SnapKept DEF Quiet
  <2>4. CASE Viewed # NoSegment
    <3>1. Viewed \in Segment /\ (Viewed \in raced \/ Viewed \in Known)
      <4>1. CASE writer.pc = "view"
        <5>1. writer.seg \in raced \/ writer.seg \in Known
          BY <2>2, <4>1 DEF StepInv, WriterInv, WriterAt, WriterOK, Known
        <5> QED BY <2>2, <4>1, <5>1 DEF Viewed
      <4>2. CASE writer.pc # "view"
        BY <2>4, <4>2, ActiveKnown DEF Viewed
      <4> QED BY <4>1, <4>2
    <3>2. Reconcilable(Viewed) /\ snap' = [snap EXCEPT ![Viewed] = Reconciled(Viewed)]
      BY <1>6, <2>4 DEF EndCall, ViewRefuses
    <3>3. CASE s \in raced
      BY <2>1, <3>3 DEF Quiet
    <3>4. CASE s \notin raced
      BY <1>0, <2>1, <3>1, <3>2, <3>4, OneRefreshed DEF Quiet
    <3> QED BY <2>1, <3>3, <3>4
  <2> QED BY <2>3, <2>4
<1>7. ASSUME NEW t \in Segment, ReconcileSidecar(t)
      PROVE  /\ Quiet(s)
             /\ UNCHANGED <<file, torn, raced, unlinked, usb, copied, late, overwritten, command, viewer>>
  <2>1. UNCHANGED <<file, torn, raced, unlinked, usb, copied, late, overwritten, command, viewer>>
    BY <1>7 DEF ReconcileSidecar, copies
  <2>2. CASE s = t
    <3>1. snap'[s] = Reconciled(s) /\ Reconcilable(s)
      BY <1>0, <1>7, <2>2, LimboType DEF ReconcileSidecar, TypeInv
    <3>2. s \in raced \/ s \in Known
      BY <1>7, <2>2 DEF ReconcileSidecar, StepInv, SegInv, OKAt, SegmentOK, Known, Existing
    <3> QED BY <2>1, <3>1, <3>2, SameMarksSame DEF Quiet, Fresh
  <2>3. CASE s # t
    <3>1. snap'[s] = Limbo[s]
      BY <1>0, <1>7, <2>3, LimboType DEF ReconcileSidecar, TypeInv
    <3>2. snap'[s] = snap[s] \/ (s \in Known /\ Reconcilable(s) /\ snap'[s] = Reconciled(s))
      BY <1>0, <3>1, ActiveKnown DEF Limbo
    <3> QED BY <2>1, <3>2, SameMarksSame DEF Quiet, Still, Fresh
  <2> QED BY <2>1, <2>2, <2>3
<1> QED BY <1>1, <1>3, <1>4, <1>5, <1>6, <1>7

LEMMA QuietUnlocked ==
  ASSUME StepInv, NEW s \in Segment,
         \/ \E t \in Segment :
              ReadSidecar(t) \/ CommandReseal(t) \/ CommandDestroy(t) \/ CommandPurge(t)
         \/ CommandLoad \/ RepairSidecar \/ ViewerDies \/ CommandDies
  PROVE  /\ Quiet(s)
         /\ UNCHANGED <<file, torn, unlinked, usb, copied, late, overwritten, writer>>
<1>0. TypeInv /\ snap \in [Segment -> Snapshot]
  BY DEF StepInv, TypeInv, JournalTypeOK
<1>1. ASSUME NEW t \in Segment,
             \/ ReadSidecar(t) \/ CommandDestroy(t) \/ CommandPurge(t) \/ CommandLoad
             \/ ViewerDies \/ CommandDies
      PROVE  UNCHANGED <<file, snap, torn, raced, unlinked, usb, copied, late, overwritten, writer>>
  <2>1. CASE ReadSidecar(t)
    BY <2>1 DEF ReadSidecar, copies
  <2>2. CASE CommandDestroy(t) \/ CommandPurge(t)
    BY <2>2 DEF CommandDestroy, CommandPurge, copies
  <2>3. CASE CommandLoad
    BY <2>3 DEF CommandLoad, copies
  <2>4. CASE ViewerDies \/ CommandDies
    BY <2>4 DEF ViewerDies, CommandDies, copies
  <2> QED BY <1>1, <2>1, <2>2, <2>3, <2>4
<1>2. CASE \/ \E t \in Segment : ReadSidecar(t) \/ CommandDestroy(t) \/ CommandPurge(t)
           \/ CommandLoad \/ ViewerDies \/ CommandDies
  BY <1>1, <1>2, SnapKept DEF Quiet
<1>3. ASSUME NEW t \in Segment, CommandReseal(t)
      PROVE  /\ Quiet(s)
             /\ UNCHANGED <<file, torn, unlinked, usb, copied, late, overwritten, writer>>
  <2>1. UNCHANGED <<file, torn, unlinked, usb, copied, late, overwritten, writer>>
    BY <1>3 DEF CommandReseal, copies
  <2>2. t \in Known /\ Reconcilable(t) /\ snap' = [snap EXCEPT ![t] = Reconciled(t)]
    BY <1>3 DEF CommandReseal
  <2> QED BY <1>0, <2>1, <2>2, OneRefreshed DEF Quiet
<1>4. CASE RepairSidecar
  <2>1. UNCHANGED <<file, torn, unlinked, usb, copied, late, overwritten, writer>>
    BY <1>4 DEF RepairSidecar, copies
  <2> DEFINE a == viewer.seg
  <2>2. a \in Segment /\ viewer.pc = "repair"
    BY <1>0, <1>4 DEF RepairSidecar, TypeInv, Placed
  <2>3. snap' = [snap EXCEPT ![a] = Repaired(viewer.file, viewer.snap)]
    BY <1>4 DEF RepairSidecar
  <2>4. CASE s # a
    BY <1>0, <2>1, <2>3, <2>4, SameMarksSame DEF Quiet, Still
  <2>5. CASE s = a /\ s \notin raced'
    <3>1. file[a] = viewer.file /\ snap[a] = viewer.snap
      BY <1>4, <2>5 DEF RepairSidecar
    <3>2. Reconcilable(a) /\ a \in Known
      BY <2>2, <3>1 DEF StepInv, ViewerInv, Reconcilable, Known
    <3>3. snap' = [snap EXCEPT ![a] = Reconciled(a)]
      BY <2>3, <3>1 DEF Reconciled
    <3> HIDE DEF a
    <3> QED BY <1>0, <2>1, <2>2, <3>2, <3>3, OneRefreshed DEF Quiet
  <2> QED BY <2>1, <2>4, <2>5 DEF Quiet
<1> QED BY <1>2, <1>3, <1>4

\* What holds of a segment after the step, and what the others there rely on.
Lands(s) == s \in raced' \/ (OKAt(s)' /\ Onwards(s) /\ (Used(s) \/ s \in torn'))

LEMMA QuietLands ==
  ASSUME StepInv, NEW s \in Segment, Quiet(s), Saved \subseteq Saved', raced \subseteq raced'
  PROVE  Lands(s)
<1>1. CASE s \in raced'
  BY <1>1 DEF Lands
<1>2. CASE s \notin raced'
  <2>1. OKAt(s) /\ TypeInv /\ (Still(s) \/ (Fresh(s) /\ s \in Known))
    BY <1>2 DEF StepInv, SegInv, Quiet
  <2>2. s \in torn => s \in torn'
    BY <2>1 DEF Still, Fresh, SameMarks
  <2> QED BY <2>1, <2>2, QuietSegment, QuietUse DEF Lands
<1> QED BY <1>1, <1>2

\* Opening the journal repairs one sidecar, and that of the next segment when
\* the first is closed.
LEMMA OpenLands ==
  ASSUME StepInv, NEW e \in Event, OpenJournal(e), NEW s \in Segment
  PROVE  s \in raced' \/ (OKAt(s)' /\ Onwards(s))
<1>1. /\ TypeInv /\ snap \in [Segment -> Snapshot] /\ Saved' = Saved
      /\ UNCHANGED <<file, torn, raced, unlinked, copied>>
  BY SavedSame DEF StepInv, TypeInv, JournalTypeOK, OpenJournal, copies
<1>2. CASE s \in {FirstChoice, Target}
  <2>1. Fresh(s)
    BY <1>1, <1>2, SameMarksSame DEF OpenJournal, Fresh
  <2> QED BY <1>1, <2>1, QuietSegment DEF StepInv, SegInv
<1>3. CASE s \notin {FirstChoice, Target}
  <2>1. Still(s)
    BY <1>1, <1>3, SameMarksSame DEF OpenJournal, Still
  <2> QED BY <1>1, <2>1, QuietSegment DEF StepInv, SegInv
<1> QED BY <1>2, <1>3

----------------------------------------------------------------------------
(* Lines *)

\* A line at the end of a file whose sidecar is left as it is.
LEMMA LineLands ==
  ASSUME TypeInv, NEW a \in Segment, OKAt(a), NEW g \in Seq(Line),
         file' = [file EXCEPT ![a] = g], UNCHANGED <<snap, unlinked, copied>>,
         torn' \in {torn, torn \cup {a}},
         Grows(file[a], g), a \notin unlinked, snap[a].present,
         a \notin torn' => Healthy(g),
         snap[a].sealed => Closed(g) \/ ~Healthy(g),
         a \in copied => RecordSet(g) \subseteq Saved',
         a \notin torn' => a \in Existing \cup Unsealed,
         Saved \subseteq Saved', raced \subseteq raced'
  PROVE  \A s \in Segment : s \in raced \/ OKAt(s) => Lands(s)
<1>1. file[a] \in Seq(Line) /\ snap[a] \in Snapshot /\ file'[a] = g /\ snap'[a] = snap[a]
  BY SnapType DEF TypeInv, JournalTypeOK
<1>2. SegmentOK(a, file[a], snap[a], torn, unlinked, copied, Saved)
  BY DEF OKAt
<1>3. a \notin torn' => a \notin torn
  OBVIOUS
<1>4. /\ SegmentOK(a, g, snap[a], torn', unlinked, copied, Saved')
      /\ Onward(file[a], g, snap[a], snap[a])
  BY <1>1, <1>2, <1>3, OKLonger
<1>5. OKAt(a)' /\ Onwards(a)
  BY <1>1, <1>4 DEF OKAt, Onwards, Stays
<1>6. a \notin torn' => Used(a)
  BY <1>1 DEF Used, Unsealed, Known
<1>7. Lands(a)
  BY <1>5, <1>6 DEF Lands
<1>8. ASSUME NEW s \in Segment, s # a, s \in raced \/ OKAt(s) PROVE Lands(s)
  <2>1. Still(s)
    <3>1. file'[s] = file[s] /\ snap'[s] = snap[s] /\ (s \in torn' <=> s \in torn)
      BY <1>8 DEF TypeInv, JournalTypeOK
    <3> QED BY <3>1 DEF Still, SameMarks
  <2>2. CASE s \in raced
    BY <2>2 DEF Lands
  <2>3. CASE OKAt(s)
    <3>1. s \notin torn' => Used(s)
      BY <2>1, <2>3, QuietUse DEF Still, SameMarks
    <3> QED BY <2>1, <2>3, <3>1, QuietSegment DEF Lands
  <2> QED BY <1>8, <2>2, <2>3
<1> QED BY <1>7, <1>8

\* When a line is written to a segment that is raced by it, nothing is asked.
LEMMA RacedLine ==
  ASSUME TypeInv, SegInv, NEW a \in Segment, NEW g, a \in raced',
         file' = [file EXCEPT ![a] = g], UNCHANGED <<snap, unlinked, copied>>,
         torn' \in {torn, torn \cup {a}},
         Saved \subseteq Saved', raced \subseteq raced'
  PROVE  \A s \in Segment : Lands(s)
<1>1. Lands(a)
  BY DEF Lands
<1>2. ASSUME NEW s \in Segment, s # a PROVE Lands(s)
  <2>1. Still(s)
    <3>1. file'[s] = file[s] /\ snap'[s] = snap[s] /\ (s \in torn' <=> s \in torn)
      BY <1>2 DEF TypeInv, JournalTypeOK
    <3> QED BY <3>1 DEF Still, SameMarks
  <2>2. CASE s \in raced
    BY <2>2 DEF Lands
  <2>3. CASE OKAt(s)
    <3>1. s \notin torn' => Used(s)
      BY <2>1, <2>3, QuietUse DEF Still, SameMarks
    <3> QED BY <2>1, <2>3, <3>1, QuietSegment DEF Lands
  <2> QED BY <2>2, <2>3 DEF SegInv
<1> QED BY <1>1, <1>2

\* Whose read was up to date, and whose segment was not removed.
LEMMA NotRaced ==
  ASSUME NEW s, NEW read, raced' = RacedBy(s, read)
  PROVE  /\ raced \subseteq raced'
         /\ s \notin raced' => s \notin raced /\ file[s] = read /\ s \notin unlinked
BY DEF RacedBy

LEMMA FooterLands ==
  ASSUME TypeInv, SegInv, NEW a \in Segment, NEW read \in Seq(Line), ~Closed(read),
         raced' = RacedBy(a, read), a \in raced \/ snap[a].present,
         a \in raced \/ a \in torn \/ file[a] # <<>>,
         file' = [file EXCEPT ![a] = Append(@, Footer(Records(read)))],
         UNCHANGED <<snap, torn, unlinked, copies>>
  PROVE  \A s \in Segment : Lands(s)
<1> DEFINE g == Append(file[a], Footer(Records(read)))
<1>1. /\ file[a] \in Seq(Line) /\ Records(read) \in Seq(Event) /\ UNCHANGED copied
      /\ file' = [file EXCEPT ![a] = g] /\ Saved' = Saved
  BY SnapType, RecordsType, SavedSame DEF TypeInv, copies
<1>g. IsLonger(g, file[a], Footer(Records(read)))
  BY DEF IsLonger
<1> HIDE DEF g
<1>2. /\ g \in Seq(Line) /\ g # <<>> /\ Grows(file[a], g) /\ Records(g) = Records(file[a])
      /\ Behind(file[a], g) \/ Closed(g)
      /\ Healthy(file[a]) /\ ~Closed(file[a]) /\ Records(read) = Records(file[a]) => Healthy(g)
  BY <1>1, <1>g, FooterAppended
<1>3. CASE a \in raced'
  BY <1>1, <1>3, NotRaced, RacedLine
<1>4. CASE a \notin raced'
  <2>1. a \notin raced /\ file[a] = read /\ a \notin unlinked /\ OKAt(a)
    BY <1>4, NotRaced DEF SegInv
  <2>2. a \notin torn' => Healthy(g)
    BY <1>2, <2>1 DEF OKAt, SegmentOK
  <2>3. snap[a].sealed => Closed(g) \/ ~Healthy(g)
    BY <1>2 DEF Behind
  <2>4. RecordSet(g) = RecordSet(file[a])
    BY <1>2 DEF RecordSet
  <2>5. a \in copied => RecordSet(g) \subseteq Saved'
    BY <1>1, <2>1, <2>4 DEF OKAt, SegmentOK
  <2>6. a \notin torn' => a \in Existing \cup Unsealed
    BY <2>1 DEF Existing
  <2>7. \A s \in Segment : s \in raced \/ OKAt(s) => Lands(s)
    BY <1>1, <1>2, <2>1, <2>2, <2>3, <2>5, <2>6, NotRaced, LineLands
  <2> QED BY <2>7 DEF SegInv
<1> QED BY <1>3, <1>4

LEMMA CutLands ==
  ASSUME TypeInv, SegInv, NEW a \in Segment, NEW read,
         raced' = RacedBy(a, read), a \in raced \/ snap[a].present,
         file' = [file EXCEPT ![a] = Append(@, Torn)], torn' = torn \cup {a},
         UNCHANGED <<snap, unlinked, copies>>
  PROVE  \A s \in Segment : Lands(s)
<1> DEFINE g == Append(file[a], Torn)
<1>1. /\ file[a] \in Seq(Line) /\ UNCHANGED copied
      /\ file' = [file EXCEPT ![a] = g] /\ Saved' = Saved
  BY SnapType, SavedSame DEF TypeInv, copies
<1>2. g \in Seq(Line) /\ Grows(file[a], g) /\ Behind(file[a], g)
  BY <1>1, TornAppended DEF IsLonger
<1> HIDE DEF g
<1>3. CASE a \in raced'
  BY <1>1, <1>3, NotRaced, RacedLine
<1>4. CASE a \notin raced'
  <2>1. a \notin raced /\ a \notin unlinked /\ OKAt(a)
    BY <1>4, NotRaced DEF SegInv
  <2>2. RecordSet(g) = RecordSet(file[a]) /\ ~Healthy(g)
    BY <1>2 DEF RecordSet, Behind
  <2>3. a \in copied => RecordSet(g) \subseteq Saved'
    BY <1>1, <2>1, <2>2 DEF OKAt, SegmentOK
  <2>4. \A s \in Segment : s \in raced \/ OKAt(s) => Lands(s)
    BY <1>1, <1>2, <2>1, <2>2, <2>3, NotRaced, LineLands
  <2> QED BY <2>4 DEF SegInv
<1> QED BY <1>3, <1>4

\* A record that could be read back is the one the call was to write.
LEMMA AppendedSet ==
  ASSUME NEW f \in Seq(Line), NEW g, NEW e \in Event,
         \/ Records(g) = Records(f)
         \/ Records(g) = Append(Records(f), e)
  PROVE  RecordSet(g) \subseteq RecordSet(f) \cup {e}
<1>1. CASE Records(g) = Records(f)
  BY <1>1 DEF RecordSet
<1>2. CASE Records(g) = Append(Records(f), e)
  <2>1. Records(f) \in Seq(Event)
    BY RecordsType
  <2>2. ASSUME NEW i \in DOMAIN Records(g)
        PROVE  Records(g)[i] \in RecordSet(f) \cup {e}
    <3>1. i \in 1..(Len(Records(f)) + 1) /\ Len(Records(f)) \in Nat
      BY <1>2, <2>1, <2>2
    <3>2. CASE i = Len(Records(f)) + 1
      BY <1>2, <2>1, <3>2
    <3>3. CASE i \in 1..Len(Records(f))
      <4>1. Records(g)[i] = Records(f)[i] /\ i \in DOMAIN Records(f)
        BY <1>2, <2>1, <3>3
      <4> QED BY <4>1 DEF RecordSet
    <3> QED BY <3>1, <3>2, <3>3
  <2> QED BY <2>2 DEF RecordSet
<1> QED BY <1>1, <1>2

LEMMA RecordLands ==
  ASSUME StepInv, WriteRecord
  PROVE  /\ \A s \in Segment : Lands(s)
         /\ writer.seg \in raced' \/ writer.seg \in torn \/ writer.seg \in Unsealed
         /\ \/ writer.seg \in raced'
            \/ writer.event \in RecordSet(file'[writer.seg])
            \/ ~Healthy(file'[writer.seg])
<1> DEFINE a == writer.seg
           e == writer.event
           read == writer.read
           g == Append(file[a], EventLine(Append(Records(read), e)))
<1>1. /\ a \in Segment /\ e \in Event /\ read \in Seq(Line) /\ writer.pc = "write"
      /\ file[a] \in Seq(Line) /\ Records(read) \in Seq(Event)
      /\ TypeInv /\ SegInv
  <2>1. a \in Segment /\ e \in Event /\ read \in Seq(Line) /\ writer.pc = "write"
    BY DEF StepInv, TypeInv, JournalTypeOK, Placed, WriteRecord, Call
  <2> QED BY <2>1, SnapType, RecordsType DEF StepInv, TypeInv
<1>2. /\ file' = [file EXCEPT ![a] = g] /\ raced' = RacedBy(a, read)
      /\ UNCHANGED <<snap, torn, unlinked, copied>>
  BY DEF WriteRecord, NewLine
<1>3. Saved \subseteq Saved' /\ (a \in copied => e \in Saved')
  BY DEF WriteRecord, Saved
<1>g. IsLonger(g, file[a], EventLine(Append(Records(read), e)))
  BY DEF IsLonger
<1> HIDE DEF g
<1>4. /\ g \in Seq(Line) /\ Grows(file[a], g)
      /\ \/ Behind(file[a], g)
         \/ Records(g) = Append(Records(file[a]), e)
      /\ Healthy(file[a]) /\ ~Closed(file[a]) /\ Records(read) = Records(file[a])
           => Healthy(g) /\ e \in RecordSet(g)
  BY <1>1, <1>g, EventAppended
<1>5. RecordSet(g) \subseteq RecordSet(file[a]) \cup {e}
  BY <1>1, <1>4, AppendedSet DEF Behind
<1>6. file'[a] = g
  BY <1>1, <1>2 DEF TypeInv, JournalTypeOK
<1>7. CASE a \in raced'
  BY <1>1, <1>2, <1>3, <1>7, NotRaced, RacedLine
<1>8. CASE a \notin raced'
  <2>1. a \notin raced /\ file[a] = read /\ a \notin unlinked /\ OKAt(a)
    BY <1>1, <1>2, <1>8, NotRaced DEF SegInv
  <2>2. /\ ~Closed(file[a]) /\ snap[a].present
        /\ Healthy(file[a]) /\ ~Closed(file[a]) => ~snap[a].sealed
    BY <1>1, <2>1 DEF StepInv, WriterInv, WriterAt, WriterOK
  <2>3. a \notin torn' => Healthy(file[a]) /\ Healthy(g)
    BY <1>2, <1>4, <2>1, <2>2 DEF OKAt, SegmentOK
  <2>4. snap[a].sealed => Closed(g) \/ ~Healthy(g)
    BY <1>4, <2>2 DEF Grows
  <2>5. a \in copied => RecordSet(g) \subseteq Saved'
    BY <1>3, <1>5, <2>1 DEF OKAt, SegmentOK
  <2>6. a \notin torn' => a \in Unsealed
    BY <1>1, <2>2, <2>3 DEF Unsealed, Known
  <2>7. \A s \in Segment : s \in raced \/ OKAt(s) => Lands(s)
    BY <1>1, <1>2, <1>3, <1>4, <2>1, <2>2, <2>3, <2>4, <2>5, <2>6, NotRaced, LineLands
  <2>8. e \in RecordSet(g) \/ ~Healthy(g)
    BY <1>4, <2>1, <2>2 DEF Grows
  <2> QED BY <1>1, <1>2, <1>6, <2>6, <2>7, <2>8 DEF SegInv
<1> QED BY <1>6, <1>7, <1>8

----------------------------------------------------------------------------
(* Sidecars *)

\* Lands, but for what only the holder of the lock relies on.
Settles(s) == s \in raced' \/ (OKAt(s)' /\ Stays(s) /\ (Used(s) \/ s \in torn'))

LEMMA LandsSettles == ASSUME NEW s, Lands(s) PROVE Settles(s)
BY DEF Lands, Settles, Onwards

LEMMA OneSidecar ==
  ASSUME TypeInv, SegInv, NEW a \in Segment, NEW m, snap' = [snap EXCEPT ![a] = m],
         UNCHANGED <<file, torn, unlinked, copies>>, raced \subseteq raced'
  PROVE  /\ \A s \in Segment \ {a} : Lands(s)
         /\ file'[a] = file[a] /\ snap'[a] = m /\ SameMarks(a) /\ Saved' = Saved
<1>1. /\ UNCHANGED <<torn, unlinked, copied>> /\ Saved' = Saved
      /\ snap \in [Segment -> Snapshot]
  BY SavedSame DEF copies, TypeInv, JournalTypeOK
<1>2. ASSUME NEW s \in Segment \ {a} PROVE Lands(s)
  <2>1. Still(s)
    BY <1>1, SameMarksSame DEF Still
  <2>2. CASE s \in raced
    BY <2>2 DEF Lands
  <2>3. CASE s \notin raced
    <3>1. OKAt(s)
      BY <2>3 DEF SegInv
    <3>2. s \notin torn' => Used(s)
      BY <1>1, <2>1, <3>1, QuietUse
    <3> QED BY <1>1, <2>1, <3>1, <3>2, QuietSegment DEF Lands
  <2> QED BY <2>2, <2>3
<1> QED BY <1>1, <1>2, SameMarksSame

\* The new sidecar m of a segment is as good as the old one.
LEMMA SidecarLands ==
  ASSUME TypeInv, SegInv, NEW a \in Segment, NEW m, snap' = [snap EXCEPT ![a] = m],
         UNCHANGED <<file, torn, unlinked, copies>>, raced \subseteq raced',
         a \notin raced' =>
           /\ SegmentOK(a, file[a], m, torn, unlinked, copied, Saved)
           /\ Onward(file[a], file[a], snap[a], m)
           /\ a \notin torn /\ m.present /\ ~m.sealed => a \in Unsealed \cup Checked
  PROVE  \A s \in Segment : Lands(s)
<1>1. /\ \A s \in Segment \ {a} : Lands(s)
      /\ file'[a] = file[a] /\ snap'[a] = m /\ SameMarks(a) /\ Saved' = Saved
  BY OneSidecar
<1>2. CASE a \in raced'
  BY <1>1, <1>2 DEF Lands
<1>3. CASE a \notin raced'
  <2>1. OKAt(a)'
    BY <1>1, <1>3 DEF OKAt, copies
  <2>2. Onwards(a)
    BY <1>1, <1>3 DEF Onwards, Stays, Onward, SameMarks
  <2>3. a \notin torn' => Used(a)
    BY <1>1, <1>3 DEF Used, Unsealed, Known, Existing
  <2> QED BY <1>1, <2>1, <2>2, <2>3 DEF Lands
<1> QED BY <1>2, <1>3

LEMMA ConfirmLands ==
  ASSUME StepInv, ConfirmRecord PROVE \A s \in Segment : Lands(s)
<1> DEFINE a == writer.seg
           m == [writer.snap EXCEPT !.offset = Len(file[a])]
<1>1. /\ a \in Segment /\ writer.pc = "check" /\ writer.snap \in Snapshot
      /\ file[a] \in Seq(Line) /\ snap[a] \in Snapshot /\ TypeInv /\ SegInv
  <2>1. a \in Segment /\ writer.pc = "check" /\ writer.snap \in Snapshot
    BY DEF StepInv, TypeInv, JournalTypeOK, Placed, ConfirmRecord, Call
  <2> QED BY <2>1, SnapType DEF StepInv, TypeInv
<1>2. /\ snap' = [snap EXCEPT ![a] = m] /\ file[a] # <<>>
      /\ UNCHANGED <<file, torn, raced, unlinked, copies>>
  BY DEF ConfirmRecord
<1>3. Len(file[a]) \in Nat /\ (Healthy(file[a]) => Len(file[a]) <= ValidLength(file[a]))
  BY <1>1, LengthBounds
<1>4. /\ m \in Snapshot /\ m.offset = Len(file[a]) /\ m.present = writer.snap.present
      /\ m.sealed = writer.snap.sealed /\ m.receipts = writer.snap.receipts
      /\ m.pending = writer.snap.pending
  BY <1>1, <1>3, OffsetType DEF Snapshot
<1> HIDE DEF m
<1>5. ASSUME a \notin raced'
      PROVE  /\ SegmentOK(a, file[a], m, torn, unlinked, copied, Saved)
             /\ Onward(file[a], file[a], snap[a], m) /\ a \in Checked
  <2>1. a \notin raced /\ OKAt(a)
    BY <1>1, <1>2, <1>5 DEF SegInv
  <2>2. /\ m.present /\ ~m.sealed /\ (m.receipts # {} => a \in unlinked \cup copied)
        /\ a \notin torn => m.pending # <<>>
    BY <1>1, <1>4, <2>1 DEF StepInv, WriterInv, WriterAt, WriterOK
  <2>3. a \notin torn => m.offset <= ValidLength(file[a])
    BY <1>3, <1>4, <2>1 DEF OKAt, SegmentOK
  <2>4. /\ SegmentOK(a, file[a], m, torn, unlinked, copied, Saved)
        /\ Onward(file[a], file[a], snap[a], m)
    BY <1>1, <1>2, <1>4, <2>1, <2>2, <2>3, OKConfirmed DEF OKAt
  <2> QED BY <1>1, <2>4 DEF Checked
<1> QED BY <1>1, <1>2, <1>5, SidecarLands

LEMMA NotAtTailSettles ==
  ASSUME StepInv, RecordNotAtTail PROVE \A s \in Segment : Settles(s)
<1>0. PICK a \in Segment : a = writer.seg
  BY DEF StepInv, TypeInv, Placed, RecordNotAtTail
<1>m. PICK m \in Snapshot : m = writer.snap
  BY DEF StepInv, TypeInv, JournalTypeOK, Call
<1>1. /\ writer.seg = a /\ writer.snap = m /\ writer.pc = "check"
      /\ file[a] \in Seq(Line) /\ snap[a] \in Snapshot /\ TypeInv /\ SegInv
  BY <1>0, <1>m, SnapType DEF StepInv, TypeInv, RecordNotAtTail
<1>2. UNCHANGED <<file, torn, raced, unlinked, copies>>
  BY DEF RecordNotAtTail
<1>3. CASE file[a] = <<>>
  <2>1. UNCHANGED <<snap, copied>> /\ Saved' = Saved
    BY <1>1, <1>2, <1>3, SavedSame DEF RecordNotAtTail, copies
  <2>2. ASSUME NEW s \in Segment PROVE Settles(s)
    <3>1. Quiet(s)
      BY <1>2, <2>1, SnapKept DEF Quiet
    <3> QED BY <1>2, <2>1, <3>1, QuietLands, LandsSettles
  <2> QED BY <2>2
<1>4. CASE file[a] # <<>>
  <2>1. snap' = [snap EXCEPT ![a] = m]
    BY <1>1, <1>4 DEF RecordNotAtTail
  <2>2. /\ \A s \in Segment \ {a} : Lands(s)
        /\ file'[a] = file[a] /\ snap'[a] = m /\ SameMarks(a) /\ Saved' = Saved
    BY <1>1, <1>2, <2>1, OneSidecar
  <2>3. ASSUME a \notin raced' PROVE Settles(a)
    <3>1. a \notin raced /\ OKAt(a)
      BY <1>1, <1>2, <2>3 DEF SegInv
    <3>2. /\ m.present /\ ~m.sealed /\ (m.receipts # {} => a \in unlinked \cup copied)
          /\ a \notin torn => m.pending # <<>> /\ m.offset <= ValidLength(file[a])
      BY <1>1, <3>1 DEF StepInv, WriterInv, WriterAt, WriterOK
    <3>3. SegmentOK(a, file[a], m, torn, unlinked, copied, Saved)
      BY <1>1, <1>4, <3>1, <3>2, OKConfirmed DEF OKAt
    <3>4. OKAt(a)'
      BY <1>2, <2>2, <3>3 DEF OKAt, copies
    <3>5. Stays(a)
      BY <1>1, <2>2, <3>2, GrowsSame DEF Stays, SameMarks
    <3>6. Used(a)
      BY <1>1, <2>2 DEF Used, Checked, Existing
    <3> QED BY <3>4, <3>5, <3>6 DEF Settles
  <2> QED BY <2>2, <2>3, LandsSettles DEF Settles
<1> QED BY <1>3, <1>4

\* A sound segment whose sidecar says sealed is closed.
LEMMA SealedIsClosed ==
  ASSUME TypeInv, NEW s \in Segment, OKAt(s), s \notin torn, snap[s].sealed, Reconcilable(s)
  PROVE  Closed(file[s])
<1>1. file[s] \in Seq(Line) /\ snap[s] \in Snapshot
  BY SnapType DEF TypeInv
<1>2. Healthy(file[s]) /\ snap[s].offset > 0 /\ snap[s].offset <= ValidLength(file[s])
  BY DEF OKAt, SegmentOK, Reconcilable
<1>3. ValidLength(file[s]) > 0
  BY <1>1, <1>2, LengthBounds DEF Snapshot
<1> QED BY <1>1, <1>2, <1>3, LengthBounds DEF OKAt, SegmentOK

LEMMA PrepareLands ==
  ASSUME StepInv, PrepareSeal PROVE \A s \in Segment : Lands(s)
<1> DEFINE a == writer.seg
<1>1. /\ a \in Segment /\ writer.pc = "prepare" /\ Reconcilable(a)
      /\ file[a] \in Seq(Line) /\ snap[a] \in Snapshot /\ TypeInv /\ SegInv
  <2>1. a \in Segment /\ writer.pc = "prepare" /\ Reconcilable(a)
    BY DEF StepInv, TypeInv, JournalTypeOK, Placed, PrepareSeal, Call
  <2> QED BY <2>1, SnapType DEF StepInv, TypeInv
<1>2. UNCHANGED <<file, torn, raced, unlinked, copies>>
  BY DEF PrepareSeal
<1>3. a \notin raced => /\ OKAt(a) /\ a \in Known
                        /\ a \notin torn => file[a] # <<>>
  BY <1>1 DEF SegInv, StepInv, WriterInv, WriterAt, WriterOK, Known
<1>4. CASE Closed(file[a])
  <2>1. snap' = [snap EXCEPT ![a] = Reconciled(a)]
    BY <1>4 DEF PrepareSeal
  <2>2. ASSUME NEW s \in Segment PROVE Lands(s)
    <3>1. Quiet(s)
      <4>1. CASE s \in raced
        BY <1>2, <4>1 DEF Quiet
      <4>2. CASE s \notin raced
        BY <1>1, <1>2, <1>3, <2>1, <4>2, OneRefreshed DEF Quiet, copies
      <4> QED BY <4>1, <4>2
    <3>2. Saved' = Saved
      BY <1>2, SavedSame DEF copies
    <3> QED BY <1>2, <3>1, <3>2, QuietLands
  <2> QED BY <2>2
<1>5. CASE ~Closed(file[a])
  <2> DEFINE m == [Reconciled(a) EXCEPT !.pending = Records(file[a])]
  <2>1. snap' = [snap EXCEPT ![a] = m] /\ m = [Repaired(file[a], snap[a]) EXCEPT !.pending = Records(file[a])]
    BY <1>5 DEF PrepareSeal, Reconciled
  <2> HIDE DEF m
  <2>2. ASSUME a \notin raced'
        PROVE  /\ SegmentOK(a, file[a], m, torn, unlinked, copied, Saved)
               /\ Onward(file[a], file[a], snap[a], m)
               /\ a \notin torn => a \in Unsealed
    <3>1. a \notin raced
      BY <1>2, <2>2
    <3>2. /\ SegmentOK(a, file[a], m, torn, unlinked, copied, Saved)
          /\ Onward(file[a], file[a], snap[a], m)
      BY <1>1, <1>3, <1>5, <2>1, <3>1, OKPending DEF OKAt, Reconcilable
    <3>3. a \notin torn => ~snap[a].sealed
      BY <1>1, <1>3, <1>5, <3>1, SealedIsClosed
    <3> QED BY <1>3, <3>1, <3>2, <3>3 DEF Unsealed
  <2> QED BY <1>1, <1>2, <2>1, <2>2, SidecarLands
<1> QED BY <1>4, <1>5

LEMMA SealLands ==
  ASSUME TypeInv, SegInv, NEW a \in Segment, NEW read, NEW n \in Snapshot,
         FooterAtTail(a, read), snap' = [snap EXCEPT ![a] = SealedSnapshot(a, n)],
         a \in raced \/ (n.present /\ (n.receipts # {} => a \in unlinked \cup copied)),
         UNCHANGED <<file, torn, raced, unlinked, copies>>
  PROVE  \A s \in Segment : Lands(s)
<1> DEFINE m == SealedSnapshot(a, n)
<1>1. file[a] \in Seq(Line) /\ snap[a] \in Snapshot
  BY SnapType DEF TypeInv
<1>2. file[a] # <<>> /\ file[a][Len(file[a])].kind = "footer"
  BY DEF FooterAtTail, Footer
<1>3. Len(file[a]) \in Nat
  BY <1>1
<1>4. /\ m \in Snapshot /\ m.offset = Len(file[a]) /\ m.present = n.present
      /\ m.sealed = TRUE /\ m.receipts = n.receipts /\ m.pending = NoFooter
  BY <1>3, OffsetType DEF SealedSnapshot, Snapshot
<1> HIDE DEF m
<1>5. ASSUME a \notin raced'
      PROVE  /\ SegmentOK(a, file[a], m, torn, unlinked, copied, Saved)
             /\ Onward(file[a], file[a], snap[a], m)
  <2>1. OKAt(a) /\ a \notin raced
    BY <1>5 DEF SegInv
  <2> QED BY <1>1, <1>2, <1>4, <2>1, OKSealed DEF OKAt
<1>6. snap' = [snap EXCEPT ![a] = m]
  BY DEF m
<1> QED BY <1>4, <1>5, <1>6, SidecarLands

LEMMA MarkLands ==
  ASSUME TypeInv, SegInv, NEW a \in Segment, NEW m \in Snapshot,
         snap' = [snap EXCEPT ![a] = m], UNCHANGED <<file, torn, unlinked, copies>>,
         raced \subseteq raced',
         a \notin raced' =>
           /\ snap[a].present /\ m.present /\ m.sealed = snap[a].sealed
           /\ m.offset = snap[a].offset /\ m.pending = snap[a].pending
           /\ m.receipts # {} => a \in unlinked \cup copied
  PROVE  \A s \in Segment : Lands(s)
<1>1. file[a] \in Seq(Line) /\ snap[a] \in Snapshot
  BY SnapType DEF TypeInv
<1>2. ASSUME a \notin raced'
      PROVE  /\ SegmentOK(a, file[a], m, torn, unlinked, copied, Saved)
             /\ Onward(file[a], file[a], snap[a], m)
  <2>1. OKAt(a)
    BY <1>2 DEF SegInv
  <2> QED BY <1>1, <1>2, <2>1, OKMarked DEF OKAt
<1>3. a \notin raced' /\ ~m.sealed => a \in Unsealed
  BY DEF Unsealed, Known
<1> QED BY <1>2, <1>3, SidecarLands

\* With a copy on the USB disk, what could be read back of the segment is
\* saved, and nothing that was saved before is lost.
LEMMA CopySaves ==
  ASSUME TypeInv, NEW a \in Segment, CopyToUsb(a)
  PROVE  Saved \subseteq Saved' /\ RecordSet(file[a]) \subseteq Saved'
<1>1. /\ usb \in [Segment -> Seq(Event)] /\ Records(file[a]) \in Seq(Event)
      /\ RecordSet(file[a]) \subseteq Event
  BY SnapType, RecordsType, RecordSetType DEF TypeInv, JournalTypeOK
<1>2. /\ usb'[a] = Records(file[a]) /\ \A z \in Segment \ {a} : usb'[z] = usb[z]
      /\ late' = late \ RecordSet(file[a])
      /\ overwritten' = (overwritten \cup {usb[a][i] : i \in DOMAIN usb[a]}) \ RecordSet(file[a])
  BY <1>1 DEF CopyToUsb
<1>3. ASSUME NEW e \in RecordSet(file[a]) PROVE e \in Saved'
  <2>1. PICK i \in DOMAIN usb'[a] : usb'[a][i] = e
    BY <1>2, <1>3 DEF RecordSet
  <2> QED BY <1>1, <2>1 DEF Saved
<1>4. ASSUME NEW e \in Saved, e \notin RecordSet(file[a]) PROVE e \in Saved'
  <2>1. CASE e \in late \cup overwritten
    BY <1>2, <1>4, <2>1 DEF Saved
  <2>2. CASE e \notin late \cup overwritten
    <3>1. PICK z \in Segment : \E i \in DOMAIN usb[z] : usb[z][i] = e
      BY <1>4, <2>2 DEF Saved
    <3>2. CASE z = a
      <4>1. e \in overwritten'
        BY <1>2, <1>4, <3>1, <3>2
      <4> QED BY <4>1 DEF Saved
    <3>3. CASE z # a
      <4>1. e \in Event /\ \E i \in DOMAIN usb'[z] : usb'[z][i] = e
        BY <1>2, <1>4, <2>2, <3>1, <3>3 DEF Saved
      <4> QED BY <4>1 DEF Saved
    <3> QED BY <3>2, <3>3
  <2> QED BY <2>1, <2>2
<1> QED BY <1>3, <1>4

LEMMA CopyQuiet ==
  ASSUME TypeInv, NEW a \in Segment, NEW s \in Segment, CopyToUsb(a),
         snap' \in {snap, Limbo}, UNCHANGED <<file, torn, unlinked>>
  PROVE  Quiet(s)
<1>1. RecordSet(file[a]) \subseteq Saved'
  BY CopySaves
<1>2. SameMarks(s)
  BY <1>1 DEF SameMarks, CopyToUsb
<1> QED BY <1>2, LimboStill DEF Quiet, Still

----------------------------------------------------------------------------
(* Removals *)

\* What is left of a segment when its file or its sidecar goes.
Leaves(s) == s \in raced' \/ (OKAt(s)' /\ (Used(s) \/ s \in torn'))

LEMMA RemovalSaved ==
  ASSUME NEW a, NEW other, RemoveFile(a, other)
  PROVE  Saved' = Saved /\ raced \subseteq raced' /\ a \in unlinked' /\ a \notin copied'
BY SavedSame DEF RemoveFile, RacedByRemoval

LEMMA RemovalLands ==
  ASSUME TypeInv, SegInv, NEW a \in Segment, NEW other, RemoveFile(a, other),
         snap' \in {snap, Limbo}, UNCHANGED torn
  PROVE  (\A s \in Segment \ {a} : Lands(s)) /\ Leaves(a)
<1>0. /\ Saved' = Saved /\ raced \subseteq raced' /\ a \in unlinked' /\ a \notin copied'
      /\ file \in [Segment -> Seq(Line)] /\ file' = [file EXCEPT ![a] = <<>>]
      /\ snap \in [Segment -> Snapshot]
  BY RemovalSaved DEF RemoveFile, TypeInv, JournalTypeOK
<1>1. ASSUME NEW s \in Segment
      PROVE  \/ snap'[s] = snap[s]
             \/ snap'[s] = Reconciled(s) /\ Reconcilable(s) /\ s \in Known
  BY <1>0, ActiveKnown DEF Limbo
<1>2. ASSUME NEW s \in Segment \ {a} PROVE Lands(s)
  <2>1. file'[s] = file[s] /\ SameMarks(s)
    BY <1>0 DEF SameMarks, RemoveFile
  <2>2. Still(s) \/ (Fresh(s) /\ s \in Known)
    BY <1>1, <2>1 DEF Still, Fresh
  <2>3. CASE s \in raced
    BY <1>0, <2>3 DEF Lands
  <2>4. CASE s \notin raced
    <3>1. OKAt(s)
      BY <2>4 DEF SegInv
    <3>2. s \notin torn' => Used(s)
      BY <2>2, <3>1, QuietUse
    <3> QED BY <1>0, <2>2, <3>1, <3>2, QuietSegment DEF Lands
  <2> QED BY <2>3, <2>4
<1>3. ASSUME a \notin raced' PROVE OKAt(a)' /\ (Used(a) \/ a \in torn')
  <2>1. OKAt(a)
    BY <1>0, <1>3 DEF SegInv
  <2>2. file[a] \in Seq(Line) /\ snap[a] \in Snapshot /\ file'[a] = <<>>
    BY <1>0
  <2>3. SegmentOK(a, file[a], snap'[a], torn, unlinked, copied, Saved)
    BY <1>1, <2>1, <2>2, OKRefreshed DEF OKAt, Reconciled
  <2>4. SegmentOK(a, <<>>, snap'[a], torn, unlinked', copied', Saved')
    BY <1>0, <2>3, OKRemoved
  <2>5. OKAt(a)'
    BY <2>2, <2>4 DEF OKAt
  <2>6. ASSUME a \notin torn, a \in Unsealed' PROVE a \in Unsealed
    <3>1. CASE snap'[a] = snap[a]
      BY <2>6, <3>1 DEF Unsealed, Known
    <3>2. CASE snap'[a] = Reconciled(a) /\ Reconcilable(a) /\ a \in Known
      <4>1. ~Closed(file[a])
        BY <2>6, <3>2 DEF Unsealed, Reconciled, Repaired
      <4>2. ~snap[a].sealed
        BY <2>1, <2>6, <3>2, <4>1, SealedIsClosed
      <4> QED BY <3>2, <4>2 DEF Unsealed
    <3> QED BY <1>1, <3>1, <3>2
  <2>7. a \notin Existing'
    BY <2>2 DEF Existing
  <2> QED BY <2>5, <2>6, <2>7 DEF Used
<1> QED BY <1>2, <1>3 DEF Leaves

LEMMA UnlinkLands ==
  ASSUME TypeInv, SegInv, NEW a \in Segment, a \in raced \/ a \in unlinked,
         snap' = [snap EXCEPT ![a] = NoSnapshot], unlinked' = unlinked \ {a},
         UNCHANGED <<file, torn, copies>>, raced \subseteq raced'
  PROVE  (\A s \in Segment \ {a} : Lands(s)) /\ Leaves(a)
<1>0. /\ UNCHANGED copied /\ Saved' = Saved /\ snap \in [Segment -> Snapshot]
      /\ snap'[a] = NoSnapshot
  BY SavedSame DEF copies, TypeInv, JournalTypeOK
<1>1. ASSUME NEW s \in Segment \ {a} PROVE Lands(s)
  <2>1. Still(s)
    BY <1>0 DEF Still, SameMarks
  <2>2. CASE s \in raced
    BY <2>2 DEF Lands
  <2>3. CASE s \notin raced
    <3>1. OKAt(s)
      BY <2>3 DEF SegInv
    <3>2. s \notin torn' => Used(s)
      BY <2>1, <3>1, QuietUse
    <3> QED BY <1>0, <2>1, <3>1, <3>2, QuietSegment DEF Lands
  <2> QED BY <2>2, <2>3
<1>2. ASSUME a \notin raced' PROVE OKAt(a)' /\ Used(a)
  <2>1. OKAt(a) /\ a \in unlinked
    BY <1>2 DEF SegInv
  <2>2. file'[a] = <<>>
    BY <2>1 DEF OKAt, SegmentOK
  <2>3. OKAt(a)'
    BY <1>0, <2>2, OKGone DEF OKAt
  <2>4. a \notin Unsealed' /\ a \notin Existing'
    BY <1>0, <2>2 DEF Unsealed, Known, Existing, NoSnapshot
  <2> QED BY <2>3, <2>4 DEF Used
<1> QED BY <1>1, <1>2 DEF Leaves

----------------------------------------------------------------------------
(* Steps *)

\* An actor that is at a segment finds there what it relies on, or the
\* segment is raced, or it has only the sidecar left to remove.
WriterUndisturbed ==
  \/ writer.pc = "idle" \/ writer.seg \in raced' \/ Onwards(writer.seg)
  \/ writer.pc = "unlink" /\ writer.seg \in unlinked'
CommandUndisturbed ==
  \/ command.pc = "idle" \/ command.seg \in raced' \/ Stays(command.seg)
  \/ command.pc = "unlink" /\ command.seg \in unlinked'

LEMMA LandsAll ==
  ASSUME TypeInv, \A s \in Segment : Lands(s)
  PROVE  (\A s \in Segment : Leaves(s)) /\ WriterUndisturbed /\ CommandUndisturbed
<1>1. \A s \in Segment : Leaves(s)
  BY DEF Lands, Leaves
<1>2. WriterUndisturbed
  <2>1. CASE writer.pc = "idle"
    BY <2>1 DEF WriterUndisturbed
  <2>2. CASE writer.pc # "idle"
    <3>1. Lands(writer.seg)
      BY <2>2 DEF TypeInv, Placed
    <3> QED BY <3>1 DEF Lands, WriterUndisturbed
  <2> QED BY <2>1, <2>2
<1>3. CommandUndisturbed
  <2>1. CASE command.pc = "idle"
    BY <2>1 DEF CommandUndisturbed
  <2>2. CASE command.pc # "idle"
    <3>1. Lands(command.seg)
      BY <2>2 DEF TypeInv, Placed
    <3> QED BY <3>1 DEF Lands, Onwards, CommandUndisturbed
  <2> QED BY <2>1, <2>2
<1> QED BY <1>1, <1>2, <1>3

\* When a file goes, whoever else is at the segment is raced, unless it was
\* going to remove the sidecar as well.
LEMMA RemovalDisturbs ==
  ASSUME TypeInv, NEW a \in Segment, NEW other, RemoveFile(a, other),
         \A s \in Segment \ {a} : Lands(s)
  PROVE  /\ other = writer => WriterUndisturbed
         /\ other = command => CommandUndisturbed
<1>1. a \in unlinked' /\ (other.seg = a => a \in raced' \/ other.pc = "unlink")
  BY DEF RemoveFile, RacedByRemoval
<1>2. ASSUME other = writer, writer.pc # "idle" PROVE WriterUndisturbed
  <2>1. CASE writer.seg = a
    BY <1>1, <1>2, <2>1 DEF WriterUndisturbed
  <2>2. CASE writer.seg # a
    <3>1. Lands(writer.seg)
      BY <1>2, <2>2 DEF TypeInv, Placed
    <3> QED BY <3>1 DEF Lands, WriterUndisturbed
  <2> QED BY <2>1, <2>2
<1>3. ASSUME other = command, command.pc # "idle" PROVE CommandUndisturbed
  <2>1. CASE command.seg = a
    BY <1>1, <1>3, <2>1 DEF CommandUndisturbed
  <2>2. CASE command.seg # a
    <3>1. Lands(command.seg)
      BY <1>3, <2>2 DEF TypeInv, Placed
    <3> QED BY <3>1 DEF Lands, Onwards, CommandUndisturbed
  <2> QED BY <2>1, <2>2
<1> QED BY <1>2, <1>3 DEF WriterUndisturbed, CommandUndisturbed

\* The same when a sidecar goes: two that remove one sidecar have raced.
LEMMA UnlinkDisturbs ==
  ASSUME TypeInv, BothInv, NEW a \in Segment, NEW other,
         raced' = RacedByRemoval(a, other), \A s \in Segment \ {a} : Lands(s)
  PROVE  /\ other = writer /\ command.pc = "unlink" /\ command.seg = a => WriterUndisturbed
         /\ other = command /\ writer.pc = "unlink" /\ writer.seg = a => CommandUndisturbed
<1>1. /\ other.seg = a => a \in raced' \/ other.pc = "unlink"
      /\ raced \subseteq raced'
  BY DEF RacedByRemoval
<1>2. ASSUME other = writer, command.pc = "unlink", command.seg = a, writer.pc # "idle"
      PROVE  WriterUndisturbed
  <2>1. CASE writer.seg = a
    BY <1>1, <1>2, <2>1 DEF WriterUndisturbed, BothInv
  <2>2. CASE writer.seg # a
    <3>1. Lands(writer.seg)
      BY <1>2, <2>2 DEF TypeInv, Placed
    <3> QED BY <3>1 DEF Lands, WriterUndisturbed
  <2> QED BY <2>1, <2>2
<1>3. ASSUME other = command, writer.pc = "unlink", writer.seg = a, command.pc # "idle"
      PROVE  CommandUndisturbed
  <2>1. CASE command.seg = a
    BY <1>1, <1>3, <2>1 DEF CommandUndisturbed, BothInv
  <2>2. CASE command.seg # a
    <3>1. Lands(command.seg)
      BY <1>3, <2>2 DEF TypeInv, Placed
    <3> QED BY <3>1 DEF Lands, Onwards, CommandUndisturbed
  <2> QED BY <2>1, <2>2
<1> QED BY <1>2, <1>3 DEF WriterUndisturbed, CommandUndisturbed

LEMMA UnlockedLands ==
  ASSUME StepInv, UnlockedStep
  PROVE  (\A s \in Segment : Leaves(s)) /\ WriterUndisturbed
<1>0. /\ TypeInv /\ SegInv /\ BothInv
      /\ command \in [pc: {"idle", "footer", "seal", "note", "store", "destroy", "purge", "unlink"},
                      seg: Segment \cup {NoSegment}, read: Seq(Line), snap: Snapshot]
      /\ command.pc # "idle" => command.seg \in Segment
  BY DEF StepInv, TypeInv, JournalTypeOK, Placed
<1>1. CASE \/ \E t \in Segment :
                ReadSidecar(t) \/ CommandReseal(t) \/ CommandDestroy(t) \/ CommandPurge(t)
           \/ CommandLoad \/ RepairSidecar \/ ViewerDies \/ CommandDies
  <2>1. ASSUME NEW s \in Segment
        PROVE  Quiet(s) /\ UNCHANGED <<usb, late, overwritten>>
    BY <1>1, QuietUnlocked
  <2>2. raced \subseteq raced'
    BY <1>1 DEF ReadSidecar, CommandReseal, CommandDestroy, CommandPurge, CommandLoad, RepairSidecar,
                ViewerDies, CommandDies
  <2>3. 1 \in Segment
    BY JournalAssumption DEF Segment
  <2>4. Saved' = Saved
    BY <2>1, <2>3, SavedSame
  <2>5. \A s \in Segment : Lands(s)
    BY <2>1, <2>2, <2>4, QuietLands
  <2> QED BY <1>0, <2>5, LandsAll
<1>2. ASSUME NEW t \in Segment, CommandExport(t)
      PROVE  (\A s \in Segment : Leaves(s)) /\ WriterUndisturbed
  <2>1. CopyToUsb(t) /\ UNCHANGED <<file, snap, torn, raced, unlinked>>
    BY <1>2 DEF CommandExport
  <2>2. \A s \in Segment : Lands(s)
    BY <1>0, <2>1, CopyQuiet, CopySaves, QuietLands
  <2> QED BY <1>0, <2>2, LandsAll
<1>3. CASE CommandFooter
  <2>1. PICK a \in Segment : a = command.seg
    BY <1>0, <1>3 DEF CommandFooter
  <2>2. /\ raced' = RacedBy(a, command.read) /\ command.pc = "footer"
        /\ file' = [file EXCEPT ![a] = Append(@, Footer(Records(command.read)))]
        /\ UNCHANGED <<snap, torn, unlinked, copies>>
    BY <1>3, <2>1 DEF CommandFooter
  <2>3. /\ a \in raced \/ snap[a].present
        /\ a \in raced \/ a \in torn \/ file[a] # <<>>
        /\ ~Closed(command.read) /\ command.read \in Seq(Line)
    BY <1>0, <2>1, <2>2 DEF StepInv, CommandInv, CommandAt, CommandOK
  <2>4. \A s \in Segment : Lands(s)
    BY <1>0, <2>2, <2>3, FooterLands
  <2> QED BY <1>0, <2>4, LandsAll
<1>4. CASE CommandCutShort
  <2>1. PICK a \in Segment : a = command.seg
    BY <1>0, <1>4 DEF CommandCutShort
  <2>2. /\ raced' = RacedBy(a, command.read) /\ command.pc = "footer"
        /\ file' = [file EXCEPT ![a] = Append(@, Torn)] /\ torn' = torn \cup {a}
        /\ UNCHANGED <<snap, unlinked, copies>>
    BY <1>4, <2>1 DEF CommandCutShort
  <2>3. a \in raced \/ snap[a].present
    BY <2>1, <2>2 DEF StepInv, CommandInv, CommandAt, CommandOK
  <2>4. \A s \in Segment : Lands(s)
    BY <1>0, <2>2, <2>3, CutLands
  <2> QED BY <1>0, <2>4, LandsAll
<1>5. CASE CommandSealed
  <2>1. PICK a \in Segment : a = command.seg
    BY <1>0, <1>5 DEF CommandSealed
  <2>2. /\ FooterAtTail(a, command.read) /\ command.pc = "seal"
        /\ snap' = [snap EXCEPT ![a] = SealedSnapshot(a, command.snap)]
        /\ UNCHANGED <<file, torn, raced, unlinked, copies>>
    BY <1>5, <2>1 DEF CommandSealed
  <2>3. /\ \/ a \in raced
           \/ /\ command.snap.present
              /\ command.snap.receipts # {} => a \in unlinked \cup copied
        /\ command.snap \in Snapshot
    BY <1>0, <2>1, <2>2 DEF StepInv, CommandInv, CommandAt, CommandOK
  <2>4. \A s \in Segment : Lands(s)
    BY <1>0, <2>2, <2>3, SealLands
  <2> QED BY <1>0, <2>4, LandsAll
<1>6. CASE CommandStore
  <2>1. PICK a \in Segment : a = command.seg
    BY <1>0, <1>6 DEF CommandStore
  <2>2. PICK m \in Snapshot : m = command.snap
    BY <1>0
  <2>3. /\ command.pc = "store" /\ snap' = [snap EXCEPT ![a] = m]
        /\ raced' = IF Noted(a, command.read) = m THEN raced ELSE raced \cup {a}
        /\ UNCHANGED <<file, torn, unlinked, copies>>
    BY <1>6, <2>1, <2>2 DEF CommandStore
  <2>4. ASSUME a \notin raced'
        PROVE  /\ snap[a].present /\ m.present /\ m.sealed = snap[a].sealed
               /\ m.offset = snap[a].offset /\ m.pending = snap[a].pending
               /\ m.receipts # {} => a \in unlinked \cup copied
    <3>1. a \notin raced /\ m = Noted(a, command.read) /\ snap[a] \in Snapshot
      BY <1>0, <2>3, <2>4, SnapType DEF TypeInv
    <3>2. snap[a].present /\ a \in unlinked \cup copied
      BY <2>1, <2>3, <3>1 DEF StepInv, CommandInv, CommandAt, CommandOK
    <3> QED BY <3>1, <3>2 DEF Noted, Marked, Snapshot
  <2>5. \A s \in Segment : Lands(s)
    BY <1>0, <2>3, <2>4, MarkLands
  <2> QED BY <1>0, <2>5, LandsAll
<1>7. CASE PurgeFile
  <2>1. PICK a \in Segment : a = command.seg
    BY <1>0, <1>7 DEF PurgeFile
  <2>2. RemoveFile(a, writer) /\ UNCHANGED <<snap, torn>>
    BY <1>7, <2>1 DEF PurgeFile
  <2>3. (\A s \in Segment \ {a} : Lands(s)) /\ Leaves(a)
    BY <1>0, <2>2, RemovalLands
  <2>4. WriterUndisturbed
    BY <1>0, <2>2, <2>3, RemovalDisturbs
  <2> QED BY <2>3, <2>4 DEF Lands, Leaves
<1>8. CASE CommandDestroyFile
  <2>1. PICK a \in Segment : a = command.seg
    BY <1>0, <1>8 DEF CommandDestroyFile
  <2>2. RemoveFile(a, writer) /\ UNCHANGED <<snap, torn>>
    BY <1>8, <2>1 DEF CommandDestroyFile
  <2>3. (\A s \in Segment \ {a} : Lands(s)) /\ Leaves(a)
    BY <1>0, <2>2, RemovalLands
  <2>4. WriterUndisturbed
    BY <1>0, <2>2, <2>3, RemovalDisturbs
  <2> QED BY <2>3, <2>4 DEF Lands, Leaves
<1>9. CASE PurgeSidecar
  <2>1. PICK a \in Segment : a = command.seg
    BY <1>0, <1>9 DEF PurgeSidecar
  <2>2. /\ snap' = [snap EXCEPT ![a] = NoSnapshot] /\ unlinked' = unlinked \ {a}
        /\ raced' = RacedByRemoval(a, writer) /\ command.pc = "unlink"
        /\ UNCHANGED <<file, torn, copies>>
    BY <1>9, <2>1 DEF PurgeSidecar
  <2>3. (a \in raced \/ a \in unlinked) /\ raced \subseteq raced'
    BY <2>1, <2>2 DEF StepInv, CommandInv, CommandAt, CommandOK, RacedByRemoval
  <2>4. (\A s \in Segment \ {a} : Lands(s)) /\ Leaves(a)
    BY <1>0, <2>2, <2>3, UnlinkLands
  <2>5. WriterUndisturbed
    BY <1>0, <2>1, <2>2, <2>4, UnlinkDisturbs
  <2> QED BY <2>4, <2>5 DEF Lands, Leaves
<1> QED
  BY <1>1, <1>2, <1>3, <1>4, <1>5, <1>6, <1>7, <1>8, <1>9 DEF UnlockedStep

LEMMA LockedLands ==
  ASSUME StepInv, LockedStep
  PROVE  /\ \A s \in Segment : s \in raced' \/ OKAt(s)'
         /\ (\A e \in Event : ~OpenJournal(e)) => \A s \in Segment : Leaves(s)
         /\ CommandUndisturbed
<1>0. /\ TypeInv /\ SegInv /\ BothInv /\ writer \in Call
      /\ writer.pc # "idle" => writer.seg \in Segment
  BY DEF StepInv, TypeInv, JournalTypeOK, Placed
<1>a. ASSUME \A s \in Segment : Leaves(s), CommandUndisturbed
      PROVE  /\ \A s \in Segment : s \in raced' \/ OKAt(s)'
             /\ (\A e \in Event : ~OpenJournal(e)) => \A s \in Segment : Leaves(s)
             /\ CommandUndisturbed
  BY <1>a DEF Leaves
<1>b. ASSUME \A s \in Segment : Lands(s)
      PROVE  /\ \A s \in Segment : s \in raced' \/ OKAt(s)'
             /\ (\A e \in Event : ~OpenJournal(e)) => \A s \in Segment : Leaves(s)
             /\ CommandUndisturbed
  BY <1>0, <1>a, <1>b, LandsAll
<1>1. ASSUME NEW e \in Event, OpenJournal(e)
      PROVE  /\ \A s \in Segment : s \in raced' \/ OKAt(s)'
             /\ CommandUndisturbed
  <2>1. \A s \in Segment : s \in raced' \/ (OKAt(s)' /\ Onwards(s))
    BY <1>1, OpenLands
  <2>2. CASE command.pc = "idle"
    BY <2>1, <2>2 DEF CommandUndisturbed
  <2>3. CASE command.pc # "idle"
    <3>1. command.seg \in Segment
      BY <1>0, <2>3 DEF TypeInv, Placed
    <3> QED BY <2>1, <3>1 DEF CommandUndisturbed, Onwards
  <2> QED BY <2>2, <2>3, <2>1
<1>2. CASE \/ \E e \in Event : OpenRefused(e)
           \/ SealRefused \/ FooterNotAtTail \/ EndRefused \/ Crash \/ LoadSidecar
           \/ Reseal \/ EndCall \/ SealActiveSegment
           \/ \E t \in Segment : ReconcileSidecar(t) \/ ResealSegment(t) \/ MarkSegment(t)
  <2>1. ASSUME NEW s \in Segment
        PROVE  Quiet(s) /\ UNCHANGED <<raced, usb, late, overwritten>>
    BY <1>2, QuietLocked
  <2>2. 1 \in Segment
    BY JournalAssumption DEF Segment
  <2>3. Saved' = Saved /\ raced \subseteq raced'
    BY <2>1, <2>2, SavedSame
  <2>4. \A s \in Segment : Lands(s)
    BY <2>1, <2>3, QuietLands
  <2> QED BY <1>b, <2>4
<1>3. CASE WriteRecord
  BY <1>3, <1>b, RecordLands
<1>4. CASE ConfirmRecord
  BY <1>4, <1>b, ConfirmLands
<1>5. CASE RecordNotAtTail
  <2>1. \A s \in Segment : Settles(s)
    BY <1>5, NotAtTailSettles
  <2>2. \A s \in Segment : Leaves(s)
    BY <2>1 DEF Settles, Leaves
  <2>3. CommandUndisturbed
    <3>1. CASE command.pc = "idle"
      BY <3>1 DEF CommandUndisturbed
    <3>2. CASE command.pc # "idle"
      <4>1. command.seg \in Segment
        BY <1>0, <3>2 DEF TypeInv, Placed
      <4> QED BY <2>1, <4>1 DEF Settles, CommandUndisturbed
    <3> QED BY <3>1, <3>2
  <2> QED BY <1>a, <2>2, <2>3
<1>6. CASE PrepareSeal
  BY <1>6, <1>b, PrepareLands
<1>7. CASE WriteFooter
  <2>1. PICK a \in Segment : a = writer.seg
    BY <1>0, <1>7 DEF WriteFooter
  <2>2. /\ raced' = RacedBy(a, writer.read) /\ writer.pc = "footer"
        /\ file' = [file EXCEPT ![a] = Append(@, Footer(Records(writer.read)))]
        /\ UNCHANGED <<snap, torn, unlinked, copies>>
    BY <1>7, <2>1 DEF WriteFooter
  <2>3. /\ a \in raced \/ snap[a].present
        /\ a \in raced \/ a \in torn \/ file[a] # <<>>
        /\ ~Closed(writer.read) /\ writer.read \in Seq(Line)
    BY <1>0, <2>1, <2>2 DEF StepInv, WriterInv, WriterAt, WriterOK, Call
  <2>4. \A s \in Segment : Lands(s)
    BY <1>0, <2>2, <2>3, FooterLands
  <2> QED BY <1>b, <2>4
<1>8. CASE ConfirmSeal
  <2>1. PICK a \in Segment : a = writer.seg
    BY <1>0, <1>8 DEF ConfirmSeal
  <2>2. /\ FooterAtTail(a, writer.read) /\ writer.pc = "seal"
        /\ snap' = [snap EXCEPT ![a] = SealedSnapshot(a, writer.snap)]
        /\ UNCHANGED <<file, torn, raced, unlinked, copies>>
    BY <1>8, <2>1 DEF ConfirmSeal
  <2>3. /\ \/ a \in raced
           \/ /\ writer.snap.present
              /\ writer.snap.receipts # {} => a \in unlinked \cup copied
        /\ writer.snap \in Snapshot
    BY <1>0, <2>1, <2>2 DEF StepInv, WriterInv, WriterAt, WriterOK, Call
  <2>4. \A s \in Segment : Lands(s)
    BY <1>0, <2>2, <2>3, SealLands
  <2> QED BY <1>b, <2>4
<1>9. ASSUME NEW t \in Segment, ExportSegment(t) PROVE \A s \in Segment : Lands(s)
  <2>1. CopyToUsb(t) /\ snap' = Limbo /\ UNCHANGED <<file, torn, raced, unlinked>>
    BY <1>9 DEF ExportSegment
  <2> QED BY <1>0, <2>1, CopyQuiet, CopySaves, QuietLands
<1>10. CASE StoreSidecar
  <2>1. PICK a \in Segment : a = writer.seg
    BY <1>0, <1>10 DEF StoreSidecar
  <2>2. PICK m \in Snapshot : m = writer.snap
    BY <1>0 DEF Call
  <2>3. /\ writer.pc = "store" /\ snap' = [snap EXCEPT ![a] = m]
        /\ raced' = IF ToStore = m THEN raced ELSE raced \cup {a}
        /\ UNCHANGED <<file, torn, unlinked, copies>>
    BY <1>10, <2>1, <2>2 DEF StoreSidecar
  <2>4. ASSUME a \notin raced'
        PROVE  /\ snap[a].present /\ m.present /\ m.sealed = snap[a].sealed
               /\ m.offset = snap[a].offset /\ m.pending = snap[a].pending
               /\ m.receipts # {} => a \in unlinked \cup copied
    <3>1. a \notin raced /\ m = ToStore /\ snap[a] \in Snapshot /\ OKAt(a)
      BY <1>0, <2>3, <2>4, SnapType DEF TypeInv, SegInv
    <3>2. snap[a].present /\ (writer.touches = 2 => a \in unlinked \cup copied)
      BY <2>1, <2>3, <3>1 DEF StepInv, WriterInv, WriterAt, WriterOK
    <3>3. snap[a].receipts # {} => a \in unlinked \cup copied
      BY <3>1 DEF OKAt, SegmentOK
    <3>4. CASE writer.touches = 2
      <4>1. m = Noted(a, writer.read)
        BY <2>1, <3>1, <3>4 DEF ToStore
      <4> QED BY <3>1, <3>2, <3>4, <4>1 DEF Noted, Marked, Snapshot
    <3>5. CASE writer.touches # 2
      <4>1. m = Marked(a)
        BY <2>1, <3>1, <3>5 DEF ToStore
      <4> QED BY <3>1, <3>2, <3>3, <4>1 DEF Marked, Snapshot
    <3> QED BY <3>4, <3>5
  <2>5. \A s \in Segment : Lands(s)
    BY <1>0, <2>3, <2>4, MarkLands
  <2> QED BY <1>b, <2>5
<1>11. ASSUME NEW t \in Segment, DestroySegment(t)
       PROVE  (\A s \in Segment : Leaves(s)) /\ CommandUndisturbed
  <2>1. RemoveFile(t, command) /\ snap' = Limbo /\ UNCHANGED torn
    BY <1>11 DEF DestroySegment
  <2>2. (\A s \in Segment \ {t} : Lands(s)) /\ Leaves(t)
    BY <1>0, <2>1, RemovalLands
  <2>3. CommandUndisturbed
    BY <1>0, <2>1, <2>2, RemovalDisturbs
  <2> QED BY <2>2, <2>3 DEF Lands, Leaves
<1>12. CASE DestroySidecar
  <2>1. PICK a \in Segment : a = writer.seg
    BY <1>0, <1>12 DEF DestroySidecar
  <2>2. /\ snap' = [snap EXCEPT ![a] = NoSnapshot] /\ unlinked' = unlinked \ {a}
        /\ raced' = RacedByRemoval(a, command) /\ writer.pc = "unlink"
        /\ UNCHANGED <<file, torn, copies>>
    BY <1>12, <2>1 DEF DestroySidecar
  <2>3. (a \in raced \/ a \in unlinked) /\ raced \subseteq raced'
    BY <2>1, <2>2 DEF StepInv, WriterInv, WriterAt, WriterOK, RacedByRemoval
  <2>4. (\A s \in Segment \ {a} : Lands(s)) /\ Leaves(a)
    BY <1>0, <2>2, <2>3, UnlinkLands
  <2>5. CommandUndisturbed
    BY <1>0, <2>1, <2>2, <2>4, UnlinkDisturbs
  <2>6. \A s \in Segment : Leaves(s)
    BY <2>4 DEF Lands, Leaves
  <2> QED BY <1>a, <2>5, <2>6
<1>13. CASE CutShort
  <2>1. PICK a \in Segment : a = writer.seg
    BY <1>0, <1>13 DEF CutShort
  <2>2. /\ raced' = RacedBy(a, writer.read) /\ writer.pc \in {"write", "footer"}
        /\ file' = [file EXCEPT ![a] = Append(@, Torn)] /\ torn' = torn \cup {a}
        /\ UNCHANGED <<snap, unlinked, copies>>
    BY <1>13, <2>1 DEF CutShort
  <2>3. a \in raced \/ snap[a].present
    BY <2>1, <2>2 DEF StepInv, WriterInv, WriterAt, WriterOK
  <2>4. \A s \in Segment : Lands(s)
    BY <1>0, <2>2, <2>3, CutLands
  <2> QED BY <1>b, <2>4
<1>14. CASE \E t \in Segment : ExportSegment(t)
  BY <1>9, <1>14, <1>b
<1>15. CASE \E t \in Segment : DestroySegment(t)
  BY <1>11, <1>15, <1>a
<1>16. CASE \E e \in Event : OpenJournal(e)
  BY <1>1, <1>16
<1> QED
  BY <1>2, <1>3, <1>4, <1>5, <1>6, <1>7, <1>8, <1>10, <1>12, <1>13, <1>14, <1>15, <1>16
     DEF LockedStep

LEMMA Monotone ==
  ASSUME JournalNext
  PROVE  raced \subseteq raced' /\ torn \subseteq torn' /\ destroyed \subseteq destroyed'
<1>1. CASE LockedStep
  <2>1. ASSUME NEW e \in Event, OpenJournal(e) \/ OpenRefused(e)
        PROVE  UNCHANGED <<raced, torn, destroyed>>
    BY <2>1 DEF OpenJournal, OpenRefused
  <2>2. CASE WriteRecord \/ WriteFooter \/ CutShort
    BY <2>2 DEF WriteRecord, WriteFooter, CutShort, RacedBy
  <2>3. CASE \/ ConfirmRecord \/ RecordNotAtTail \/ PrepareSeal \/ Reseal \/ SealRefused
             \/ ConfirmSeal \/ FooterNotAtTail
    BY <2>3 DEF ConfirmRecord, RecordNotAtTail, PrepareSeal, Reseal, SealRefused, ConfirmSeal,
                FooterNotAtTail
  <2>4. CASE EndCall \/ EndRefused \/ LoadSidecar \/ SealActiveSegment \/ Crash
    BY <2>4 DEF EndCall, EndRefused, LoadSidecar, SealActiveSegment, Crash
  <2>5. CASE StoreSidecar \/ DestroySidecar
    BY <2>5 DEF StoreSidecar, DestroySidecar, RacedByRemoval
  <2>6. ASSUME NEW s \in Segment,
               ReconcileSidecar(s) \/ ResealSegment(s) \/ MarkSegment(s) \/ ExportSegment(s)
        PROVE  UNCHANGED <<raced, torn, destroyed>>
    BY <2>6 DEF ReconcileSidecar, ResealSegment, MarkSegment, ExportSegment
  <2>7. ASSUME NEW s \in Segment, DestroySegment(s)
        PROVE  raced \subseteq raced' /\ torn \subseteq torn' /\ destroyed \subseteq destroyed'
    BY <2>7 DEF DestroySegment, RemoveFile, RacedByRemoval
  <2> QED BY <1>1, <2>1, <2>2, <2>3, <2>4, <2>5, <2>6, <2>7 DEF LockedStep
<1>2. CASE UnlockedStep
  <2>1. ASSUME NEW s \in Segment,
               \/ ReadSidecar(s) \/ CommandReseal(s) \/ CommandExport(s)
               \/ CommandDestroy(s) \/ CommandPurge(s)
        PROVE  UNCHANGED <<raced, torn, destroyed>>
    BY <2>1 DEF ReadSidecar, CommandReseal, CommandExport, CommandDestroy, CommandPurge
  <2>2. CASE PurgeFile
    BY <2>2 DEF PurgeFile, RemoveFile, RacedByRemoval
  <2>3. CASE CommandDestroyFile
    BY <2>3 DEF CommandDestroyFile, RemoveFile, RacedByRemoval
  <2>4. CASE CommandLoad \/ CommandStore \/ RepairSidecar \/ ViewerDies \/ CommandDies
    BY <2>4 DEF CommandLoad, CommandStore, RepairSidecar, ViewerDies, CommandDies
  <2>5. CASE CommandFooter \/ CommandCutShort \/ CommandSealed \/ PurgeSidecar
    BY <2>5 DEF CommandFooter, CommandCutShort, CommandSealed, PurgeSidecar, RacedBy,
                RacedByRemoval
  <2> QED BY <1>2, <2>1, <2>2, <2>3, <2>4, <2>5 DEF UnlockedStep
<1> QED BY <1>1, <1>2 DEF JournalNext

\* The lock keeps the holder's own state from the others.
LEMMA UnlockedKeepsWriter ==
  ASSUME UnlockedStep PROVE UNCHANGED <<writer, calls, acked>>
<1>1. ASSUME NEW s \in Segment,
             \/ ReadSidecar(s) \/ CommandReseal(s) \/ CommandPurge(s)
             \/ CommandExport(s) \/ CommandDestroy(s)
      PROVE  UNCHANGED <<writer, calls, acked>>
  BY <1>1 DEF ReadSidecar, CommandReseal, CommandPurge, CommandExport, CommandDestroy
<1>2. CASE \/ CommandLoad \/ CommandStore \/ CommandDestroyFile \/ PurgeFile
           \/ RepairSidecar \/ ViewerDies
  BY <1>2 DEF CommandLoad, CommandStore, CommandDestroyFile, PurgeFile, RepairSidecar, ViewerDies
<1>3. CASE CommandFooter \/ CommandCutShort \/ CommandSealed \/ PurgeSidecar \/ CommandDies
  BY <1>3 DEF CommandFooter, CommandCutShort, CommandSealed, PurgeSidecar, CommandDies
<1> QED BY <1>1, <1>2, <1>3 DEF UnlockedStep

LEMMA LockedKeepsOthers ==
  ASSUME LockedStep PROVE UNCHANGED <<command, viewer>>
<1>1. ASSUME NEW e \in Event, OpenJournal(e) \/ OpenRefused(e)
      PROVE  UNCHANGED <<command, viewer>>
  BY <1>1 DEF OpenJournal, OpenRefused
<1>2. CASE \/ WriteRecord \/ ConfirmRecord \/ RecordNotAtTail \/ PrepareSeal \/ Reseal
           \/ SealRefused \/ WriteFooter
  BY <1>2 DEF WriteRecord, ConfirmRecord, RecordNotAtTail, PrepareSeal, Reseal, SealRefused,
              WriteFooter
<1>3. CASE \/ ConfirmSeal \/ FooterNotAtTail \/ EndCall \/ EndRefused \/ LoadSidecar
           \/ StoreSidecar \/ DestroySidecar
  BY <1>3 DEF ConfirmSeal, FooterNotAtTail, EndCall, EndRefused, LoadSidecar, StoreSidecar,
              DestroySidecar
<1>4. CASE SealActiveSegment \/ CutShort \/ Crash
  BY <1>4 DEF SealActiveSegment, CutShort, Crash
<1>5. ASSUME NEW s \in Segment,
             \/ ReconcileSidecar(s) \/ ResealSegment(s) \/ MarkSegment(s)
             \/ ExportSegment(s) \/ DestroySegment(s)
      PROVE  UNCHANGED <<command, viewer>>
  BY <1>5 DEF ReconcileSidecar, ResealSegment, MarkSegment, ExportSegment, DestroySegment
<1> QED BY <1>1, <1>2, <1>3, <1>4, <1>5 DEF LockedStep

----------------------------------------------------------------------------
(* The three actors *)

LEMMA OnwardWriter ==
  ASSUME NEW w, NEW f \in Seq(Line), NEW g \in Seq(Line), NEW n \in Snapshot,
         NEW m \in Snapshot, w.snap \in Snapshot,
         NEW T, NEW U, NEW C, NEW T2, NEW U2, NEW C2,
         WriterOK(w, f, n, T, U, C), Onward(f, g, n, m),
         w.seg \in T => w.seg \in T2, w.seg \in U => w.seg \in U2, w.seg \in C => w.seg \in C2
  PROVE  WriterOK(w, g, m, T2, U2, C2)
<1>1. /\ ValidLength(f) \in Nat /\ ValidLength(g) \in Nat /\ w.snap.offset \in Nat
      /\ ValidLength(f) <= ValidLength(g)
  BY LengthBounds DEF Snapshot, Onward, Grows
<1>2. w.snap.offset <= ValidLength(f) => w.snap.offset <= ValidLength(g)
  BY <1>1
<1>3. w.pc = "write" /\ Healthy(g) /\ ~Closed(g) => ~m.sealed
  BY DEF WriterOK, Onward, Grows
<1> QED BY <1>2, <1>3 DEF WriterOK, Onward, Grows

LEMMA WriterKept ==
  ASSUME TypeInv, TypeInv', WriterInv, AckInv, WriterUndisturbed, UNCHANGED writer,
         raced \subseteq raced', destroyed \subseteq destroyed'
  PROVE  WriterInv' /\ AckInv'
<1>1. CASE writer.pc = "idle" \/ writer.seg \in raced'
  BY <1>1 DEF WriterInv, AckInv
<1>2. CASE /\ writer.pc = "unlink" /\ writer.seg \in unlinked' /\ writer.seg \notin raced'
  BY <1>2 DEF WriterInv, WriterAt, WriterOK, AckInv, AckOK
<1>3. CASE Onwards(writer.seg) /\ writer.pc # "idle" /\ writer.seg \notin raced'
  <2>1. PICK a \in Segment : a = writer.seg
    BY <1>3 DEF TypeInv, Placed
  <2>2. PICK w \in Call : w = writer
    BY DEF TypeInv, JournalTypeOK
  <2>3. /\ w.seg = a /\ writer = w /\ writer' = w
        /\ file[a] \in Seq(Line) /\ snap[a] \in Snapshot /\ w.snap \in Snapshot
        /\ file'[a] \in Seq(Line) /\ snap'[a] \in Snapshot
    BY <2>1, <2>2 DEF TypeInv, JournalTypeOK, Call
  <2>4. WriterOK(w, file[a], snap[a], torn, unlinked, copied)
    BY <1>3, <2>3 DEF WriterInv, WriterAt
  <2>5. /\ Onward(file[a], file'[a], snap[a], snap'[a])
        /\ a \in torn => a \in torn'
        /\ a \in unlinked => a \in unlinked'
        /\ a \in copied => a \in copied'
    BY <1>3, <2>1 DEF Onwards, Stays
  <2>6. WriterOK(w, file'[a], snap'[a], torn', unlinked', copied')
    BY <2>3, <2>4, <2>5, OnwardWriter
  <2>7. WriterInv'
    BY <2>3, <2>6 DEF WriterInv, WriterAt
  <2>8. AckInv'
    <3>1. CASE w.event = NoEvent
      BY <2>3, <3>1 DEF AckInv
    <3>2. CASE w.event # NoEvent
      <4>1. AckOK(w)
        BY <1>3, <2>3, <3>2 DEF AckInv
      <4>2. /\ Kept(a, w.event) => Kept(a, w.event)'
            /\ ~Healthy(file[a]) => ~Healthy(file'[a])
            /\ ~Healthy(file[a]) /\ snap[a].offset > ValidLength(file[a])
                 => snap'[a].offset > ValidLength(file'[a])
        BY <2>5 DEF Kept, Onward, Grows
      <4>3. AckOK(w)'
        BY <2>3, <4>1, <4>2 DEF AckOK
      <4> QED BY <2>3, <4>3 DEF AckInv
    <3> QED BY <3>1, <3>2
  <2> QED BY <2>7, <2>8
<1> QED BY <1>1, <1>2, <1>3 DEF WriterUndisturbed

LEMMA CommandKept ==
  ASSUME TypeInv, CommandInv, CommandUndisturbed, UNCHANGED command, raced \subseteq raced'
  PROVE  CommandInv'
<1>1. CASE command.pc = "idle" \/ command.seg \in raced'
  BY <1>1 DEF CommandInv
<1>2. CASE command.pc = "unlink" /\ command.seg \in unlinked' /\ command.seg \notin raced'
  BY <1>2 DEF CommandInv, CommandAt, CommandOK
<1>3. CASE Stays(command.seg) /\ command.pc # "idle" /\ command.seg \notin raced'
  <2>1. PICK c : c = command
    OBVIOUS
  <2>2. CommandOK(c, file[c.seg], snap[c.seg], torn, unlinked, copied)
    BY <1>3, <2>1 DEF CommandInv, CommandAt
  <2>3. CommandOK(c, file'[c.seg], snap'[c.seg], torn', unlinked', copied')
    BY <1>3, <2>1, <2>2 DEF CommandOK, Stays, Grows
  <2> QED BY <2>1, <2>3 DEF CommandInv, CommandAt
<1> QED BY <1>1, <1>2, <1>3 DEF CommandUndisturbed

\* The next segment has no file, so what is opened is not closed.
LEMMA NextIsNew ==
  NextSegment \in Segment => NextSegment \notin Existing /\ \A s \in Existing : s < NextSegment
<1>1. CASE Existing = {}
  BY <1>1
<1>2. CASE Existing # {}
  <2>1. Existing \subseteq Segment
    BY DEF Existing
  <2>2. Largest(Existing) \in Existing /\ \A t \in Existing : t <= Largest(Existing)
    BY <1>2, <2>1, LargestSegment
  <2>3. NextSegment = Largest(Existing) + 1
    BY <1>2 DEF NextSegment
  <2>4. \A t \in Existing : t \in Nat
    BY <2>1, JournalAssumption DEF Segment
  <2>5. \A s \in Existing : s < NextSegment
    BY <2>2, <2>3, <2>4
  <2> QED BY <2>4, <2>5
<1> QED BY <1>1, <1>2

LEMMA TargetIsOpen == ASSUME Target \in Segment PROVE ~Closed(file[Target])
<1>1. CASE Closed(file[FirstChoice])
  <2>1. Target = NextSegment
    BY <1>1 DEF Target
  <2>2. Target \notin Existing
    BY <2>1, NextIsNew
  <2>3. file[Target] = <<>>
    BY <2>2 DEF Existing
  <2> QED BY <2>3, EmptyFile
<1>2. CASE ~Closed(file[FirstChoice])
  BY <1>2 DEF Target
<1> QED BY <1>1, <1>2

LEMMA WriterNext ==
  ASSUME NEW w, NEW a, writer' = w, w.seg = a,
         w.pc \in {"write", "footer"} => ~Closed(w.read),
         a \in raced' \/ WriterOK(w, file'[a], snap'[a], torn', unlinked', copied')
  PROVE  WriterInv'
BY DEF WriterInv, WriterAt

LEMMA WriterSteps ==
  ASSUME StepInv, TypeInv', LockedStep PROVE WriterInv'
<1>0. /\ TypeInv /\ SegInv /\ writer \in Call
      /\ writer.pc # "idle" => writer.seg \in Segment
      /\ \A s \in Segment : s \in raced' \/ OKAt(s)'
      /\ file \in [Segment -> Seq(Line)] /\ snap \in [Segment -> Snapshot]
  BY LockedLands DEF StepInv, TypeInv, JournalTypeOK, Placed
<1>i. writer' = NoCall => WriterInv'
  BY DEF WriterInv, NoCall
<1>w. PICK w \in Call : w = writer
  BY <1>0
<1>1. ASSUME NEW e \in Event, OpenJournal(e) PROVE WriterInv'
  <2>1. PICK a \in Segment : a = Target
    BY <1>1 DEF OpenJournal
  <2>2. PICK m \in Snapshot : m = Reconciled(a)
    BY <1>0, SnapType DEF TypeInv
  <2>3. /\ writer' = [NoCall EXCEPT !.pc = "write", !.seg = a, !.event = e,
                                    !.read = file[a], !.snap = m]
        /\ snap'[a] = m /\ UNCHANGED <<file, torn, raced, unlinked, copied>>
    BY <1>0, <1>1, <2>1, <2>2 DEF OpenJournal, copies
  <2>4. PICK v : v = [NoCall EXCEPT !.pc = "write", !.seg = a, !.event = e,
                                    !.read = file[a], !.snap = m]
    OBVIOUS
  <2>5. writer' = v /\ v.pc = "write" /\ v.seg = a /\ v.read = file[a] /\ v.snap = m
    BY <2>3, <2>4 DEF NoCall
  <2>6. ~Closed(file[a])
    BY <2>1, TargetIsOpen
  <2>7. /\ m.present /\ m.sealed = Closed(file[a]) /\ m.offset = ValidLength(file[a])
        /\ ValidLength(file[a]) <= ValidLength(file[a])
    <3>1. ValidLength(file[a]) \in Nat
      BY <1>0, LengthBounds
    <3> QED BY <2>2, <3>1 DEF Reconciled, Repaired
  <2>8. a \notin raced' => SegmentOK(a, file'[a], m, torn', unlinked', copied', Saved')
    BY <1>0, <2>3 DEF OKAt
  <2>9. a \notin raced' => WriterOK(v, file'[a], snap'[a], torn', unlinked', copied')
    BY <2>3, <2>5, <2>6, <2>7, <2>8 DEF WriterOK, SegmentOK
  <2> QED BY <2>5, <2>6, <2>9, WriterNext
<1>2. CASE WriteRecord
  <2>1. PICK a \in Segment : a = writer.seg
    BY <1>0, <1>2 DEF WriteRecord
  <2>2. PICK v : v = [w EXCEPT !.pc = "check"]
    OBVIOUS
  <2>3. /\ writer' = v /\ v.pc = "check" /\ v.seg = a /\ v.snap = w.snap /\ w.pc = "write"
        /\ raced \subseteq raced' /\ UNCHANGED <<snap, torn, unlinked, copied>>
        /\ w.snap \in Snapshot
    BY <1>2, <1>w, <2>1, <2>2 DEF WriteRecord, Call, RacedBy
  <2>4. Grows(file[a], file'[a]) /\ file'[a] # <<>> /\ file'[a] \in Seq(Line)
    <3>1. /\ file[a] \in Seq(Line) /\ Records(w.read) \in Seq(Event) /\ w.event \in Event
      BY <1>0, <1>2, <1>w, RecordsType DEF WriteRecord, TypeInv, Placed, Call
    <3>2. IsLonger(file'[a], file[a], EventLine(Append(Records(w.read), w.event)))
      BY <1>0, <1>2, <1>w, <2>1 DEF IsLonger, WriteRecord, NewLine
    <3> QED BY <3>1, <3>2, EventAppended
  <2>5. ASSUME a \notin raced' PROVE WriterOK(v, file'[a], snap'[a], torn', unlinked', copied')
    <3>1. WriterOK(w, file[a], snap[a], torn, unlinked, copied) /\ w.seg = a
      BY <1>w, <2>1, <2>3, <2>5 DEF StepInv, WriterInv, WriterAt
    <3>2. w.snap.offset <= ValidLength(file[a]) => w.snap.offset <= ValidLength(file'[a])
      <4>1. /\ ValidLength(file[a]) \in Nat /\ ValidLength(file'[a]) \in Nat
            /\ w.snap.offset \in Nat /\ ValidLength(file[a]) <= ValidLength(file'[a])
        BY <1>0, <2>3, <2>4, LengthBounds DEF Snapshot, Grows
      <4> QED BY <4>1
    <3> QED BY <2>3, <2>4, <3>1, <3>2 DEF WriterOK
  <2> QED BY <2>3, <2>5, WriterNext
<1>3. CASE ConfirmRecord
  <2>1. PICK a \in Segment : a = writer.seg
    BY <1>0, <1>3 DEF ConfirmRecord
  <2>2. PICK v : v = writer'
    OBVIOUS
  <2>3. /\ writer' = v /\ v.pc \in {"prepare", "view"} /\ v.seg = a /\ w.pc = "check"
        /\ file[a] # <<>> /\ UNCHANGED <<file, raced>>
        /\ snap'[a] = [w.snap EXCEPT !.offset = Len(file[a])]
    BY <1>0, <1>3, <1>w, <2>1, <2>2 DEF ConfirmRecord, Call
  <2>4. ASSUME a \notin raced' PROVE snap'[a].present
    <3>1. w.snap.present /\ w.snap \in Snapshot
      BY <1>w, <2>1, <2>3, <2>4 DEF StepInv, WriterInv, WriterAt, WriterOK, Call
    <3> QED BY <2>3, <3>1 DEF Snapshot
  <2>5. a \notin raced' => WriterOK(v, file'[a], snap'[a], torn', unlinked', copied')
    BY <2>3, <2>4 DEF WriterOK
  <2> QED BY <2>3, <2>5, WriterNext
<1>4. CASE PrepareSeal
  <2>1. PICK a \in Segment : a = writer.seg
    BY <1>0, <1>4 DEF PrepareSeal
  <2>2. PICK v : v = [w EXCEPT !.pc = "reseal"]
    OBVIOUS
  <2>3. /\ writer' = v /\ v.pc = "reseal" /\ v.seg = a /\ w.pc = "prepare"
        /\ UNCHANGED <<file, raced, torn>>
    BY <1>4, <1>w, <2>1, <2>2 DEF PrepareSeal, Call
  <2>4. snap'[a].present
    BY <1>0, <1>4, <2>1 DEF PrepareSeal, Reconciled, Repaired
  <2>5. ASSUME a \notin raced' PROVE a \notin torn => file[a] # <<>>
    BY <1>w, <2>1, <2>3, <2>5 DEF StepInv, WriterInv, WriterAt, WriterOK
  <2>6. a \notin raced' => WriterOK(v, file'[a], snap'[a], torn', unlinked', copied')
    BY <2>3, <2>4, <2>5 DEF WriterOK
  <2> QED BY <2>3, <2>6, WriterNext
<1>5. CASE Reseal
  <2>1. PICK a \in Segment : a = writer.seg
    BY <1>0, <1>5 DEF Reseal
  <2>2. PICK m \in Snapshot : m = Reconciled(a)
    BY <1>0, SnapType DEF TypeInv
  <2>3. PICK v : v = writer'
    OBVIOUS
  <2>4. /\ snap'[a] = m /\ m.present /\ w.pc = "reseal" /\ writer' = v /\ v.seg = a
        /\ UNCHANGED <<file, raced, torn, unlinked, copied>>
        /\ \/ v.pc = "viewActive"
           \/ m.pending # NoFooter /\ v.pc = "footer" /\ v.read = file[a] /\ v.snap = m
    <3>1. /\ snap'[a] = m /\ m.present /\ w.pc = "reseal"
          /\ UNCHANGED <<file, raced, torn, unlinked, copied>>
      BY <1>0, <1>5, <1>w, <2>1, <2>2 DEF Reseal, Reconciled, Repaired, copies
    <3>2. writer' = IF m.pending = NoFooter THEN [w EXCEPT !.pc = "viewActive"]
                    ELSE [w EXCEPT !.pc = "footer", !.read = file[a], !.snap = m]
      BY <1>5, <1>w, <2>1, <2>2 DEF Reseal
    <3> QED BY <1>w, <2>1, <2>3, <3>1, <3>2 DEF Call
  <2>5. m.pending # NoFooter => ~Closed(file[a])
    BY <2>2 DEF Reconciled, Repaired
  <2>6. ASSUME a \notin raced' PROVE WriterOK(v, file'[a], snap'[a], torn', unlinked', copied')
    <3>1. SegmentOK(a, file'[a], m, torn', unlinked', copied', Saved')
      BY <1>0, <2>4, <2>6 DEF OKAt
    <3>2. a \notin torn => file[a] # <<>>
      BY <1>w, <2>1, <2>4, <2>6 DEF StepInv, WriterInv, WriterAt, WriterOK
    <3> QED BY <2>4, <3>1, <3>2 DEF WriterOK, SegmentOK
  <2> QED BY <2>4, <2>5, <2>6, WriterNext
<1>6. CASE WriteFooter
  <2>1. PICK a \in Segment : a = writer.seg
    BY <1>0, <1>6 DEF WriteFooter
  <2>2. PICK v : v = [w EXCEPT !.pc = "seal"]
    OBVIOUS
  <2>3. /\ writer' = v /\ v.pc = "seal" /\ v.seg = a /\ v.snap = w.snap /\ w.pc = "footer"
        /\ raced \subseteq raced' /\ UNCHANGED <<snap, torn, unlinked, copied>>
    BY <1>6, <1>w, <2>1, <2>2 DEF WriteFooter, Call, RacedBy, copies
  <2>4. file'[a] # <<>>
    <3>1. file[a] \in Seq(Line) /\ Records(w.read) \in Seq(Event)
      BY <1>0, <1>w, RecordsType DEF Call
    <3>2. IsLonger(file'[a], file[a], Footer(Records(w.read)))
      BY <1>0, <1>6, <1>w, <2>1 DEF IsLonger, WriteFooter
    <3> QED BY <3>1, <3>2, FooterAppended
  <2>5. ASSUME a \notin raced' PROVE WriterOK(v, file'[a], snap'[a], torn', unlinked', copied')
    <3>1. WriterOK(w, file[a], snap[a], torn, unlinked, copied) /\ w.seg = a
      BY <1>w, <2>1, <2>3, <2>5 DEF StepInv, WriterInv, WriterAt
    <3> QED BY <2>3, <2>4, <3>1 DEF WriterOK
  <2> QED BY <2>3, <2>5, WriterNext
<1>7. CASE ConfirmSeal
  <2>1. PICK a \in Segment : a = writer.seg
    BY <1>0, <1>7 DEF ConfirmSeal
  <2>2. PICK v : v = [w EXCEPT !.pc = "viewActive"]
    OBVIOUS
  <2>3. /\ writer' = v /\ v.pc = "viewActive" /\ v.seg = a /\ w.pc = "seal"
        /\ UNCHANGED <<file, raced>> /\ snap'[a] = SealedSnapshot(a, w.snap)
    BY <1>0, <1>7, <1>w, <2>1, <2>2 DEF ConfirmSeal, Call
  <2>4. ASSUME a \notin raced' PROVE snap'[a].present
    <3>1. w.snap.present /\ w.snap \in Snapshot
      BY <1>w, <2>1, <2>3, <2>4 DEF StepInv, WriterInv, WriterAt, WriterOK, Call
    <3> QED BY <2>3, <3>1 DEF Snapshot, SealedSnapshot
  <2>5. a \notin raced' => WriterOK(v, file'[a], snap'[a], torn', unlinked', copied')
    BY <2>3, <2>4 DEF WriterOK
  <2> QED BY <2>3, <2>5, WriterNext
<1>8. CASE \/ RecordNotAtTail \/ SealRefused \/ FooterNotAtTail \/ EndCall \/ EndRefused
           \/ DestroySidecar \/ CutShort \/ Crash
  BY <1>8, <1>i DEF RecordNotAtTail, SealRefused, FooterNotAtTail, EndCall, EndRefused,
                    DestroySidecar, CutShort, Crash
<1>9. ASSUME NEW x \in Segment \cup Event, OpenRefused(x) \/ ReconcileSidecar(x)
      PROVE  WriterInv'
  BY <1>9 DEF WriterInv, OpenRefused, ReconcileSidecar
<1>10. ASSUME NEW a \in Segment, ResealSegment(a) \/ MarkSegment(a) PROVE WriterInv'
  <2>1. PICK v : v = writer'
    OBVIOUS
  <2>2. /\ writer' = v /\ v.seg = a
        /\ v.pc = "reseal" \/ (v.pc = "mark" /\ v.touches = 1)
    <3>1. CASE ResealSegment(a)
      BY <2>1, <3>1 DEF ResealSegment, Locked, NoCall
    <3>2. CASE MarkSegment(a)
      BY <2>1, <3>2 DEF MarkSegment, Locked, NoCall
    <3> QED BY <1>10, <3>1, <3>2
  <2>3. file'[a] # <<>>
    BY <1>10 DEF ResealSegment, MarkSegment, Historical, Existing
  <2>4. a \notin raced' => snap'[a].present
    BY <1>0, <2>3 DEF OKAt, SegmentOK
  <2>5. a \notin raced' => WriterOK(v, file'[a], snap'[a], torn', unlinked', copied')
    BY <2>2, <2>3, <2>4 DEF WriterOK
  <2> QED BY <2>2, <2>5, WriterNext
<1>11. ASSUME NEW a \in Segment, ExportSegment(a) PROVE WriterInv'
  <2>1. PICK v : v = writer'
    OBVIOUS
  <2>2. writer' = v /\ v.seg = a /\ v.pc = "mark" /\ a \in copied'
    BY <1>11, <2>1 DEF ExportSegment, Locked, NoCall, CopyToUsb
  <2>3. file'[a] # <<>>
    BY <1>11 DEF ExportSegment, Historical, Existing
  <2>4. a \notin raced' => snap'[a].present
    BY <1>0, <2>3 DEF OKAt, SegmentOK
  <2>5. a \notin raced' => WriterOK(v, file'[a], snap'[a], torn', unlinked', copied')
    BY <2>2, <2>3, <2>4 DEF WriterOK
  <2> QED BY <2>2, <2>5, WriterNext
<1>12. ASSUME NEW a \in Segment, DestroySegment(a) PROVE WriterInv'
  <2>1. PICK v : v = writer'
    OBVIOUS
  <2>2. writer' = v /\ v.seg = a /\ v.pc = "unlink" /\ a \in unlinked'
    BY <1>12, <2>1 DEF DestroySegment, Locked, NoCall, RemoveFile
  <2>3. WriterOK(v, file'[a], snap'[a], torn', unlinked', copied')
    BY <2>2 DEF WriterOK
  <2> QED BY <2>2, <2>3, WriterNext
<1>13. CASE LoadSidecar
  <2>1. PICK a \in Segment : a = writer.seg
    BY <1>0, <1>13 DEF LoadSidecar
  <2>2. PICK v : v = writer'
    OBVIOUS
  <2>3. /\ writer' = v /\ v.pc = "store" /\ v.seg = a /\ v.touches = w.touches /\ w.pc = "mark"
        /\ UNCHANGED <<file, snap, torn, raced, unlinked, copied>>
    BY <1>13, <1>w, <2>1, <2>2 DEF LoadSidecar, Call, copies
  <2>4. ASSUME a \notin raced' PROVE WriterOK(v, file'[a], snap'[a], torn', unlinked', copied')
    <3>1. WriterOK(w, file[a], snap[a], torn, unlinked, copied) /\ w.seg = a
      BY <1>w, <2>1, <2>3, <2>4 DEF StepInv, WriterInv, WriterAt
    <3> QED BY <2>3, <3>1 DEF WriterOK
  <2> QED BY <2>3, <2>4, WriterNext
<1>14. CASE StoreSidecar
  <2>1. CASE writer.touches = 0
    BY <1>14, <1>i, <2>1 DEF StoreSidecar
  <2>2. CASE writer.touches # 0
    <3>1. PICK a \in Segment : a = writer.seg
      BY <1>0, <1>14 DEF StoreSidecar
    <3>2. PICK v : v = writer'
      OBVIOUS
    <3>3. w.touches \in 0..2
      BY DEF Call
    <3>4. w.touches - 1 # 2
      BY <3>3
    <3>5. /\ writer' = v /\ v.pc = "mark" /\ v.seg = a /\ v.touches = w.touches - 1
          /\ w.pc = "store" /\ snap'[a] = w.snap
          /\ raced' = IF ToStore = w.snap THEN raced ELSE raced \cup {a}
      BY <1>0, <1>14, <1>w, <2>2, <3>1, <3>2 DEF StoreSidecar, Locked, NoCall
    <3>6. ASSUME a \notin raced' PROVE snap'[a].present
      <4>1. snap'[a] = ToStore /\ snap[a] \in Snapshot
        BY <1>0, <3>5, <3>6
      <4> QED BY <4>1, <3>1 DEF ToStore, Noted, Marked, Snapshot
    <3>7. a \notin raced' => WriterOK(v, file'[a], snap'[a], torn', unlinked', copied')
      BY <3>4, <3>5, <3>6 DEF WriterOK
    <3> QED BY <3>5, <3>7, WriterNext
  <2> QED BY <2>1, <2>2
<1>15. CASE SealActiveSegment
  <2>1. PICK a \in Segment : a = ActiveSegment
    BY <1>15, ActiveKnown DEF SealActiveSegment
  <2>2. PICK v : v = writer'
    OBVIOUS
  <2>3. /\ writer' = v /\ v.pc = "prepare" /\ v.seg = a
        /\ Reconcilable(a) /\ RotationAllowed(a) /\ snap' = Limbo
        /\ UNCHANGED <<file, torn, raced, unlinked, copied>>
    BY <1>15, <2>1, <2>2 DEF SealActiveSegment, Locked, NoCall, copies
  <2>4. snap'[a].present
    <3>1. snap'[a] = Reconciled(a)
      BY <1>0, <1>15, <2>1, <2>3 DEF Limbo, SealActiveSegment
    <3> QED BY <3>1 DEF Reconciled, Repaired
  <2>5. ASSUME a \notin raced', a \notin torn PROVE file[a] # <<>>
    <3> SUFFICES ASSUME file[a] = <<>> PROVE FALSE
      OBVIOUS
    <3>1. ~Full(file[a])
      <4>1. {i \in DOMAIN file[a] : file[a][i].kind # "torn"} = {}
        OBVIOUS
      <4>2. Cardinality({}) = 0
        BY FS_EmptySet
      <4> QED BY <4>1, <4>2, JournalAssumption DEF Full
    <3>2. Records(file[a]) = <<>>
      BY EmptyFile
    <3>3. Reconciled(a).pending # NoFooter
      BY <2>3, <3>1 DEF RotationAllowed
    <3>4. snap[a].pending = <<>>
      BY <3>2, <3>3 DEF Reconciled, Repaired
    <3>5. snap[a].pending # <<>>
      BY <1>0, <2>3, <2>5 DEF SegInv, OKAt, SegmentOK
    <3> QED BY <3>4, <3>5
  <2>6. a \notin raced' => WriterOK(v, file'[a], snap'[a], torn', unlinked', copied')
    BY <2>3, <2>4, <2>5 DEF WriterOK
  <2> QED BY <2>3, <2>6, WriterNext
<1> QED
  BY <1>1, <1>2, <1>3, <1>4, <1>5, <1>6, <1>7, <1>8, <1>9, <1>10, <1>11, <1>12, <1>13, <1>14,
     <1>15 DEF LockedStep

LEMMA CommandNext ==
  ASSUME NEW c, NEW a, command' = c, c.seg = a,
         c.pc = "footer" => ~Closed(c.read),
         a \in raced' \/ CommandOK(c, file'[a], snap'[a], torn', unlinked', copied')
  PROVE  CommandInv'
BY DEF CommandInv, CommandAt

LEMMA CommandSteps ==
  ASSUME StepInv, UnlockedStep PROVE CommandInv'
<1>0. /\ TypeInv /\ SegInv /\ CommandInv
      /\ command.pc # "idle" => command.seg \in Segment
      /\ \A s \in Segment : s \in raced' \/ OKAt(s)'
      /\ file \in [Segment -> Seq(Line)] /\ snap \in [Segment -> Snapshot]
  BY UnlockedLands DEF StepInv, TypeInv, JournalTypeOK, Placed, Leaves
<1> DEFINE Command == [pc: {"idle", "footer", "seal", "note", "store", "destroy", "purge", "unlink"},
                       seg: Segment \cup {NoSegment}, read: Seq(Line), snap: Snapshot]
<1>c. PICK c \in Command : c = command
  BY DEF StepInv, TypeInv, JournalTypeOK
<1>1. CASE CommandCutShort \/ CommandSealed \/ PurgeSidecar \/ CommandStore \/ CommandDies
  <2>1. command' = NoCommand
    BY <1>1 DEF CommandCutShort, CommandSealed, PurgeSidecar, CommandStore, CommandDies
  <2> QED BY <2>1 DEF CommandInv, NoCommand
<1>2. CASE (\E t \in Segment : ReadSidecar(t)) \/ RepairSidecar \/ ViewerDies
  <2>1. UNCHANGED command /\ raced \subseteq raced'
    BY <1>2 DEF ReadSidecar, RepairSidecar, ViewerDies
  <2>2. ASSUME NEW s \in Segment PROVE Quiet(s) /\ UNCHANGED <<usb, late, overwritten>>
    BY <1>2, QuietUnlocked
  <2>3. 1 \in Segment
    BY JournalAssumption DEF Segment
  <2>4. Saved' = Saved
    BY <2>2, <2>3, SavedSame
  <2>5. CommandUndisturbed
    BY <1>0, <2>1, <2>2, <2>4, QuietLands, LandsAll
  <2> QED BY <1>0, <2>1, <2>5, CommandKept
<1>3. ASSUME NEW a \in Segment, CommandReseal(a) PROVE CommandInv'
  <2>1. PICK m \in Snapshot : m = Reconciled(a)
    BY <1>0, SnapType DEF TypeInv
  <2>2. PICK v : v = command'
    OBVIOUS
  <2>3. /\ command' = v /\ v.pc = "footer" /\ v.seg = a /\ v.read = file[a] /\ v.snap = m
        /\ snap'[a] = m /\ m.present /\ m.pending # NoFooter
        /\ UNCHANGED <<file, torn, raced, unlinked, copied>>
    BY <1>0, <1>3, <2>1, <2>2 DEF CommandReseal, copies, Reconciled, Repaired
  <2>4. ~Closed(file[a]) /\ snap[a].pending = Records(file[a])
    BY <2>1, <2>3 DEF Reconciled, Repaired
  <2>5. ASSUME a \notin raced', a \notin torn PROVE file[a] # <<>>
    <3>1. snap[a].pending # <<>>
      BY <1>0, <2>3, <2>5 DEF SegInv, OKAt, SegmentOK
    <3> QED BY <2>4, <3>1, EmptyFile
  <2>6. a \notin raced' => SegmentOK(a, file'[a], m, torn', unlinked', copied', Saved')
    BY <1>0, <2>3 DEF OKAt
  <2>7. a \notin raced' => CommandOK(v, file'[a], snap'[a], torn', unlinked', copied')
    BY <2>3, <2>5, <2>6 DEF CommandOK, SegmentOK
  <2> QED BY <2>3, <2>4, <2>7, CommandNext
<1>4. CASE CommandFooter
  <2>1. PICK a \in Segment : a = command.seg
    BY <1>0, <1>4 DEF CommandFooter
  <2>2. PICK v : v = [c EXCEPT !.pc = "seal"]
    OBVIOUS
  <2>3. /\ command' = v /\ v.pc = "seal" /\ v.seg = a /\ v.snap = c.snap /\ c.pc = "footer"
        /\ c.seg = a /\ raced \subseteq raced' /\ UNCHANGED <<snap, torn, unlinked, copied>>
    BY <1>4, <1>c, <2>1, <2>2 DEF CommandFooter, RacedBy, copies
  <2>4. file'[a] # <<>>
    <3>1. file[a] \in Seq(Line) /\ Records(c.read) \in Seq(Event)
      BY <1>0, <1>c, RecordsType
    <3>2. IsLonger(file'[a], file[a], Footer(Records(c.read)))
      BY <1>0, <1>4, <1>c, <2>1 DEF IsLonger, CommandFooter
    <3> QED BY <3>1, <3>2, FooterAppended
  <2>5. ASSUME a \notin raced'
        PROVE  CommandOK(v, file'[a], snap'[a], torn', unlinked', copied')
    <3>1. CommandOK(c, file[a], snap[a], torn, unlinked, copied)
      BY <1>0, <1>c, <2>1, <2>3, <2>5 DEF CommandInv, CommandAt
    <3> QED BY <2>3, <2>4, <3>1 DEF CommandOK
  <2> QED BY <2>3, <2>5, CommandNext
<1>5. CASE PurgeFile
  <2>1. PICK a \in Segment : a = command.seg
    BY <1>0, <1>5 DEF PurgeFile
  <2>2. PICK v : v = [c EXCEPT !.pc = "unlink"]
    OBVIOUS
  <2>3. command' = v /\ v.pc = "unlink" /\ v.seg = a /\ a \in unlinked'
    BY <1>5, <1>c, <2>1, <2>2 DEF PurgeFile, RemoveFile
  <2>4. CommandOK(v, file'[a], snap'[a], torn', unlinked', copied')
    BY <2>3 DEF CommandOK
  <2> QED BY <2>3, <2>4, CommandNext
<1>6. CASE CommandDestroyFile
  <2>1. PICK a \in Segment : a = command.seg
    BY <1>0, <1>6 DEF CommandDestroyFile
  <2>2. PICK v : v = [c EXCEPT !.pc = "unlink"]
    OBVIOUS
  <2>3. command' = v /\ v.pc = "unlink" /\ v.seg = a /\ a \in unlinked'
    BY <1>6, <1>c, <2>1, <2>2 DEF CommandDestroyFile, RemoveFile
  <2>4. CommandOK(v, file'[a], snap'[a], torn', unlinked', copied')
    BY <2>3 DEF CommandOK
  <2> QED BY <2>3, <2>4, CommandNext
<1>7. ASSUME NEW a \in Segment, CommandExport(a) PROVE CommandInv'
  <2>1. PICK v : v = command'
    OBVIOUS
  <2>2. /\ command' = v /\ v.pc = "note" /\ v.seg = a /\ a \in copied' /\ snap'[a].present
    BY <1>7, <2>1 DEF CommandExport, CopyToUsb, NoCommand, Known
  <2>3. CommandOK(v, file'[a], snap'[a], torn', unlinked', copied')
    BY <2>2 DEF CommandOK
  <2> QED BY <2>2, <2>3, CommandNext
<1>8. CASE CommandLoad
  <2>1. PICK a \in Segment : a = command.seg
    BY <1>0, <1>8 DEF CommandLoad
  <2>2. PICK v : v = command'
    OBVIOUS
  <2>3. /\ command' = v /\ v.pc = "store" /\ v.seg = a /\ c.pc = "note" /\ c.seg = a
        /\ UNCHANGED <<file, snap, torn, raced, unlinked, copied>>
    BY <1>8, <1>c, <2>1, <2>2 DEF CommandLoad, copies
  <2>4. ASSUME a \notin raced'
        PROVE  CommandOK(v, file'[a], snap'[a], torn', unlinked', copied')
    <3>1. CommandOK(c, file[a], snap[a], torn, unlinked, copied)
      BY <1>0, <1>c, <2>1, <2>3, <2>4 DEF CommandInv, CommandAt
    <3> QED BY <2>3, <3>1 DEF CommandOK
  <2> QED BY <2>3, <2>4, CommandNext
<1>9. ASSUME NEW a \in Segment, CommandDestroy(a) PROVE CommandInv'
  <2>1. PICK v : v = command'
    OBVIOUS
  <2>2. /\ command' = v /\ v.pc = "destroy" /\ v.seg = a
        /\ snap[a].present /\ snap[a].receipts # {}
        /\ UNCHANGED <<file, snap, torn, raced, unlinked, copied>>
    BY <1>9, <2>1 DEF CommandDestroy, Destroyable, NoCommand, Known, copies
  <2>3. ASSUME a \notin raced'
        PROVE  CommandOK(v, file'[a], snap'[a], torn', unlinked', copied')
    <3>1. a \in unlinked \cup copied
      BY <1>0, <2>2, <2>3 DEF SegInv, OKAt, SegmentOK
    <3> QED BY <2>2, <3>1 DEF CommandOK
  <2> QED BY <2>2, <2>3, CommandNext
<1>10. ASSUME NEW a \in Segment, CommandPurge(a) PROVE CommandInv'
  <2>1. PICK v : v = command'
    OBVIOUS
  <2>2. /\ command' = v /\ v.pc = "purge" /\ v.seg = a
        /\ snap[a].present /\ file[a] # <<>> /\ (snap[a].sealed \/ Closed(file[a]))
        /\ UNCHANGED <<file, snap, torn, raced, unlinked, copied>>
    BY <1>10, <2>1 DEF CommandPurge, Purgeable, NoCommand, Known, Existing, copies
  <2>3. ASSUME a \notin raced'
        PROVE  CommandOK(v, file'[a], snap'[a], torn', unlinked', copied')
    <3>1. Closed(file[a]) \/ ~Healthy(file[a])
      BY <1>0, <2>2, <2>3 DEF SegInv, OKAt, SegmentOK
    <3> QED BY <2>2, <3>1 DEF CommandOK
  <2> QED BY <2>2, <2>3, CommandNext
<1> QED
  BY <1>1, <1>2, <1>3, <1>4, <1>5, <1>6, <1>7, <1>8, <1>9, <1>10 DEF UnlockedStep

\* Who takes the lock for an action of the dashboard has no event.
LEMMA LockedFields ==
  ASSUME NEW pc, NEW s PROVE Locked(pc, s).pc = pc /\ Locked(pc, s).event = NoEvent
BY DEF Locked, NoCall

LEMMA MarkFields ==
  ASSUME NEW s, NEW t, NEW v, v = [Locked("mark", s) EXCEPT !.touches = t]
  PROVE  v.pc = "mark" /\ v.event = NoEvent
<1>1. v.pc = Locked("mark", s).pc /\ v.event = Locked("mark", s).event
  BY DEF Locked, NoCall
<1> QED BY <1>1, LockedFields

\* The retention actions of the dashboard that only touch the sidecar.
LEMMA MarkCalls ==
  ASSUME TypeInv, StoreSidecar \/ \E s \in Segment : MarkSegment(s) \/ ExportSegment(s)
  PROVE  writer' = NoCall \/ (writer'.pc = "mark" /\ writer'.event = NoEvent)
<1>1. CASE StoreSidecar
  <2>1. PICK a : a = writer.seg
    OBVIOUS
  <2>2. PICK t : t = writer.touches - 1
    OBVIOUS
  <2>3. writer' = NoCall \/ writer' = [Locked("mark", a) EXCEPT !.touches = t]
    BY <1>1, <2>1, <2>2 DEF StoreSidecar
  <2>4. PICK v : v = writer'
    OBVIOUS
  <2> QED BY <2>3, <2>4, MarkFields
<1>2. ASSUME NEW s \in Segment, MarkSegment(s)
      PROVE  writer'.pc = "mark" /\ writer'.event = NoEvent
  <2>1. PICK v : v = writer'
    OBVIOUS
  <2>2. PICK t : t = 1
    OBVIOUS
  <2>3. v = [Locked("mark", s) EXCEPT !.touches = t]
    BY <1>2, <2>1, <2>2 DEF MarkSegment
  <2> QED BY <2>1, <2>3, MarkFields
<1>3. ASSUME NEW s \in Segment, ExportSegment(s)
      PROVE  writer'.pc = "mark" /\ writer'.event = NoEvent
  <2>1. PICK v : v = writer'
    OBVIOUS
  <2>2. PICK f : f = file[s]
    OBVIOUS
  <2>3. PICK t : t = 2
    OBVIOUS
  <2>4. v = [Locked("mark", s) EXCEPT !.read = f, !.touches = t]
    BY <1>3, <2>1, <2>2, <2>3 DEF ExportSegment
  <2>5. v.pc = Locked("mark", s).pc /\ v.event = Locked("mark", s).event
    BY <2>4 DEF Locked, NoCall
  <2> QED BY <2>1, <2>5, LockedFields
<1> QED BY <1>1, <1>2, <1>3

LEMMA BothSteps ==
  ASSUME StepInv, JournalNext PROVE BothInv'
<1>0. /\ TypeInv /\ SegInv /\ BothInv /\ raced \subseteq raced'
      /\ writer.pc = "unlink" => writer.seg \in raced \/ writer.seg \in unlinked
      /\ command.pc = "unlink" => command.seg \in raced \/ command.seg \in unlinked
  BY Monotone DEF StepInv, WriterInv, WriterAt, WriterOK, CommandInv, CommandAt, CommandOK
<1>e. ASSUME NEW a \in Existing PROVE a \in raced \/ a \notin unlinked
  BY <1>0 DEF SegInv, OKAt, SegmentOK, Existing
<1>1. ASSUME writer'.pc = "unlink" => writer' = writer, UNCHANGED command PROVE BothInv'
  BY <1>0, <1>1 DEF BothInv
<1>2. ASSUME command'.pc = "unlink" => command' = command, UNCHANGED writer PROVE BothInv'
  BY <1>0, <1>2 DEF BothInv
<1>3. ASSUME NEW a \in Segment, DestroySegment(a) PROVE BothInv'
  <2>1. writer'.seg = a /\ a \in Existing /\ UNCHANGED command
    BY <1>3 DEF DestroySegment, Locked, NoCall, Historical
  <2> QED BY <1>0, <1>e, <2>1 DEF BothInv
<1>5. CASE CommandDestroyFile \/ PurgeFile
  <2>1. command.seg \in Existing /\ UNCHANGED writer /\ command' = [command EXCEPT !.pc = "unlink"]
    BY <1>5 DEF CommandDestroyFile, PurgeFile
  <2>2. command'.seg = command.seg
    BY <1>0, <2>1 DEF TypeInv, JournalTypeOK
  <2> QED BY <1>0, <1>e, <2>1, <2>2 DEF BothInv
<1>6. CASE LockedStep /\ \A s \in Segment : ~DestroySegment(s)
  <2>1. UNCHANGED command
    BY <1>6, LockedKeepsOthers
  <2>2. writer'.pc = "unlink" => writer' = writer
    <3>0. writer \in Call
      BY <1>0 DEF TypeInv, JournalTypeOK
    <3>1. ASSUME NEW e \in Event, OpenJournal(e) \/ OpenRefused(e)
          PROVE  writer'.pc = "unlink" => writer' = writer
      BY <3>1 DEF OpenJournal, OpenRefused, NoCall
    <3>2. CASE \/ WriteRecord \/ ConfirmRecord \/ PrepareSeal \/ Reseal \/ WriteFooter
               \/ ConfirmSeal \/ LoadSidecar
      <4>1. CASE WriteRecord \/ ConfirmRecord
        BY <3>0, <4>1 DEF WriteRecord, ConfirmRecord, Call
      <4>2. CASE PrepareSeal \/ Reseal
        BY <3>0, <4>2 DEF PrepareSeal, Reseal, Call
      <4>3. CASE WriteFooter \/ ConfirmSeal
        BY <3>0, <4>3 DEF WriteFooter, ConfirmSeal, Call
      <4>4. CASE LoadSidecar
        BY <3>0, <4>4 DEF LoadSidecar, Call
      <4> QED BY <3>2, <4>1, <4>2, <4>3, <4>4
    <3>3. CASE \/ RecordNotAtTail \/ SealRefused \/ FooterNotAtTail \/ EndCall \/ EndRefused
               \/ DestroySidecar \/ CutShort \/ Crash
      BY <3>3 DEF RecordNotAtTail, SealRefused, FooterNotAtTail, EndCall, EndRefused,
                  DestroySidecar, CutShort, Crash, NoCall
    <3>4. CASE StoreSidecar \/ SealActiveSegment
      <4>1. CASE StoreSidecar
        BY <1>0, <4>1, MarkCalls DEF NoCall
      <4>2. CASE SealActiveSegment
        BY <4>2, LockedFields DEF SealActiveSegment
      <4> QED BY <3>4, <4>1, <4>2
    <3>5. ASSUME NEW s \in Segment,
                 ReconcileSidecar(s) \/ ResealSegment(s) \/ MarkSegment(s) \/ ExportSegment(s)
          PROVE  writer'.pc = "unlink" => writer' = writer
      <4>1. CASE ReconcileSidecar(s) \/ ResealSegment(s)
        BY <4>1, LockedFields DEF ReconcileSidecar, ResealSegment
      <4>2. CASE MarkSegment(s) \/ ExportSegment(s)
        BY <1>0, <4>2, MarkCalls DEF NoCall
      <4> QED BY <3>5, <4>1, <4>2
    <3> QED BY <1>6, <3>1, <3>2, <3>3, <3>4, <3>5 DEF LockedStep
  <2> QED BY <1>1, <2>1, <2>2
<1>7. CASE UnlockedStep /\ ~PurgeFile /\ ~CommandDestroyFile
  <2>1. UNCHANGED writer
    BY <1>7, UnlockedKeepsWriter
  <2>2. command'.pc = "unlink" => command' = command
    <3>0. command \in [pc: {"idle", "footer", "seal", "note", "store", "destroy", "purge", "unlink"},
                       seg: Segment \cup {NoSegment}, read: Seq(Line), snap: Snapshot]
      BY <1>0 DEF TypeInv, JournalTypeOK
    <3>1. ASSUME NEW s \in Segment,
                 \/ ReadSidecar(s) \/ CommandReseal(s) \/ CommandExport(s)
                 \/ CommandDestroy(s) \/ CommandPurge(s)
          PROVE  command'.pc = "unlink" => command' = command
      <4>1. CASE ReadSidecar(s)
        BY <4>1 DEF ReadSidecar
      <4>2. CASE CommandReseal(s)
        BY <4>2 DEF CommandReseal
      <4>3. CASE CommandExport(s)
        BY <4>3 DEF CommandExport, NoCommand
      <4>4. CASE CommandDestroy(s) \/ CommandPurge(s)
        BY <4>4 DEF CommandDestroy, CommandPurge, NoCommand
      <4> QED BY <3>1, <4>1, <4>2, <4>3, <4>4
    <3>2. CASE CommandLoad \/ CommandFooter
      BY <3>0, <3>2 DEF CommandLoad, CommandFooter
    <3>3. CASE RepairSidecar \/ ViewerDies
      BY <3>3 DEF RepairSidecar, ViewerDies
    <3>4. CASE CommandStore \/ CommandCutShort \/ CommandSealed \/ PurgeSidecar \/ CommandDies
      BY <3>4 DEF CommandStore, CommandCutShort, CommandSealed, PurgeSidecar, CommandDies,
                  NoCommand
    <3> QED BY <1>7, <3>1, <3>2, <3>3, <3>4 DEF UnlockedStep
  <2> QED BY <1>2, <2>1, <2>2
<1> QED BY <1>3, <1>5, <1>6, <1>7 DEF JournalNext

LEMMA ViewerSteps ==
  ASSUME StepInv, JournalNext PROVE ViewerInv'
<1>1. ASSUME NEW s \in Segment, ReadSidecar(s) PROVE ViewerInv'
  BY <1>1 DEF ReadSidecar, ViewerInv, Known, Reconcilable
<1>2. CASE RepairSidecar \/ ViewerDies
  BY <1>2 DEF RepairSidecar, ViewerDies, ViewerInv, NoViewer
<1>3. ASSUME UNCHANGED viewer PROVE ViewerInv'
  BY <1>3 DEF StepInv, ViewerInv
<1>4. CASE LockedStep
  BY <1>3, <1>4, LockedKeepsOthers
<1>5. ASSUME NEW s \in Segment,
             CommandReseal(s) \/ CommandPurge(s) \/ CommandExport(s) \/ CommandDestroy(s)
      PROVE  UNCHANGED viewer
  BY <1>5 DEF CommandReseal, CommandPurge, CommandExport, CommandDestroy
<1>6. CASE \/ CommandLoad \/ CommandStore \/ CommandDestroyFile \/ PurgeFile
           \/ CommandFooter \/ CommandCutShort
  BY <1>3, <1>6 DEF CommandLoad, CommandStore, CommandDestroyFile, PurgeFile, CommandFooter,
                    CommandCutShort
<1>7. CASE CommandSealed \/ PurgeSidecar \/ CommandDies
  BY <1>3, <1>7 DEF CommandSealed, PurgeSidecar, CommandDies
<1> QED
  BY <1>1, <1>2, <1>3, <1>4, <1>5, <1>6, <1>7 DEF JournalNext, UnlockedStep

LEMMA StepInvStep ==
  ASSUME StepInv, AckInv, [JournalNext]_journalVars PROVE StepInv'
<1>1. CASE UNCHANGED journalVars
  <2>1. TypeInv'
    BY <1>1, StutterTypes DEF StepInv
  <2>2. UNCHANGED <<file, snap, writer, command, viewer, torn, raced, unlinked, usb, copied,
                    late, overwritten>>
    BY <1>1 DEF journalVars, copies
  <2>3. SegInv'
    BY <2>2 DEF StepInv, SegInv, OKAt, Saved
  <2>4. WriterInv' /\ CommandInv' /\ BothInv' /\ ViewerInv'
    BY <2>2 DEF StepInv, WriterInv, WriterAt, CommandInv, CommandAt, BothInv, ViewerInv
  <2> QED BY <2>1, <2>3, <2>4 DEF StepInv
<1>2. CASE LockedStep
  <2>1. TypeInv' /\ UNCHANGED command /\ raced \subseteq raced'
    BY <1>2, LockedTypes, LockedKeepsOthers, Monotone DEF StepInv, JournalNext
  <2>2. SegInv' /\ CommandUndisturbed
    BY <1>2, LockedLands DEF SegInv
  <2>3. WriterInv'
    BY <1>2, <2>1, WriterSteps
  <2>4. CommandInv'
    BY <2>1, <2>2, CommandKept DEF StepInv
  <2>5. BothInv' /\ ViewerInv'
    BY <1>2, BothSteps, ViewerSteps DEF JournalNext
  <2> QED BY <2>1, <2>2, <2>3, <2>4, <2>5 DEF StepInv
<1>3. CASE UnlockedStep
  <2>1. TypeInv' /\ UNCHANGED writer /\ raced \subseteq raced' /\ destroyed \subseteq destroyed'
    BY <1>3, UnlockedTypes, UnlockedKeepsWriter, Monotone DEF StepInv, JournalNext
  <2>2. SegInv' /\ WriterUndisturbed
    BY <1>3, UnlockedLands DEF SegInv, Leaves
  <2>3. CommandInv'
    BY <1>3, CommandSteps
  <2>4. WriterInv'
    BY <2>1, <2>2, WriterKept DEF StepInv
  <2>5. BothInv' /\ ViewerInv'
    BY <1>3, BothSteps, ViewerSteps DEF JournalNext
  <2> QED BY <2>1, <2>2, <2>3, <2>4, <2>5 DEF StepInv
<1> QED BY <1>1, <1>2, <1>3 DEF JournalNext

LEMMA AckNext ==
  ASSUME NEW w, NEW a, writer' = w, w.seg = a,
         w.pc = "idle" \/ w.event = NoEvent \/ a \in raced' \/ AckOK(w)'
  PROVE  AckInv'
BY DEF AckInv

LEMMA AckSteps ==
  ASSUME StepInv, AckInv, LockedStep PROVE AckInv'
<1>0. /\ TypeInv /\ writer \in Call
      /\ writer.pc # "idle" => writer.seg \in Segment
      /\ file \in [Segment -> Seq(Line)] /\ snap \in [Segment -> Snapshot]
      /\ raced \subseteq raced'
  BY Monotone DEF StepInv, TypeInv, JournalTypeOK, Placed, JournalNext
<1>i. writer'.pc = "idle" \/ writer'.event = NoEvent => AckInv'
  BY DEF AckInv
<1>w. PICK w \in Call : w = writer
  BY <1>0
<1>k. ASSUME NEW a \in Segment, NEW v, w.seg = a, w.pc # "idle", writer' = v, v.seg = a,
             v.event = w.event, AckOK(w) => AckOK(v)'
      PROVE  AckInv'
  <2>1. w.event = NoEvent \/ a \in raced \/ AckOK(w)
    BY <1>w, <1>k DEF AckInv
  <2> QED BY <1>0, <1>k, <2>1, AckNext
<1>1. ASSUME NEW e \in Event, OpenJournal(e) PROVE AckInv'
  <2>1. writer'.pc = "write"
    BY <1>1 DEF OpenJournal, NoCall
  <2> QED BY <2>1 DEF AckInv, AckOK
<1>2. CASE WriteRecord
  <2>1. PICK a \in Segment : a = writer.seg
    BY <1>0, <1>2 DEF WriteRecord
  <2>2. PICK v : v = [w EXCEPT !.pc = "check"]
    OBVIOUS
  <2>3. writer' = v /\ v.pc = "check" /\ v.seg = a /\ v.event = w.event
    BY <1>2, <1>w, <2>1, <2>2 DEF WriteRecord, Call
  <2>4. a \in raced' \/ w.event \in RecordSet(file'[a]) \/ ~Healthy(file'[a])
    BY <1>2, <1>w, <2>1, RecordLands
  <2>5. a \in raced' \/ AckOK(v)'
    BY <2>3, <2>4 DEF AckOK, Kept
  <2> QED BY <2>3, <2>5, AckNext
<1>3. CASE ConfirmRecord
  <2>1. PICK a \in Segment : a = writer.seg
    BY <1>0, <1>3 DEF ConfirmRecord
  <2>2. PICK v : v = writer'
    OBVIOUS
  <2>3. /\ writer' = v /\ v.pc \in {"prepare", "view"} /\ v.seg = a /\ w.pc = "check"
        /\ v.event = w.event /\ w.seg = a /\ UNCHANGED <<file, destroyed>>
    BY <1>3, <1>w, <2>1, <2>2 DEF ConfirmRecord, Call
  <2>4. snap'[a].offset = Len(file[a])
    <3>1. snap' = [snap EXCEPT ![a] = [w.snap EXCEPT !.offset = Len(file[a])]]
      BY <1>3, <1>w, <2>1 DEF ConfirmRecord
    <3>2. w.snap \in Snapshot
      BY DEF Call
    <3> QED BY <1>0, <3>1, <3>2 DEF Snapshot
  <2>5. ~Healthy(file[a]) => Len(file[a]) > ValidLength(file[a])
    BY <1>0, LengthBounds
  <2>6. AckOK(w) => AckOK(v)'
    BY <2>3, <2>4, <2>5 DEF AckOK, Kept
  <2> QED BY <1>k, <2>3, <2>6
<1>4. CASE PrepareSeal
  <2>1. PICK a \in Segment : a = writer.seg
    BY <1>0, <1>4 DEF PrepareSeal
  <2>2. PICK v : v = [w EXCEPT !.pc = "reseal"]
    OBVIOUS
  <2>3. /\ writer' = v /\ v.pc = "reseal" /\ v.seg = a /\ w.pc = "prepare"
        /\ v.event = w.event /\ w.seg = a /\ UNCHANGED <<file, destroyed>>
    BY <1>4, <1>w, <2>1, <2>2 DEF PrepareSeal, Call
  <2>4. ~(snap[a].offset > ValidLength(file[a]))
    <3>1. snap[a].offset \in Nat /\ ValidLength(file[a]) \in Nat
      BY <1>0, LengthBounds DEF Snapshot
    <3> QED BY <1>4, <2>1, <3>1 DEF PrepareSeal, Reconcilable
  <2>5. AckOK(w) => AckOK(v)'
    BY <2>3, <2>4 DEF AckOK, Kept
  <2> QED BY <1>k, <2>3, <2>5
<1>5. CASE Reseal
  <2>1. PICK a \in Segment : a = writer.seg
    BY <1>0, <1>5 DEF Reseal
  <2>2. PICK v : v = writer'
    OBVIOUS
  <2>3. PICK f, m : writer' \in {[w EXCEPT !.pc = "viewActive"],
                                 [w EXCEPT !.pc = "footer", !.read = f, !.snap = m]}
    BY <1>5, <1>w DEF Reseal
  <2>4. /\ writer' = v /\ v.pc \in {"viewActive", "footer"} /\ v.seg = a /\ w.pc = "reseal"
        /\ v.event = w.event /\ w.seg = a /\ UNCHANGED <<file, destroyed>>
    BY <1>5, <1>w, <2>1, <2>2, <2>3 DEF Reseal, Call
  <2>5. AckOK(w) => AckOK(v)'
    BY <2>4 DEF AckOK, Kept
  <2> QED BY <1>k, <2>4, <2>5
<1>6. CASE WriteFooter
  <2>1. PICK a \in Segment : a = writer.seg
    BY <1>0, <1>6 DEF WriteFooter
  <2>2. PICK v : v = [w EXCEPT !.pc = "seal"]
    OBVIOUS
  <2>3. /\ writer' = v /\ v.pc = "seal" /\ v.seg = a /\ w.pc = "footer"
        /\ v.event = w.event /\ w.seg = a /\ UNCHANGED destroyed
    BY <1>6, <1>w, <2>1, <2>2 DEF WriteFooter, Call
  <2>4. RecordSet(file'[a]) = RecordSet(file[a])
    <3>1. file[a] \in Seq(Line) /\ Records(w.read) \in Seq(Event)
      BY <1>0, <1>w, RecordsType DEF Call
    <3>2. IsLonger(file'[a], file[a], Footer(Records(w.read)))
      BY <1>0, <1>6, <1>w, <2>1 DEF IsLonger, WriteFooter
    <3>3. Records(file'[a]) = Records(file[a])
      BY <3>1, <3>2, FooterAppended
    <3> QED BY <3>3 DEF RecordSet
  <2>5. AckOK(w) => AckOK(v)'
    BY <2>3, <2>4 DEF AckOK, Kept
  <2> QED BY <1>k, <2>3, <2>5
<1>7. CASE ConfirmSeal
  <2>1. PICK a \in Segment : a = writer.seg
    BY <1>0, <1>7 DEF ConfirmSeal
  <2>2. PICK v : v = [w EXCEPT !.pc = "viewActive"]
    OBVIOUS
  <2>3. /\ writer' = v /\ v.pc = "viewActive" /\ v.seg = a /\ w.pc = "seal"
        /\ v.event = w.event /\ w.seg = a /\ UNCHANGED <<file, destroyed>>
    BY <1>7, <1>w, <2>1, <2>2 DEF ConfirmSeal, Call
  <2>4. AckOK(w) => AckOK(v)'
    BY <2>3 DEF AckOK, Kept
  <2> QED BY <1>k, <2>3, <2>4
<1>8. CASE \/ RecordNotAtTail \/ SealRefused \/ FooterNotAtTail \/ EndCall \/ EndRefused
           \/ DestroySidecar \/ CutShort \/ Crash
  <2>1. writer' = NoCall
    BY <1>8 DEF RecordNotAtTail, SealRefused, FooterNotAtTail, EndCall, EndRefused,
                DestroySidecar, CutShort, Crash
  <2> QED BY <1>i, <2>1 DEF NoCall
<1>9. ASSUME NEW x \in Segment \cup Event, OpenRefused(x) \/ ReconcileSidecar(x)
      PROVE  AckInv'
  BY <1>9, <1>i DEF OpenRefused, ReconcileSidecar
<1>10. ASSUME NEW a \in Segment, ResealSegment(a) \/ DestroySegment(a) PROVE AckInv'
  BY <1>10, <1>i, LockedFields DEF ResealSegment, DestroySegment
<1>11. CASE \E a \in Segment : MarkSegment(a) \/ ExportSegment(a)
  BY <1>0, <1>11, <1>i, MarkCalls DEF NoCall
<1>12. CASE LoadSidecar
  <2>1. writer'.pc = "store"
    BY <1>0, <1>12 DEF LoadSidecar, Call
  <2> QED BY <2>1 DEF AckInv, AckOK
<1>13. CASE StoreSidecar
  BY <1>0, <1>13, <1>i, MarkCalls DEF NoCall
<1>14. CASE SealActiveSegment
  BY <1>14, <1>i, LockedFields DEF SealActiveSegment
<1> QED
  BY <1>1, <1>2, <1>3, <1>4, <1>5, <1>6, <1>7, <1>8, <1>9, <1>10, <1>11, <1>12, <1>13,
     <1>14 DEF LockedStep

----------------------------------------------------------------------------
(* The order in which segments are filled *)

LEMMA CheckedNext ==
  ASSUME StepInv, JournalNext
  PROVE  Checked' \subseteq Checked \cup Unsealed \cup raced' \cup torn
<1>0. writer \in Call
  BY DEF StepInv, TypeInv, JournalTypeOK
<1>i. ASSUME writer'.pc # "check" \/ writer' = writer
      PROVE  Checked' \subseteq Checked \cup Unsealed \cup raced' \cup torn
  BY <1>i DEF Checked
<1>1. ASSUME NEW e \in Event, OpenJournal(e) \/ OpenRefused(e)
      PROVE  writer'.pc # "check" \/ writer' = writer
  BY <1>1 DEF OpenJournal, OpenRefused, NoCall
<1>2. CASE WriteRecord
  <2>1. writer'.seg = writer.seg
    BY <1>0, <1>2 DEF WriteRecord, Call
  <2>2. writer.seg \in raced' \/ writer.seg \in torn \/ writer.seg \in Unsealed
    BY <1>2, RecordLands
  <2> QED BY <2>1, <2>2 DEF Checked
<1>3. CASE ConfirmRecord \/ PrepareSeal
  <2>1. writer'.pc # "check"
    BY <1>0, <1>3 DEF ConfirmRecord, PrepareSeal, Call
  <2> QED BY <1>i, <2>1
<1>4. CASE Reseal
  <2>1. writer'.pc # "check"
    BY <1>0, <1>4 DEF Reseal, Call
  <2> QED BY <1>i, <2>1
<1>5. CASE WriteFooter \/ ConfirmSeal \/ LoadSidecar
  <2>1. writer'.pc # "check"
    BY <1>0, <1>5 DEF WriteFooter, ConfirmSeal, LoadSidecar, Call
  <2> QED BY <1>i, <2>1
<1>6. CASE \/ RecordNotAtTail \/ SealRefused \/ FooterNotAtTail \/ EndCall \/ EndRefused
           \/ DestroySidecar \/ CutShort \/ Crash
  <2>1. writer' = NoCall
    BY <1>6 DEF RecordNotAtTail, SealRefused, FooterNotAtTail, EndCall, EndRefused,
                DestroySidecar, CutShort, Crash
  <2> QED BY <1>i, <2>1 DEF NoCall
<1>7. ASSUME StoreSidecar \/ \E s \in Segment : MarkSegment(s) \/ ExportSegment(s)
      PROVE  writer'.pc # "check"
  BY <1>7, MarkCalls DEF StepInv, NoCall
<1>8. ASSUME NEW s \in Segment, ReconcileSidecar(s) \/ ResealSegment(s) \/ DestroySegment(s)
      PROVE  writer'.pc # "check" \/ writer' = writer
  BY <1>8, LockedFields DEF ReconcileSidecar, ResealSegment, DestroySegment
<1>9. CASE SealActiveSegment
  BY <1>i, <1>9, LockedFields DEF SealActiveSegment
<1>10. CASE LockedStep
  BY <1>10, <1>i, <1>1, <1>2, <1>3, <1>4, <1>5, <1>6, <1>7, <1>8, <1>9 DEF LockedStep
<1>11. CASE UnlockedStep
  BY <1>11, <1>i, UnlockedKeepsWriter
<1> QED BY <1>10, <1>11 DEF JournalNext

LEMMA GoodNarrow ==
  ASSUME NEW s \in Segment, NEW t \in Segment, NEW u \in Segment,
         s <= u, u <= t, Good(s, t)
  PROVE  u \notin torn \cup raced /\ Good(s, u)
<1>1. s \in Nat /\ t \in Nat /\ u \in Nat
  BY JournalAssumption DEF Segment
<1>2. u \in s..t /\ s..u \subseteq s..t
  BY <1>1
<1> QED BY <1>2 DEF Good

\* Of the sound segments, opening the journal brings none into use but the
\* next, and that one when the segment in use is closed.
LEMMA OpenUses ==
  ASSUME StepInv, NEW e \in Event, OpenJournal(e), NEW x \in Segment,
         x \notin torn \cup raced, x \in Unsealed', x \notin Unsealed
  PROVE  /\ x = NextSegment /\ x \notin Existing /\ \A s \in Existing : s < x
         /\ Unsealed # {} =>
              /\ FirstChoice \in Unsealed /\ FirstChoice \notin Unsealed'
              /\ FirstChoice < x /\ \A s \in Unsealed : s <= FirstChoice
<1>0. /\ TypeInv /\ snap \in [Segment -> Snapshot] /\ OKAt(x)
      /\ Unsealed \subseteq Segment
  BY DEF StepInv, SegInv, TypeInv, JournalTypeOK, Unsealed, Known
<1>1. /\ FirstChoice \in Segment /\ Target \in Segment
      /\ Reconcilable(FirstChoice) /\ Reconcilable(Target)
      /\ \A s \in Segment : snap'[s] = IF s \in {FirstChoice, Target}
                                       THEN Reconciled(s) ELSE snap[s]
  BY DEF OpenJournal
<1>2. x \in {FirstChoice, Target} /\ ~Closed(file[x])
  <2>1. x \in {FirstChoice, Target}
    BY <1>1 DEF Unsealed, Known
  <2>2. ~Reconciled(x).sealed
    BY <1>1, <2>1 DEF Unsealed
  <2> QED BY <2>1, <2>2 DEF Reconciled, Repaired
<1>3. x \notin Known
  <2> SUFFICES ASSUME x \in Known PROVE FALSE
    OBVIOUS
  <2>1. snap[x].sealed
    BY DEF Unsealed
  <2> QED BY <1>0, <1>1, <1>2, <2>1, SealedIsClosed
<1>4. x = NextSegment
  <2>1. FirstChoice = NextSegment \/ FirstChoice \in Known
    BY ActiveKnown DEF FirstChoice
  <2> QED BY <1>2, <1>3, <2>1 DEF Target
<1>5. x \notin Existing /\ \A s \in Existing : s < x
  BY <1>4, NextIsNew
<1>6. ASSUME Unsealed # {}
      PROVE  /\ FirstChoice \in Unsealed /\ FirstChoice \notin Unsealed'
             /\ FirstChoice < x /\ \A s \in Unsealed : s <= FirstChoice
  <2>1. FirstChoice = Largest(Unsealed)
    <3>1. ActiveSegment = Largest(Unsealed)
      BY <1>6 DEF ActiveSegment
    <3>2. Largest(Unsealed) \in Segment
      BY <1>0, <1>6, LargestSegment
    <3>3. NoSegment \notin Segment
      BY DEF NoSegment, Segment
    <3> QED BY <3>1, <3>2, <3>3 DEF FirstChoice
  <2>2. FirstChoice \in Unsealed /\ \A s \in Unsealed : s <= FirstChoice
    BY <1>0, <1>6, <2>1, LargestSegment
  <2>3. x # FirstChoice
    BY <2>2
  <2>4. Closed(file[FirstChoice])
    BY <1>2, <2>3 DEF Target
  <2>5. FirstChoice \in Existing
    BY <1>1, <2>4, EmptyFile DEF Existing
  <2>6. FirstChoice \notin Unsealed'
    <3>1. PICK a \in Segment : a = FirstChoice
      BY <1>1
    <3>2. snap'[a] = Reconciled(a) /\ Closed(file[a])
      BY <1>1, <2>4, <3>1
    <3>3. a \notin Unsealed'
      BY <3>2 DEF Unsealed, Reconciled, Repaired
    <3> QED BY <3>1, <3>3
  <2> QED BY <1>5, <2>2, <2>5, <2>6
<1> QED BY <1>4, <1>5, <1>6

LEMMA OrderSteps ==
  ASSUME StepInv, OrderInv, [JournalNext]_journalVars PROVE OrderInv'
<1>0. TypeInv
  BY DEF StepInv
<1>1. CASE UNCHANGED journalVars
  <2>1. UNCHANGED <<file, snap, writer, torn, raced>>
    BY <1>1 DEF journalVars
  <2> QED BY <2>1 DEF OrderInv, Unsealed, Known, Existing, Checked, Good
<1>2. ASSUME NEW e \in Event, OpenJournal(e),
             NEW s \in Unsealed' \cup Checked', NEW t \in Unsealed' \cup Existing',
             s < t, Good(s, t)'
      PROVE  FALSE
  <2>1. UNCHANGED <<file, torn, raced>> /\ Checked' = {} /\ Existing' = Existing
    <3>1. UNCHANGED <<file, torn, raced>> /\ writer'.pc = "write"
      BY <1>2 DEF OpenJournal, NoCall
    <3> QED BY <3>1 DEF Checked, Existing
  <2>2. Good(s, t)
    BY <1>2, <2>1 DEF Good
  <2>3. s \in Segment /\ t \in Segment /\ s \in Unsealed' /\ t \in Unsealed' \cup Existing
    BY <2>1 DEF Unsealed, Known, Existing
  <2>4. s \in Nat /\ t \in Nat
    BY <2>3, JournalAssumption DEF Segment
  <2>5. s \notin torn \cup raced /\ t \notin torn \cup raced
    BY <1>2, <2>2, <2>3, <2>4, GoodNarrow
  <2>6. CASE s \in Unsealed /\ t \in Unsealed \cup Existing
    BY <1>2, <2>2, <2>6 DEF OrderInv
  <2>7. CASE s \notin Unsealed
    <3>1. s = NextSegment /\ \A z \in Existing : z < s
      BY <1>2, <2>3, <2>5, <2>7, OpenUses
    <3>2. t \in Unsealed
      <4>1. t \in Unsealed'
        BY <1>2, <2>3, <2>4, <3>1
      <4>2. t # NextSegment
        BY <1>2, <2>4, <3>1
      <4> QED BY <1>2, <2>3, <2>5, <4>1, <4>2, OpenUses
    <3>3. FirstChoice < s /\ t <= FirstChoice /\ FirstChoice \in Segment
      BY <1>2, <2>3, <2>5, <2>7, <3>2, OpenUses DEF OpenJournal
    <3>4. FirstChoice \in Nat
      BY <3>3, JournalAssumption DEF Segment
    <3> QED BY <1>2, <2>4, <3>3, <3>4
  <2>8. CASE s \in Unsealed /\ t \notin Unsealed \cup Existing
    <3>1. /\ FirstChoice \in Unsealed /\ FirstChoice \notin Unsealed'
          /\ FirstChoice < t /\ s <= FirstChoice /\ FirstChoice \in Segment
      BY <1>2, <2>3, <2>5, <2>8, OpenUses DEF OpenJournal
    <3>2. FirstChoice \in Nat
      BY <3>1, JournalAssumption DEF Segment
    <3>3. s < FirstChoice
      BY <2>3, <2>4, <3>1, <3>2
    <3>4. FirstChoice <= t
      BY <2>4, <3>1, <3>2
    <3>5. Good(s, FirstChoice)
      BY <2>2, <2>3, <3>1, <3>4, GoodNarrow
    <3> QED BY <2>8, <3>1, <3>3, <3>5 DEF OrderInv
  <2> QED BY <2>6, <2>7, <2>8
<1>3. ASSUME \A s \in Segment : Leaves(s), JournalNext,
             NEW s \in Unsealed' \cup Checked', NEW t \in Unsealed' \cup Existing',
             s < t, Good(s, t)'
      PROVE  FALSE
  <2>0. raced \subseteq raced' /\ torn \subseteq torn'
    BY <1>3, Monotone
  <2>1. writer'.pc = "check" => writer'.seg \in Segment
    BY <1>0, <1>3, LockedTypes, UnlockedTypes DEF JournalNext, TypeInv, Placed
  <2>2. s \in Segment /\ t \in Segment
    BY <2>1 DEF Unsealed, Known, Existing, Checked
  <2>3. s \in Nat /\ t \in Nat
    BY <2>2, JournalAssumption DEF Segment
  <2>4. s \in s..t /\ t \in s..t
    BY <1>3, <2>3
  <2>5. Good(s, t) /\ s \notin torn' \cup raced' /\ t \notin torn' \cup raced'
    BY <1>3, <2>0, <2>4 DEF Good
  <2>6. Used(s) /\ Used(t)
    BY <1>3, <2>2, <2>5 DEF Leaves
  <2>7. s \in Unsealed \cup Checked
    <3>1. CASE s \in Unsealed'
      BY <2>6, <3>1 DEF Used
    <3>2. CASE s \in Checked'
      BY <1>3, <2>0, <2>5, <3>2, CheckedNext
    <3> QED BY <3>1, <3>2
  <2>8. t \in Unsealed \cup Existing
    <3>1. CASE t \in Checked
      <4>1. t = writer.seg /\ writer.pc = "check"
        BY <3>1 DEF Checked
      <4>2. WriterAt /\ writer.seg \notin torn
        BY <2>0, <2>5, <4>1 DEF StepInv, WriterInv
      <4>3. file[t] # <<>>
        BY <4>1, <4>2 DEF WriterAt, WriterOK
      <4> QED BY <2>2, <4>3 DEF Existing
    <3>2. CASE t \notin Checked
      BY <2>6, <3>2 DEF Used
    <3> QED BY <3>1, <3>2
  <2> QED BY <1>3, <2>5, <2>7, <2>8 DEF OrderInv
<1>4. CASE UnlockedStep
  <2>1. \A s \in Segment : Leaves(s)
    BY <1>4, UnlockedLands
  <2> QED BY <1>3, <1>4, <2>1 DEF OrderInv, JournalNext
<1>5. CASE LockedStep /\ \A e \in Event : ~OpenJournal(e)
  <2>1. \A s \in Segment : Leaves(s)
    BY <1>5, LockedLands
  <2> QED BY <1>3, <1>5, <2>1 DEF OrderInv, JournalNext
<1>6. CASE \E e \in Event : OpenJournal(e)
  BY <1>2, <1>6 DEF OrderInv
<1> QED BY <1>1, <1>4, <1>5, <1>6 DEF JournalNext

----------------------------------------------------------------------------
(* What is read back, acknowledged and saved *)

\* What each step does to the histories.
LEMMA HistoryChanges ==
  ASSUME JournalNext
  PROVE  /\ acked' = acked \/ EndCall
         /\ \/ UNCHANGED <<usb, late, overwritten>> \/ WriteRecord
            \/ \E s \in Segment : ExportSegment(s) \/ CommandExport(s)
         /\ \/ byHand' = byHand \/ CommandDestroyFile
            \/ \E s \in Segment : DestroySegment(s)
<1>1. ASSUME NEW e \in Event, OpenJournal(e) \/ OpenRefused(e) PROVE UNCHANGED <<acked, copies>>
  BY <1>1 DEF OpenJournal, OpenRefused
<1>2. CASE WriteRecord
  BY <1>2 DEF WriteRecord
<1>3. CASE \/ ConfirmRecord \/ RecordNotAtTail \/ PrepareSeal \/ Reseal \/ SealRefused
           \/ WriteFooter
  BY <1>3 DEF ConfirmRecord, RecordNotAtTail, PrepareSeal, Reseal, SealRefused, WriteFooter,
              copies
<1>4. CASE \/ ConfirmSeal \/ FooterNotAtTail \/ EndRefused \/ LoadSidecar \/ StoreSidecar
           \/ DestroySidecar
  BY <1>4 DEF ConfirmSeal, FooterNotAtTail, EndRefused, LoadSidecar, StoreSidecar,
              DestroySidecar, copies
<1>5. CASE EndCall \/ SealActiveSegment \/ CutShort \/ Crash
  BY <1>5 DEF EndCall, SealActiveSegment, CutShort, Crash, copies
<1>6. ASSUME NEW s \in Segment, ReconcileSidecar(s) \/ ResealSegment(s) \/ MarkSegment(s)
      PROVE  UNCHANGED <<acked, copies>>
  BY <1>6 DEF ReconcileSidecar, ResealSegment, MarkSegment
<1>7. ASSUME NEW s \in Segment, ExportSegment(s) PROVE UNCHANGED <<acked, byHand>>
  BY <1>7 DEF ExportSegment, CopyToUsb
<1>8. ASSUME NEW s \in Segment, DestroySegment(s)
      PROVE  UNCHANGED <<acked, usb, late, overwritten>>
  BY <1>8 DEF DestroySegment, RemoveFile
<1>9. CASE LockedStep
  BY <1>9, <1>1, <1>2, <1>3, <1>4, <1>5, <1>6, <1>7, <1>8 DEF LockedStep, copies
<1>10. ASSUME NEW s \in Segment,
              ReadSidecar(s) \/ CommandReseal(s) \/ CommandDestroy(s) \/ CommandPurge(s)
       PROVE  UNCHANGED copies
  BY <1>10 DEF ReadSidecar, CommandReseal, CommandDestroy, CommandPurge
<1>11. ASSUME PurgeFile PROVE UNCHANGED <<usb, late, overwritten, byHand>>
  BY <1>11 DEF PurgeFile, RemoveFile
<1>12. ASSUME NEW s \in Segment, CommandExport(s) PROVE UNCHANGED byHand
  BY <1>12 DEF CommandExport, CopyToUsb
<1>13. CASE CommandDestroyFile
  BY <1>13 DEF CommandDestroyFile, RemoveFile
<1>14. ASSUME CommandLoad \/ CommandStore \/ RepairSidecar \/ ViewerDies \/ CommandDies
       PROVE  UNCHANGED copies
  BY <1>14 DEF CommandLoad, CommandStore, RepairSidecar, ViewerDies, CommandDies
<1>15. ASSUME CommandFooter \/ CommandCutShort \/ CommandSealed \/ PurgeSidecar
       PROVE  UNCHANGED copies
  BY <1>15 DEF CommandFooter, CommandCutShort, CommandSealed, PurgeSidecar
<1>16. CASE UnlockedStep
  <2>1. acked' = acked
    BY <1>16, UnlockedKeepsWriter
  <2>2. CASE UNCHANGED copies
    BY <2>1, <2>2 DEF copies
  <2>3. CASE PurgeFile \/ \E s \in Segment : CommandExport(s)
    BY <2>1, <2>3, <1>11, <1>12
  <2>4. CASE CommandDestroyFile
    BY <2>1, <2>4, <1>13 DEF CommandDestroyFile, RemoveFile
  <2> QED BY <1>16, <2>2, <2>3, <2>4, <1>10, <1>14, <1>15 DEF UnlockedStep
<1> QED BY <1>9, <1>16 DEF JournalNext

\* What each step does to the files.
Adds(f, g) ==
  /\ Healthy(f) /\ ~Closed(f) /\ Healthy(g) /\ ~Closed(g)
  /\ \E e \in Event : Records(g) = Append(Records(f), e)
Closes(f, g) ==
  /\ Healthy(f) /\ ~Closed(f) /\ Healthy(g) /\ Closed(g)
  /\ Records(g) = Records(f)
Lengthened(a) ==
  /\ UNCHANGED copied
  /\ \E g \in Seq(Line) :
       /\ file' = [file EXCEPT ![a] = g] /\ Grows(file[a], g)
       /\ Behind(file[a], g) \/ Adds(file[a], g) \/ Closes(file[a], g)
Removal == CommandDestroyFile \/ PurgeFile \/ \E a \in Segment : DestroySegment(a)

LEMMA FileChanges ==
  ASSUME StepInv, JournalNext
  PROVE  \/ UNCHANGED <<file, copied>>
         \/ \E a \in Segment : Lengthened(a) \/ ExportSegment(a) \/ CommandExport(a)
         \/ Removal
<1>0. /\ TypeInv /\ writer \in Call /\ \A s \in Segment : file[s] \in Seq(Line)
      /\ command.read \in Seq(Line)
  BY DEF StepInv, TypeInv, JournalTypeOK
<1>1. CASE WriteRecord
  <2>1. PICK a \in Segment : a = writer.seg
    BY <1>0, <1>1 DEF WriteRecord, TypeInv, Placed
  <2>2. PICK g : g = Append(file[a], NewLine(writer.read, writer.event))
    OBVIOUS
  <2>3. /\ writer.event \in Event /\ Records(writer.read) \in Seq(Event)
        /\ IsLonger(g, file[a], EventLine(Append(Records(writer.read), writer.event)))
    BY <1>0, <1>1, <2>2, RecordsType
       DEF WriteRecord, TypeInv, Placed, Call, IsLonger, NewLine
  <2>4. g \in Seq(Line) /\ Grows(file[a], g) /\ (Behind(file[a], g) \/ Adds(file[a], g))
    BY <1>0, <2>1, <2>3, EventAppended DEF Adds
  <2>5. file' = [file EXCEPT ![a] = g] /\ UNCHANGED copied
    BY <1>1, <2>1, <2>2 DEF WriteRecord
  <2> QED BY <2>4, <2>5 DEF Lengthened
<1>2. ASSUME NEW a \in Segment, NEW r \in Seq(Line),
             file' = [file EXCEPT ![a] = Append(@, Footer(Records(r)))], UNCHANGED copied
      PROVE  Lengthened(a)
  <2>1. PICK g : g = Append(file[a], Footer(Records(r)))
    OBVIOUS
  <2>2. Records(r) \in Seq(Event) /\ IsLonger(g, file[a], Footer(Records(r)))
    BY <2>1, RecordsType DEF IsLonger
  <2>3. g \in Seq(Line) /\ Grows(file[a], g) /\ (Behind(file[a], g) \/ Closes(file[a], g))
    BY <1>0, <2>2, FooterAppended DEF Closes
  <2> QED BY <1>2, <2>1, <2>3 DEF Lengthened
<1>3. ASSUME NEW a \in Segment, file' = [file EXCEPT ![a] = Append(@, Torn)], UNCHANGED copied
      PROVE  Lengthened(a)
  <2>1. PICK g : g = Append(file[a], Torn)
    OBVIOUS
  <2>2. IsLonger(g, file[a], Torn)
    BY <2>1 DEF IsLonger
  <2>3. g \in Seq(Line) /\ Grows(file[a], g) /\ Behind(file[a], g)
    BY <1>0, <2>2, TornAppended
  <2> QED BY <1>3, <2>1, <2>3 DEF Lengthened
<1>4. CASE WriteFooter
  <2>1. PICK a \in Segment : a = writer.seg
    BY <1>0, <1>4 DEF WriteFooter, TypeInv, Placed
  <2> QED BY <1>0, <1>2, <1>4, <2>1 DEF WriteFooter, Call, copies
<1>5. CASE CutShort
  <2>1. PICK a \in Segment : a = writer.seg
    BY <1>0, <1>5 DEF CutShort, TypeInv, Placed
  <2> QED BY <1>3, <1>5, <2>1 DEF CutShort, copies
<1>6. CASE CommandFooter
  <2>1. PICK a \in Segment : a = command.seg
    BY <1>0, <1>6 DEF CommandFooter, TypeInv, Placed
  <2> QED BY <1>0, <1>2, <1>6, <2>1 DEF CommandFooter, copies
<1>7. CASE CommandCutShort
  <2>1. PICK a \in Segment : a = command.seg
    BY <1>0, <1>7 DEF CommandCutShort, TypeInv, Placed
  <2> QED BY <1>3, <1>7, <2>1 DEF CommandCutShort, copies
<1>8. ASSUME NEW e \in Event, OpenJournal(e) \/ OpenRefused(e)
      PROVE  UNCHANGED <<file, copied>>
  BY <1>8 DEF OpenJournal, OpenRefused, copies
<1>9. CASE \/ ConfirmRecord \/ RecordNotAtTail \/ PrepareSeal \/ Reseal \/ SealRefused
           \/ ConfirmSeal \/ FooterNotAtTail
  BY <1>9 DEF ConfirmRecord, RecordNotAtTail, PrepareSeal, Reseal, SealRefused, ConfirmSeal,
              FooterNotAtTail, copies
<1>10. CASE \/ EndCall \/ EndRefused \/ LoadSidecar \/ StoreSidecar \/ DestroySidecar
            \/ SealActiveSegment \/ Crash
  BY <1>10 DEF EndCall, EndRefused, LoadSidecar, StoreSidecar, DestroySidecar,
               SealActiveSegment, Crash, copies
<1>11. ASSUME NEW s \in Segment, ReconcileSidecar(s) \/ ResealSegment(s) \/ MarkSegment(s)
       PROVE  UNCHANGED <<file, copied>>
  BY <1>11 DEF ReconcileSidecar, ResealSegment, MarkSegment, copies
<1>12. ASSUME NEW s \in Segment,
              ReadSidecar(s) \/ CommandReseal(s) \/ CommandDestroy(s) \/ CommandPurge(s)
       PROVE  UNCHANGED <<file, copied>>
  BY <1>12 DEF ReadSidecar, CommandReseal, CommandDestroy, CommandPurge, copies
<1>13. CASE CommandLoad \/ CommandStore \/ RepairSidecar \/ ViewerDies
  BY <1>13 DEF CommandLoad, CommandStore, RepairSidecar, ViewerDies, copies
<1>14. CASE CommandSealed \/ PurgeSidecar \/ CommandDies
  BY <1>14 DEF CommandSealed, PurgeSidecar, CommandDies, copies
<1>15. CASE LockedStep
  BY <1>15, <1>1, <1>4, <1>5, <1>8, <1>9, <1>10, <1>11 DEF LockedStep, Removal
<1>16. CASE UnlockedStep
  BY <1>16, <1>6, <1>7, <1>12, <1>13, <1>14 DEF UnlockedStep, Removal
<1> QED BY <1>15, <1>16 DEF JournalNext

\* A removal takes a whole segment, which is closed, damaged, copied or raced.
LEMMA RemovalOf ==
  ASSUME StepInv, Removal
  PROVE  \E a \in Existing :
           /\ RemoveFile(a, writer) \/ RemoveFile(a, command)
           /\ Closed(file[a]) \/ ~Healthy(file[a]) \/ a \in copied \cup raced
<1>0. SegInv
  BY DEF StepInv
<1>1. ASSUME NEW a \in Existing, a \in raced \/ a \in unlinked \cup copied
      PROVE  a \in copied \cup raced
  BY <1>0, <1>1 DEF SegInv, OKAt, SegmentOK, Existing
<1>2. ASSUME NEW a \in Segment, DestroySegment(a)
      PROVE  a \in Existing /\ RemoveFile(a, command) /\ a \in copied \cup raced
  <2>1. a \in Existing /\ RemoveFile(a, command) /\ snap[a].receipts # {}
    BY <1>2 DEF DestroySegment, Destroyable
  <2>2. a \in raced \/ a \in unlinked \cup copied
    BY <1>0, <2>1 DEF SegInv, OKAt, SegmentOK
  <2> QED BY <1>1, <2>1, <2>2
<1>3. CASE CommandDestroyFile
  <2>1. /\ command.seg \in Existing /\ RemoveFile(command.seg, writer)
        /\ command.pc = "destroy"
    BY <1>3 DEF CommandDestroyFile
  <2>2. command.seg \in raced \/ command.seg \in unlinked \cup copied
    BY <2>1 DEF StepInv, CommandInv, CommandAt, CommandOK
  <2>3. command.seg \in copied \cup raced
    BY <1>1, <2>1, <2>2
  <2> QED BY <2>1, <2>3
<1>4. CASE PurgeFile
  <2>1. /\ command.seg \in Existing /\ RemoveFile(command.seg, writer)
        /\ command.pc = "purge"
    BY <1>4 DEF PurgeFile
  <2>2. \/ command.seg \in raced
        \/ Closed(file[command.seg]) \/ ~Healthy(file[command.seg])
    BY <2>1 DEF StepInv, CommandInv, CommandAt, CommandOK
  <2> QED BY <2>1, <2>2
<1> QED BY <1>2, <1>3, <1>4 DEF Removal

\* What can be read back is read back after the step, or was purged by it.
LEMMA ReadBackKept ==
  ASSUME StepInv, JournalNext, NEW s \in Segment
  PROVE  RecordSet(file[s]) \subseteq RecordSet(file'[s]) \cup destroyed'
<1>0. file \in [Segment -> Seq(Line)]
  BY DEF StepInv, TypeInv, JournalTypeOK
<1>1. ASSUME UNCHANGED file PROVE RecordSet(file[s]) \subseteq RecordSet(file'[s]) \cup destroyed'
  BY <1>1
<1>2. ASSUME NEW a \in Segment, Lengthened(a)
      PROVE  RecordSet(file[s]) \subseteq RecordSet(file'[s]) \cup destroyed'
  <2>1. PICK g \in Seq(Line) : file' = [file EXCEPT ![a] = g] /\ Grows(file[a], g)
    BY <1>2 DEF Lengthened
  <2>2. CASE s = a
    <3>1. file'[s] = g
      BY <1>0, <2>1, <2>2
    <3> QED BY <2>1, <2>2, <3>1 DEF Grows
  <2>3. CASE s # a
    <3>1. file'[s] = file[s]
      BY <1>0, <2>1, <2>3
    <3> QED BY <3>1
  <2> QED BY <2>2, <2>3
<1>3. ASSUME NEW a \in Segment, NEW other, RemoveFile(a, other)
      PROVE  RecordSet(file[s]) \subseteq RecordSet(file'[s]) \cup destroyed'
  <2>1. CASE s = a
    BY <1>3, <2>1 DEF RemoveFile
  <2>2. CASE s # a
    <3>1. file'[s] = file[s]
      BY <1>0, <1>3, <2>2 DEF RemoveFile
    <3> QED BY <3>1
  <2> QED BY <2>1, <2>2
<1>4. ASSUME NEW a \in Segment, ExportSegment(a) \/ CommandExport(a) PROVE UNCHANGED file
  BY <1>4 DEF ExportSegment, CommandExport
<1>5. CASE Removal
  BY <1>3, <1>5, RemovalOf DEF Existing
<1> QED BY <1>1, <1>2, <1>4, <1>5, FileChanges

LEMMA AckedSteps ==
  ASSUME StepInv, AckInv, AckedReadBack, [JournalNext]_journalVars PROVE AckedReadBack'
<1>1. CASE UNCHANGED journalVars
  <2>1. UNCHANGED <<file, acked, destroyed, raced>>
    BY <1>1 DEF journalVars
  <2> QED BY <2>1 DEF AckedReadBack
<1>2. CASE JournalNext
  <2>0. acked \subseteq Segment \X Event
    BY DEF StepInv, TypeInv, JournalTypeOK
  <2>1. raced \subseteq raced' /\ destroyed \subseteq destroyed'
    BY <1>2, Monotone
  <2>2. ASSUME NEW a \in acked
        PROVE  a[2] \in RecordSet(file'[a[1]]) \cup destroyed' \/ a[1] \in raced'
    <3>1. a[1] \in Segment
      BY <2>0
    <3>2. a[2] \in RecordSet(file[a[1]]) \cup destroyed \/ a[1] \in raced
      BY DEF AckedReadBack
    <3>3. RecordSet(file[a[1]]) \subseteq RecordSet(file'[a[1]]) \cup destroyed'
      BY <1>2, <3>1, ReadBackKept
    <3> QED BY <2>1, <3>2, <3>3
  <2>3. ASSUME EndCall, writer.event # NoEvent, writer.seg \notin raced
        PROVE  Kept(writer.seg, writer.event)
    <3>1. /\ AckOK(writer) /\ writer.pc \in {"view", "viewActive"}
      BY <2>3 DEF EndCall, AckInv
    <3>2. ASSUME writer.pc = "view"
          PROVE  ~(snap[writer.seg].offset > ValidLength(file[writer.seg]))
      <4>1. PICK s \in Segment : s = writer.seg
        BY <3>2 DEF StepInv, TypeInv, Placed
      <4>2. s # NoSegment
        BY DEF Segment, NoSegment
      <4>3. Reconcilable(s)
        BY <2>3, <3>2, <4>1, <4>2 DEF EndCall, ViewRefuses, Viewed
      <4>4. snap[s].offset \in Nat /\ ValidLength(file[s]) \in Nat
        BY SnapType, LengthBounds DEF StepInv, TypeInv, Snapshot
      <4> QED BY <4>1, <4>3, <4>4 DEF Reconcilable
    <3> QED BY <3>1, <3>2 DEF AckOK
  <2>4. CASE acked' = acked
    BY <2>2, <2>4 DEF AckedReadBack
  <2>5. CASE EndCall
    <3>1. CASE writer.event = NoEvent
      <4>1. acked' = acked
        BY <2>5, <3>1 DEF EndCall
      <4> QED BY <2>4, <4>1
    <3>2. CASE writer.event # NoEvent
      <4>1. /\ acked' = acked \cup {<<writer.seg, writer.event>>}
            /\ UNCHANGED <<file, destroyed, raced>>
        BY <2>5, <3>2 DEF EndCall
      <4>2. writer.event \in RecordSet(file[writer.seg]) \cup destroyed \/ writer.seg \in raced
        BY <2>3, <2>5, <3>2 DEF Kept
      <4> QED BY <2>2, <4>1, <4>2 DEF AckedReadBack
    <3> QED BY <3>1, <3>2
  <2> QED BY <1>2, <2>4, <2>5, HistoryChanges
<1> QED BY <1>1, <1>2

LEMMA SavedGrows == ASSUME StepInv, JournalNext PROVE Saved \subseteq Saved'
<1>1. CASE UNCHANGED <<usb, late, overwritten>>
  BY <1>1, SavedSame
<1>2. CASE WriteRecord
  BY <1>2 DEF WriteRecord, Saved
<1>3. ASSUME NEW s \in Segment, ExportSegment(s) \/ CommandExport(s)
      PROVE  Saved \subseteq Saved'
  <2>1. CopyToUsb(s) /\ TypeInv
    BY <1>3 DEF ExportSegment, CommandExport, StepInv
  <2> QED BY <2>1, CopySaves
<1> QED BY <1>1, <1>2, <1>3, HistoryChanges

\* With a receipt, what can be read back of a segment is saved.
LEMMA DestroyableSaved ==
  ASSUME SegInv, NEW s \in Existing, s \notin raced, s \in unlinked \cup copied
  PROVE  RecordSet(file[s]) \subseteq Saved
<1>1. OKAt(s) /\ file[s] # <<>>
  BY DEF SegInv, Existing
<1> QED BY <1>1 DEF OKAt, SegmentOK

LEMMA ByHandSteps ==
  ASSUME StepInv, ByHandInv, [JournalNext]_journalVars PROVE ByHandInv'
<1>0. SegInv
  BY DEF StepInv
<1>1. CASE UNCHANGED journalVars
  <2>1. UNCHANGED <<byHand, raced>> /\ Saved' = Saved
    BY <1>1, SavedSame DEF journalVars, copies
  <2> QED BY <2>1 DEF ByHandInv
<1>2. CASE JournalNext
  <2>1. Saved \subseteq Saved' /\ raced \subseteq raced'
    BY <1>2, SavedGrows, Monotone
  <2>2. ASSUME byHand' = byHand PROVE ByHandInv'
    BY <2>1, <2>2 DEF ByHandInv
  <2>3. ASSUME NEW s \in Existing, byHand' = ByHand(s), s \in raced \/ s \in unlinked \cup copied
        PROVE  ByHandInv'
    <3>1. s \in raced \/ RecordSet(file[s]) \subseteq Saved
      BY <1>0, <2>3, DestroyableSaved
    <3>2. ASSUME NEW d \in {s} \X RecordSet(file[s]) PROVE d[2] \in Saved \/ d[1] \in raced
      BY <3>1
    <3> QED BY <2>1, <2>3, <3>2 DEF ByHandInv, ByHand
  <2>4. ASSUME NEW s \in Segment, DestroySegment(s) PROVE ByHandInv'
    <3>1. /\ s \in Existing /\ byHand' = ByHand(s) /\ snap[s].receipts # {}
      BY <2>4 DEF DestroySegment, Destroyable
    <3>2. s \in raced \/ s \in unlinked \cup copied
      BY <1>0, <3>1 DEF SegInv, OKAt, SegmentOK
    <3> QED BY <2>3, <3>1, <3>2
  <2>5. CASE CommandDestroyFile
    <3>1. /\ command.seg \in Existing /\ byHand' = ByHand(command.seg)
          /\ command.pc = "destroy"
      BY <2>5 DEF CommandDestroyFile
    <3>2. command.seg \in raced \/ command.seg \in unlinked \cup copied
      BY <3>1 DEF StepInv, CommandInv, CommandAt, CommandOK
    <3> QED BY <2>3, <3>1, <3>2
  <2> QED BY <1>2, <2>2, <2>4, <2>5, HistoryChanges
<1> QED BY <1>1, <1>2

----------------------------------------------------------------------------
(* Theorems *)

LEMMA JournalInvInit == JournalInit => JournalInv
<1> SUFFICES ASSUME JournalInit PROVE JournalInv
  OBVIOUS
<1>1. TypeInv
  BY InitTypes
<1>2. /\ writer.pc = "idle" /\ command.pc = "idle" /\ viewer.pc = "idle"
      /\ \A s \in Segment : file[s] = <<>> /\ snap[s] = NoSnapshot
      /\ acked = {} /\ byHand = {}
  BY DEF JournalInit, NoCall, NoCommand, NoViewer
<1>3. SegInv
  BY <1>2, OKGone DEF SegInv, OKAt
<1>4. WriterInv /\ CommandInv /\ BothInv /\ ViewerInv
  BY <1>2 DEF WriterInv, CommandInv, BothInv, ViewerInv
<1>5. Unsealed = {} /\ Checked = {}
  BY <1>2 DEF Unsealed, Known, Checked, NoSnapshot
<1>6. OrderInv
  BY <1>5 DEF OrderInv
<1>7. AckInv /\ AckedReadBack /\ ByHandInv
  BY <1>2 DEF AckInv, AckedReadBack, ByHandInv
<1> QED BY <1>1, <1>3, <1>4, <1>6, <1>7 DEF JournalInv, StepInv

LEMMA JournalInvStep == JournalInv /\ [JournalNext]_journalVars => JournalInv'
<1> SUFFICES ASSUME JournalInv, [JournalNext]_journalVars PROVE JournalInv'
  OBVIOUS
<1>1. StepInv'
  BY StepInvStep DEF JournalInv
<1>2. OrderInv'
  BY OrderSteps DEF JournalInv
<1>3. AckInv'
  <2>1. CASE UNCHANGED journalVars
    <3>1. UNCHANGED <<writer, raced, file, snap, destroyed>>
      BY <2>1 DEF journalVars
    <3> QED BY <3>1 DEF JournalInv, AckInv, AckOK, Kept
  <2>2. CASE LockedStep
    BY <2>2, AckSteps DEF JournalInv
  <2>3. CASE UnlockedStep
    <3>1. TypeInv' /\ TypeInv /\ WriterInv
      BY <2>3, UnlockedTypes DEF JournalInv, StepInv
    <3>2. UNCHANGED writer /\ raced \subseteq raced' /\ destroyed \subseteq destroyed'
      BY <2>3, UnlockedKeepsWriter, Monotone DEF JournalNext
    <3>3. WriterUndisturbed
      BY <2>3, UnlockedLands DEF JournalInv
    <3> QED BY <3>1, <3>2, <3>3, WriterKept DEF JournalInv
  <2> QED BY <2>1, <2>2, <2>3 DEF JournalNext
<1>4. AckedReadBack'
  BY AckedSteps DEF JournalInv
<1>5. ByHandInv'
  BY ByHandSteps DEF JournalInv
<1> QED BY <1>1, <1>2, <1>3, <1>4, <1>5 DEF JournalInv

\* The invariant holds in every state of the journal.
THEOREM JournalInvAlways == JournalSpec => []JournalInv
BY JournalInvInit, JournalInvStep, PTL DEF JournalSpec

\* The journal, its sidecars and its three actors stay within their types,
\* for every number of events, segments and lines.
THEOREM JournalTypeCorrect == JournalSpec => []JournalTypeOK
<1>1. JournalInv => JournalTypeOK
  BY DEF JournalInv, StepInv, TypeInv
<1> QED BY <1>1, JournalInvAlways, PTL

\* A capture that was acknowledged can be read back, or its segment was
\* purged, unless somebody wrote to it from an out-of-date read
\* (append_offline_journal_envelope, recover_segment_prefix).
THEOREM AckedCaptureKept == JournalSpec => []AckedReadBack
<1>1. JournalInv => AckedReadBack
  BY DEF JournalInv
<1> QED BY <1>1, JournalInvAlways, PTL

\* Only a cut line, a race or a purge half done leaves a sidecar that claims
\* more than can be read back (reconcile_snapshot_with_segment).
THEOREM AheadOnlyDamaged == JournalSpec => []AheadOnlyByDamage
<1>1. JournalInv => AheadOnlyByDamage
  BY DEF JournalInv, StepInv, SegInv, OKAt, SegmentOK, AheadOnlyByDamage, Reconcilable
<1> QED BY <1>1, JournalInvAlways, PTL

\* Segments are filled one after the other, however many there are, but for
\* damage and races in between (_discover_active_segment_id,
\* _next_segment_id).
THEOREM SegmentsInOrder == JournalSpec => []FilledInOrder
<1>1. JournalInv => FilledInOrder
  <2> SUFFICES ASSUME JournalInv, NEW s \in Existing, NEW t \in Existing, s < t,
                      (s..t) \cap (torn \cup raced) = {}
               PROVE  Closed(file[s])
    BY DEF FilledInOrder
  <2>1. s \in Segment /\ t \in Segment /\ file[s] # <<>> /\ Good(s, t)
    BY DEF Existing, Good
  <2>2. s <= s /\ s <= t
    BY <2>1, JournalAssumption DEF Segment
  <2>3. s \notin torn \cup raced
    BY <2>1, <2>2, GoodNarrow
  <2>4. OKAt(s)
    BY <2>1, <2>3 DEF JournalInv, StepInv, SegInv
  <2>5. s \notin Unsealed
    BY <2>1 DEF JournalInv, OrderInv
  <2>6. snap[s].sealed
    BY <2>1, <2>4, <2>5 DEF Unsealed, Known, OKAt, SegmentOK
  <2> QED BY <2>1, <2>3, <2>4, <2>6 DEF OKAt, SegmentOK
<1> QED BY <1>1, JournalInvAlways, PTL

\* What a manager destroyed is on the USB disk, but for later captures and
\* replaced copies (export_segment_bundle_to_usb,
\* destroy_unreplayed_segment_after_usb_export).
THEOREM DestroyedWasCopied == JournalSpec => []DestroyedIsCopied
<1>1. JournalInv => DestroyedIsCopied
  BY DEF JournalInv, ByHandInv, Saved, DestroyedIsCopied
<1> QED BY <1>1, JournalInvAlways, PTL

----------------------------------------------------------------------------
(* The journal implements the log *)

Logs == [s \in Segment |-> Records(file[s])]
ClosedNow == {s \in Segment : Closed(file[s])}
DamagedNow == {s \in Segment : ~Healthy(file[s])}

LEMMA LogInit == JournalInit => Log!Init
<1> SUFFICES ASSUME JournalInit PROVE Log!Init
  OBVIOUS
<1>1. \A s \in Segment : /\ Records(file[s]) = <<>>
                         /\ ~Closed(file[s]) /\ Healthy(file[s])
  BY EmptyFile DEF JournalInit
<1> QED BY <1>1 DEF Log!Init, JournalInit

\* What the file of one segment becomes, the log shows.
LEMMA OneLog ==
  ASSUME NEW a \in Segment, NEW g, file \in [Segment -> Seq(Line)],
         file' = [file EXCEPT ![a] = g]
  PROVE  /\ Logs' = [Logs EXCEPT ![a] = Records(g)]
         /\ ClosedNow' = IF Closed(g) THEN ClosedNow \cup {a} ELSE ClosedNow \ {a}
         /\ DamagedNow' = IF Healthy(g) THEN DamagedNow \ {a} ELSE DamagedNow \cup {a}
<1>1. \A s \in Segment : file'[s] = IF s = a THEN g ELSE file[s]
  OBVIOUS
<1>2. Logs' = [Logs EXCEPT ![a] = Records(g)]
  BY <1>1 DEF Logs
<1>3. ClosedNow' = IF Closed(g) THEN ClosedNow \cup {a} ELSE ClosedNow \ {a}
  BY <1>1 DEF ClosedNow
<1>4. DamagedNow' = IF Healthy(g) THEN DamagedNow \ {a} ELSE DamagedNow \cup {a}
  BY <1>1 DEF DamagedNow
<1> QED BY <1>2, <1>3, <1>4

LEMMA LogStep == StepInv /\ TypeInv' /\ [JournalNext]_journalVars => [Log!Next]_(Log!vars)
<1> SUFFICES ASSUME StepInv, TypeInv', [JournalNext]_journalVars PROVE [Log!Next]_(Log!vars)
  OBVIOUS
<1>0. /\ file \in [Segment -> Seq(Line)] /\ TypeInv
      /\ raced' \subseteq Segment
  BY DEF StepInv, TypeInv, JournalTypeOK
<1>1. CASE UNCHANGED journalVars
  <2>1. UNCHANGED <<file, copied, raced>>
    BY <1>1 DEF journalVars, copies
  <2> QED BY <2>1 DEF Log!vars
<1>2. CASE JournalNext
  <2>1. raced \subseteq raced'
    BY <1>2, Monotone
  <2>u. ASSUME UNCHANGED <<file, copied>> PROVE Log!Next
    <3>1. UNCHANGED <<Logs, ClosedNow, DamagedNow, copied>>
      BY <2>u DEF Logs, ClosedNow, DamagedNow
    <3> QED BY <1>0, <2>1, <3>1 DEF Log!Next, Logs, ClosedNow, DamagedNow
  <2>s. ASSUME NEW a \in Segment,
               \/ Log!Close(a) \/ Log!Damage(a) \/ Log!Copy(a) \/ Log!Destroy(a)
               \/ \E e \in Event : Log!Record(a, e)
        PROVE  Log!Next
    BY <1>0, <2>1, <2>s DEF Log!Next
  <2>2. ASSUME NEW a \in Segment, Lengthened(a) PROVE Log!Next
    <3>1. PICK g \in Seq(Line) :
            /\ file' = [file EXCEPT ![a] = g] /\ Grows(file[a], g)
            /\ Behind(file[a], g) \/ Adds(file[a], g) \/ Closes(file[a], g)
      BY <2>2 DEF Lengthened
    <3>2. /\ Logs' = [Logs EXCEPT ![a] = Records(g)] /\ UNCHANGED copied
          /\ ClosedNow' = IF Closed(g) THEN ClosedNow \cup {a} ELSE ClosedNow \ {a}
          /\ DamagedNow' = IF Healthy(g) THEN DamagedNow \ {a} ELSE DamagedNow \cup {a}
      BY <1>0, <2>2, <3>1, OneLog DEF Lengthened
    <3>3. /\ Logs[a] = Records(file[a]) /\ [Logs EXCEPT ![a] = Logs[a]] = Logs
          /\ a \in ClosedNow <=> Closed(file[a])
          /\ a \in DamagedNow <=> ~Healthy(file[a])
      BY DEF Logs, ClosedNow, DamagedNow
    <3>4. CASE Behind(file[a], g)
      <4>1. Logs' = Logs /\ ClosedNow' = ClosedNow /\ DamagedNow' = DamagedNow \cup {a}
        BY <3>2, <3>3, <3>4 DEF Behind
      <4>2. Log!Damage(a)
        BY <3>2, <4>1 DEF Log!Damage, Logs, ClosedNow, DamagedNow
      <4> QED BY <2>s, <4>2
    <3>5. CASE Adds(file[a], g)
      <4>1. PICK e \in Event : Records(g) = Append(Records(file[a]), e)
        BY <3>5 DEF Adds
      <4>2. /\ Logs' = [Logs EXCEPT ![a] = Append(Logs[a], e)]
            /\ ClosedNow' = ClosedNow /\ DamagedNow' = DamagedNow
            /\ a \notin ClosedNow \cup DamagedNow
        BY <3>2, <3>3, <3>5, <4>1 DEF Adds
      <4>3. Log!Record(a, e)
        BY <3>2, <4>2 DEF Log!Record, Logs, ClosedNow, DamagedNow
      <4> QED BY <2>s, <4>3
    <3>6. CASE Closes(file[a], g)
      <4>1. /\ Logs' = Logs /\ ClosedNow' = ClosedNow \cup {a} /\ DamagedNow' = DamagedNow
            /\ a \notin ClosedNow \cup DamagedNow
        BY <3>2, <3>3, <3>6 DEF Closes
      <4>2. Log!Close(a)
        BY <3>2, <4>1 DEF Log!Close, Logs, ClosedNow, DamagedNow
      <4> QED BY <2>s, <4>2
    <3> QED BY <3>1, <3>4, <3>5, <3>6
  <2>3. ASSUME NEW a \in Segment, ExportSegment(a) \/ CommandExport(a) PROVE Log!Next
    <3>1. UNCHANGED file /\ copied' = copied \cup {a}
      BY <2>3 DEF ExportSegment, CommandExport, CopyToUsb
    <3>2. UNCHANGED <<Logs, ClosedNow, DamagedNow>>
      BY <3>1 DEF Logs, ClosedNow, DamagedNow
    <3>3. Log!Copy(a)
      BY <3>1, <3>2 DEF Log!Copy, Logs, ClosedNow, DamagedNow
    <3> QED BY <2>s, <3>3
  <2>4. CASE Removal
    <3>1. PICK a \in Existing :
            /\ RemoveFile(a, writer) \/ RemoveFile(a, command)
            /\ Closed(file[a]) \/ ~Healthy(file[a]) \/ a \in copied \cup raced
      BY <2>4, RemovalOf
    <3>2. a \in Segment /\ file' = [file EXCEPT ![a] = <<>>] /\ copied' = copied \ {a}
      BY <3>1 DEF RemoveFile, Existing
    <3>3. /\ Logs' = [Logs EXCEPT ![a] = <<>>]
          /\ ClosedNow' = ClosedNow \ {a} /\ DamagedNow' = DamagedNow \ {a}
      BY <1>0, <3>2, OneLog, EmptyFile
    <3>4. a \in ClosedNow \cup DamagedNow \cup copied \cup raced
      BY <3>1, <3>2 DEF ClosedNow, DamagedNow
    <3>5. Log!Destroy(a)
      BY <3>2, <3>3, <3>4 DEF Log!Destroy, Logs, ClosedNow, DamagedNow
    <3> QED BY <2>s, <3>2, <3>5
  <2> QED BY <1>2, <2>u, <2>2, <2>3, <2>4, FileChanges
<1> QED BY <1>1, <1>2

\* Whoever writes, seals, exports, purges, dies or tears a line, with or
\* without the lock, the journal behaves as the log of EventLog: records are
\* only added to what is sound and open, and only whole segments go.
THEOREM JournalImplementsLog == JournalSpec => ImplementsLog
<1>1. JournalInv => StepInv /\ TypeInv
  BY DEF JournalInv, StepInv
<1> QED BY <1>1, LogInit, LogStep, JournalInvAlways, PTL DEF JournalSpec, ImplementsLog, Log!Spec
=============================================================================
