-------------------------- MODULE MoneyPipeline_proofs --------------------------
(*****************************************************************************)
(* Proofs about the way of a notification from the changer to the credit     *)
(* and to the main loop, for every number of coins, presses and faults.      *)
(*****************************************************************************)
EXTENDS MoneySystem_proofs, SequenceTheorems, FiniteSetTheorems

-----------------------------------------------------------------------------
(***************************************************************************)
(* The inductive invariant adds to the properties what coin.Run and        *)
(* pollResultLoop hold where, and that events are announced in order.      *)
(***************************************************************************)
Handling ==
  /\ handled <= produced
  /\ runPc = "poll" => pr = <<>>
  /\ loopPc = "recv" => inbox = <<>>
  /\ loopPc = "store" => Head(inbox).status = "Credit"
  /\ loopPc = "emit" => Head(inbox).status \in {"Credit", "ReturnRequest"}

Announced ==
  /\ \A i \in 1..Len(events) : events[i].mark <= handled
  /\ \A i, j \in 1..Len(events) : i < j => events[i].mark < events[j].mark

PipelineInv == Handling /\ Announced /\ PipelineInOrder /\ CoinsBookedOnce

-----------------------------------------------------------------------------
(***************************************************************************)
(* Sequences of items in which the notifications are those after h up to p *)
(* in their order, and what the steps of the system do to one.             *)
(***************************************************************************)
Ordered(s, h, p) ==
  /\ {x.mark : x \in Notices(s)} = (h + 1)..p
  /\ \A i, j \in Noticed(s) : i < j => s[i].mark < s[j].mark

\* Notifications are items, and there are finitely many.
LEMMA NoticesType ==
  ASSUME NEW s \in Seq(Item)
  PROVE  Notices(s) \subseteq Item /\ \A x \in Notices(s) : x.mark \in Nat
  <1>1. Notices(s) \subseteq Item
    BY ElementOfSeq DEF Notices, Noticed
  <1> QED
    BY <1>1 DEF Item

LEMMA NoticesFinite ==
  ASSUME NEW s \in Seq(Item) PROVE IsFiniteSet(Notices(s))
  <1>1. Len(s) \in Nat
    BY LenProperties
  <1>2. IsFiniteSet(1..Len(s))
    BY <1>1, FS_Interval
  <1>3. IsFiniteSet(Noticed(s))
    BY <1>2, FS_Subset DEF Noticed
  <1> DEFINE f == [i \in Noticed(s) |-> s[i]]
  <1>4. f \in Surjection(Noticed(s), Notices(s))
    BY DEF Surjection, Notices
  <1> QED
    BY <1>3, <1>4, FS_Surjection

\* Different notifications have different marks.
LEMMA MarksDiffer ==
  ASSUME NEW s \in Seq(Item), NEW h, NEW p, Ordered(s, h, p),
         NEW x \in Notices(s), NEW y \in Notices(s), x # y
  PROVE  x.mark # y.mark
  <1>1. PICK i \in Noticed(s), j \in Noticed(s) : x = s[i] /\ y = s[j]
    BY DEF Notices
  <1>2. i \in Int /\ j \in Int /\ i # j
    BY <1>1 DEF Noticed
  <1>3. i < j \/ j < i
    BY <1>2
  <1>4. x.mark < y.mark \/ y.mark < x.mark
    BY <1>1, <1>3 DEF Ordered
  <1>5. x.mark \in Nat /\ y.mark \in Nat
    BY NoticesType
  <1> QED
    BY <1>4, <1>5

\* A notification is appended.
LEMMA AppendNotice ==
  ASSUME NEW s \in Seq(Item), NEW e \in Item, e.status # "Busy"
  PROVE  /\ Notices(Append(s, e)) = Notices(s) \cup {e}
         /\ \A h, p \in Nat : Ordered(s, h, p) /\ h <= p /\ e.mark = p + 1
              => Ordered(Append(s, e), h, p + 1)
  <1> DEFINE t == Append(s, e)
  <1>1. /\ t \in Seq(Item) /\ Len(t) = Len(s) + 1 /\ Len(s) \in Nat
        /\ \A i \in 1..Len(s) : t[i] = s[i]
        /\ t[Len(s) + 1] = e
    BY AppendProperties, LenProperties
  <1> HIDE DEF t
  <1>2. Noticed(t) = Noticed(s) \cup {Len(s) + 1}
    BY <1>1 DEF Noticed
  <1>3. \A i \in Noticed(s) : i \in 1..Len(s) /\ t[i] = s[i]
    BY <1>1 DEF Noticed
  <1>4. Notices(t) = Notices(s) \cup {e}
    BY <1>1, <1>2, <1>3 DEF Notices
  <1>5. ASSUME NEW h \in Nat, NEW p \in Nat, Ordered(s, h, p), h <= p, e.mark = p + 1
        PROVE  Ordered(t, h, p + 1)
    <2>1. {x.mark : x \in Notices(t)} = {x.mark : x \in Notices(s)} \cup {p + 1}
      BY <1>4, <1>5
    <2>2. {x.mark : x \in Notices(t)} = (h + 1)..(p + 1)
      <3>1. {x.mark : x \in Notices(s)} = (h + 1)..p
        BY <1>5 DEF Ordered
      <3>2. (h + 1)..(p + 1) = ((h + 1)..p) \cup {p + 1}
        BY <1>5
      <3> QED
        BY <2>1, <3>1, <3>2
    <2>3. \A i \in Noticed(s) : s[i].mark < p + 1
      <3> TAKE i \in Noticed(s)
      <3>1. s[i].mark \in (h + 1)..p
        BY <1>5 DEF Ordered, Notices
      <3> QED
        BY <3>1
    <2>4. ASSUME NEW i \in Noticed(t), NEW j \in Noticed(t), i < j PROVE t[i].mark < t[j].mark
      <3>1. i \in Noticed(s)
        BY <1>1, <1>2, <2>4 DEF Noticed
      <3>2. CASE j \in Noticed(s)
        BY <1>3, <1>5, <2>4, <3>1, <3>2 DEF Ordered
      <3>3. CASE j = Len(s) + 1
        BY <1>1, <1>3, <1>5, <2>3, <3>1, <3>3
      <3> QED
        BY <1>2, <3>2, <3>3
    <2> QED
      BY <2>2, <2>4 DEF Ordered
  <1> QED
    BY <1>4, <1>5 DEF t

\* The changer says that it is busy, somewhere between notifications.
LEMMA InsertBusy ==
  ASSUME NEW a \in Seq(Item), NEW b \in Seq(Item)
  PROVE  /\ Notices((a \o <<BusyItem>>) \o b) = Notices(a \o b)
         /\ \A h, p : Ordered(a \o b, h, p) => Ordered((a \o <<BusyItem>>) \o b, h, p)
  <1> DEFINE s == a \o b
             t == (a \o <<BusyItem>>) \o b
             Back(i) == IF i <= Len(a) THEN i ELSE i - 1
             Forth(i) == IF i <= Len(a) THEN i ELSE i + 1
  <1>1. <<BusyItem>> \in Seq(Item) /\ BusyItem.status = "Busy"
    BY BusyItemType DEF BusyItem
  <1>2. /\ s \in Seq(Item) /\ Len(a) \in Nat /\ Len(b) \in Nat /\ Len(s) = Len(a) + Len(b)
        /\ \A i \in 1..Len(s) : s[i] = IF i <= Len(a) THEN a[i] ELSE b[i - Len(a)]
    BY ConcatProperties, LenProperties
  <1>3. /\ Len(a \o <<BusyItem>>) = Len(a) + 1 /\ a \o <<BusyItem>> \in Seq(Item)
        /\ \A i \in 1..(Len(a) + 1) :
             (a \o <<BusyItem>>)[i] = IF i <= Len(a) THEN a[i] ELSE BusyItem
    BY <1>1
  <1>4. /\ t \in Seq(Item) /\ Len(t) = Len(a) + 1 + Len(b)
        /\ \A i \in 1..Len(t) : t[i] = IF i <= Len(a) + 1 THEN (a \o <<BusyItem>>)[i]
                                                         ELSE b[i - (Len(a) + 1)]
    BY <1>2, <1>3, ConcatProperties
  <1> HIDE DEF s, t
  <1>5. \A i \in Noticed(t) : i # Len(a) + 1 /\ Back(i) \in Noticed(s) /\ t[i] = s[Back(i)]
    <2> TAKE i \in Noticed(t)
    <2>1. i \in 1..Len(t) /\ t[i].status # "Busy"
      BY DEF Noticed
    <2>2. i # Len(a) + 1
      BY <1>1, <1>2, <1>3, <1>4, <2>1
    <2>3. Back(i) \in 1..Len(s) /\ t[i] = s[Back(i)]
      <3>1. CASE i <= Len(a)
        <4>1. i \in 1..(Len(a) + 1) /\ i <= Len(a) + 1 /\ i \in 1..Len(s)
          BY <1>2, <1>4, <2>1, <3>1
        <4>2. s[i] = a[i] /\ t[i] = (a \o <<BusyItem>>)[i] /\ (a \o <<BusyItem>>)[i] = a[i]
          BY <1>2, <1>3, <1>4, <2>1, <3>1, <4>1
        <4> QED
          BY <3>1, <4>1, <4>2
      <3>2. CASE i > Len(a) + 1
        <4>1. i \in Int /\ i - 1 \in 1..Len(s) /\ ~(i - 1 <= Len(a))
              /\ i - 1 - Len(a) = i - (Len(a) + 1) /\ ~(i <= Len(a) + 1)
          BY <1>2, <1>4, <2>1, <3>2
        <4>2. s[i - 1] = b[i - 1 - Len(a)] /\ t[i] = b[i - (Len(a) + 1)]
          BY <1>2, <1>4, <2>1, <4>1
        <4> QED
          BY <1>2, <3>2, <4>1, <4>2
      <3> QED
        BY <1>2, <2>1, <2>2, <3>1, <3>2
    <2> QED
      BY <2>1, <2>2, <2>3 DEF Noticed
  <1>6. \A i \in Noticed(s) : Forth(i) \in Noticed(t) /\ t[Forth(i)] = s[i]
    <2> TAKE i \in Noticed(s)
    <2>1. i \in 1..Len(s) /\ s[i].status # "Busy"
      BY DEF Noticed
    <2>2. Forth(i) \in 1..Len(t) /\ t[Forth(i)] = s[i]
      <3>1. CASE i <= Len(a)
        <4>1. i \in 1..(Len(a) + 1) /\ i <= Len(a) + 1 /\ i \in 1..Len(t)
          BY <1>2, <1>4, <2>1, <3>1
        <4>2. s[i] = a[i] /\ t[i] = (a \o <<BusyItem>>)[i] /\ (a \o <<BusyItem>>)[i] = a[i]
          BY <1>2, <1>3, <1>4, <2>1, <3>1, <4>1
        <4> QED
          BY <3>1, <4>1, <4>2
      <3>2. CASE ~(i <= Len(a))
        <4>1. i + 1 \in 1..Len(t) /\ ~(i + 1 <= Len(a) + 1) /\ i + 1 - (Len(a) + 1) = i - Len(a)
          BY <1>2, <1>4, <2>1, <3>2
        <4>2. t[i + 1] = b[i + 1 - (Len(a) + 1)] /\ s[i] = b[i - Len(a)]
          BY <1>2, <1>4, <2>1, <3>2, <4>1
        <4> QED
          BY <3>2, <4>1, <4>2
      <3> QED
        BY <3>1, <3>2
    <2> QED
      BY <2>1, <2>2 DEF Noticed
  <1>7. Notices(t) = Notices(s)
    <2> HIDE DEF Back, Forth
    <2> QED
      BY <1>5, <1>6 DEF Notices
  <1>8. ASSUME NEW h, NEW p, Ordered(s, h, p) PROVE Ordered(t, h, p)
    <2>1. ASSUME NEW i \in Noticed(t), NEW j \in Noticed(t), i < j PROVE t[i].mark < t[j].mark
      <3>1. i \in Int /\ j \in Int /\ i # Len(a) + 1 /\ j # Len(a) + 1
        BY <1>5, SMTT(30) DEF Noticed
      <3>2. Back(i) < Back(j)
        BY <1>2, <2>1, <3>1
      <3>3. Back(i) \in Noticed(s) /\ Back(j) \in Noticed(s)
            /\ t[i] = s[Back(i)] /\ t[j] = s[Back(j)]
        BY <1>5
      <3> HIDE DEF Back
      <3> QED
        BY <1>8, <3>2, <3>3 DEF Ordered
    <2> QED
      BY <1>7, <1>8, <2>1 DEF Ordered
  <1> QED
    BY <1>7, <1>8 DEF s, t

\* The first item is done with.
LEMMA FirstDone ==
  ASSUME NEW s \in Seq(Item), s # <<>>, NEW h \in Nat, NEW p \in Nat, Ordered(s, h, p)
  PROVE  IF Head(s).status = "Busy"
           THEN Notices(Tail(s)) = Notices(s) /\ Ordered(Tail(s), h, p)
           ELSE /\ Head(s) \in Notices(s) /\ Head(s).mark = h + 1 /\ h < p
                /\ Notices(Tail(s)) = Notices(s) \ {Head(s)}
                /\ Ordered(Tail(s), h + 1, p)
  <1> DEFINE t == Tail(s)
  <1>1. /\ t \in Seq(Item) /\ Len(s) \in Nat /\ Len(s) >= 1 /\ Len(t) = Len(s) - 1
        /\ \A i \in 1..Len(t) : t[i] = s[i + 1]
        /\ Head(s) = s[1]
    BY HeadTailProperties, LenProperties, EmptySeq
  <1> HIDE DEF t
  <1>2. \A i \in Noticed(t) : i + 1 \in Noticed(s) /\ t[i] = s[i + 1]
    BY <1>1 DEF Noticed
  <1>3. \A i \in Noticed(s) : i # 1 => i - 1 \in Noticed(t) /\ t[i - 1] = s[i]
    <2> TAKE i \in Noticed(s)
    <2> HAVE i # 1
    <2>1. i \in 1..Len(s) /\ s[i].status # "Busy"
      BY DEF Noticed
    <2>2. i - 1 \in 1..Len(t) /\ i - 1 + 1 = i
      BY <1>1, <2>1
    <2>3. t[i - 1] = s[i]
      BY <1>1, <2>2
    <2> QED
      BY <2>1, <2>2, <2>3 DEF Noticed
  <1>4. \A i, j \in Noticed(t) : i < j => t[i].mark < t[j].mark
    <2> TAKE i \in Noticed(t), j \in Noticed(t)
    <2> HAVE i < j
    <2>1. i + 1 < j + 1
      BY DEF Noticed
    <2> QED
      BY <1>2, <2>1 DEF Ordered
  <1>5. CASE s[1].status = "Busy"
    <2>1. 1 \notin Noticed(s)
      BY <1>5 DEF Noticed
    <2>2. Notices(t) = Notices(s)
      BY <1>2, <1>3, <2>1 DEF Notices
    <2>3. Ordered(t, h, p)
      BY <1>4, <2>2 DEF Ordered
    <2> QED
      BY <1>1, <1>5, <2>2, <2>3 DEF t
  <1>6. CASE s[1].status # "Busy"
    <2>1. 1 \in Noticed(s)
      BY <1>1, <1>6 DEF Noticed
    <2>2. s[1] \in Notices(s) /\ s[1].mark \in (h + 1)..p
      BY <2>1 DEF Notices, Ordered
    <2>3. \A i \in Noticed(s) : i # 1 => s[1].mark < s[i].mark
      <3> TAKE i \in Noticed(s)
      <3> HAVE i # 1
      <3>1. 1 < i
        BY DEF Noticed
      <3> QED
        BY <2>1, <3>1 DEF Ordered
    <2>4. s[1].mark = h + 1 /\ h < p
      <3>1. h + 1 \in (h + 1)..p
        BY <2>2
      <3>2. PICK i \in Noticed(s) : s[i].mark = h + 1
        BY <3>1 DEF Ordered, Notices
      <3> QED
        BY <2>2, <2>3, <3>2
    <2>5. Notices(t) = Notices(s) \ {s[1]}
      <3>1. \A i \in Noticed(s) : i # 1 => s[i] # s[1]
        BY <2>2, <2>3
      <3>2. \A i \in Noticed(t) : i + 1 # 1
        BY DEF Noticed
      <3> QED
        BY <1>2, <1>3, <2>1, <3>1, <3>2 DEF Notices
    <2>6. {x.mark : x \in Notices(t)} = (h + 2)..p
      <3>1. {x.mark : x \in Notices(t)} = {x.mark : x \in Notices(s)} \ {h + 1}
        BY <2>2, <2>4, <2>5, MarksDiffer
      <3>2. {x.mark : x \in Notices(s)} = (h + 1)..p
        BY DEF Ordered
      <3>3. ((h + 1)..p) \ {h + 1} = (h + 2)..p
        BY <2>4
      <3> QED
        BY <3>1, <3>2, <3>3
    <2>7. Ordered(t, h + 1, p)
      <3>1. h + 1 + 1 = h + 2
        OBVIOUS
      <3> QED
        BY <1>4, <2>6, <3>1 DEF Ordered
    <2> QED
      BY <1>1, <1>6, <2>2, <2>4, <2>5, <2>7 DEF t
  <1> QED
    BY <1>5, <1>6

-----------------------------------------------------------------------------
(***************************************************************************)
(* What each step does to the path.                                        *)
(***************************************************************************)
LEMMA SmallLength ==
  ASSUME NEW n \in Nat
  PROVE  (n < 2 => n \in {0, 1}) /\ (n # 0 /\ n <= 2 => n \in {1, 2})
  OBVIOUS

LEMMA Regroup ==
  \A s, t, u \in Seq(Item) : (s \o t) \o u = s \o (t \o u)
  BY ConcatAssociative

\* All the items up to the changer: a part of the path in front of pr.
Front == (inbox \o Slot(1)) \o Slot(2)

LEMMA PathType ==
  ASSUME TypeOK
  PROVE  /\ inbox \in Seq(Item) /\ Slot(1) \in Seq(Item) /\ Slot(2) \in Seq(Item)
         /\ pr \in Seq(Item) /\ report \in Seq(Item)
         /\ Front \in Seq(Item) /\ Front \o pr \in Seq(Item)
         /\ Path = (Front \o pr) \o report /\ Path \in Seq(Item)
  <1>1. inbox \in Seq(Item) /\ pr \in Seq(Item) /\ report \in Seq(Item)
    BY DEF TypeOK, LoopTypeOK, PipeTypeOK, ChangerTypeOK
  <1>2. ASSUME NEW k \in {1, 2} PROVE Slot(k) \in Seq(Item)
    <2>1. pch \in Seq(Seq(Item)) /\ Len(pch) \in Nat
      BY LenProperties DEF TypeOK, PipeTypeOK
    <2>2. CASE k <= Len(pch)
      BY <2>1, <2>2, ElementOfSeq DEF Slot
    <2>3. CASE ~(k <= Len(pch))
      BY <2>3, EmptySeq DEF Slot
    <2> QED
      BY <2>2, <2>3
  <1>3. Front \in Seq(Item) /\ Front \o pr \in Seq(Item)
    BY <1>1, <1>2, ConcatProperties DEF Front
  <1>4. Path = (Front \o pr) \o report
    BY DEF Path, Front
  <1> QED
    BY <1>1, <1>2, <1>3, <1>4, ConcatProperties

\* A notification of the changer goes to the end of the path.
LEMMA PathNotify ==
  ASSUME TypeOK, NEW e \in Item, report' = Append(report, e), UNCHANGED <<inbox, pch, pr>>
  PROVE  Path' = Append(Path, e)
  <1>1. Path' = (Front \o pr) \o Append(report, e)
    BY DEF Path, Front, Slot
  <1>2. <<e>> \in Seq(Item) /\ Front \o pr \in Seq(Item) /\ report \in Seq(Item)
    BY PathType
  <1>3. Append(report, e) = report \o <<e>>
    BY PathType, AppendIsConcat
  <1>4. (Front \o pr) \o (report \o <<e>>) = ((Front \o pr) \o report) \o <<e>>
    BY <1>2, Regroup
  <1>5. Append(Path, e) = Path \o <<e>>
    BY PathType, AppendIsConcat
  <1> QED
    BY <1>1, <1>3, <1>4, <1>5, PathType

\* The report is a response and the rest.
LEMMA Response ==
  ASSUME TypeOK
  PROVE  LET first == SubSeq(report, 1, Fetched)
             rest == SubSeq(report, Fetched + 1, Len(report))
         IN  first \in Seq(Item) /\ rest \in Seq(Item) /\ first \o rest = report
  <1>1. report \in Seq(Item) /\ Len(report) \in Nat
    BY LenProperties DEF TypeOK, ChangerTypeOK
  <1>2. Fetched \in 0..Len(report)
    BY <1>1, FetchType
  <1>3. SubSeq(report, 1, Fetched) \o SubSeq(report, Fetched + 1, Len(report))
          = SubSeq(report, 1, Len(report))
    <2>1. 1 \in 1..(Len(report) + 1) /\ Fetched \in 1 - 1..Len(report)
          /\ Len(report) \in Fetched..Len(report)
      BY <1>1, <1>2
    <2> QED
      BY <1>1, <2>1, ConcatAdjacentSubSeq
  <1> QED
    BY <1>1, <1>3, FetchType, SubSeqFull

\* A poll moves notifications along the path and may put a Busy between them.
LEMMA PathPoll ==
  ASSUME TypeOK, Handling, Poll
  PROVE  \/ Path' = Path
         \/ \E a, b \in Seq(Item) : Path = a \o b /\ Path' = (a \o <<BusyItem>>) \o b
  <1> DEFINE first == SubSeq(report, 1, Fetched)
             rest == SubSeq(report, Fetched + 1, Len(report))
  <1>1. /\ UNCHANGED <<inbox, pch>> /\ pr = <<>> /\ report' = rest
        /\ pr' = first \o (IF Paying THEN <<BusyItem>> ELSE <<>>) \/ pr' = first \o <<BusyItem>>
    BY DEF Poll, AnswerPoll, Handling, loopVars
  <1>2. first \in Seq(Item) /\ rest \in Seq(Item) /\ first \o rest = report
    BY Response
  <1>3. <<BusyItem>> \in Seq(Item)
    BY BusyItemType
  <1> HIDE DEF first, rest
  <1>4. pr' = first \/ pr' = first \o <<BusyItem>>
    BY <1>1, <1>2, ConcatEmptySeq
  <1>5. Path' = (Front \o pr') \o rest
    BY <1>1 DEF Path, Front, Slot
  <1>6. Path = (Front \o first) \o rest
    <2>1. Front \o <<>> = Front
      BY PathType, ConcatEmptySeq
    <2>2. Path = Front \o report
      BY <1>1, <2>1, PathType
    <2>3. Front \in Seq(Item)
      BY PathType
    <2>4. (Front \o first) \o rest = Front \o (first \o rest)
      BY <1>2, <2>3, Regroup
    <2> QED
      BY <1>2, <2>2, <2>4
  <1>7. CASE pr' = first
    BY <1>5, <1>6, <1>7
  <1>8. CASE pr' = first \o <<BusyItem>>
    <2>1. Front \o (first \o <<BusyItem>>) = (Front \o first) \o <<BusyItem>>
      <3>1. Front \in Seq(Item)
        BY PathType
      <3> QED
        BY <1>2, <1>3, <3>1, Regroup
    <2>2. Front \o first \in Seq(Item)
      BY <1>2, PathType, ConcatProperties
    <2> QED
      BY <1>2, <1>5, <1>6, <1>8, <2>1, <2>2
  <1> QED
    BY <1>4, <1>7, <1>8

\* A result passes through the channel without a change of the path.
LEMMA PathSend ==
  ASSUME TypeOK, SendResult PROVE Path' = Path
  <1>1. /\ UNCHANGED <<inbox, report>> /\ pr' = <<>> /\ pch' = Append(pch, pr) /\ Len(pch) < 2
        /\ pch \in Seq(Seq(Item)) /\ pr \in Seq(Item)
    BY DEF SendResult, HasRoom, PchCap, changerVars, loopVars, TypeOK, PipeTypeOK
  <1>2. /\ Len(pch) \in {0, 1} /\ Len(pch') = Len(pch) + 1
        /\ pch'[Len(pch) + 1] = pr
        /\ \A i \in 1..Len(pch) : pch'[i] = pch[i]
    <2>1. Len(pch) \in Nat
      BY <1>1, LenProperties
    <2>2. /\ Len(Append(pch, pr)) = Len(pch) + 1 /\ Append(pch, pr)[Len(pch) + 1] = pr
          /\ \A i \in 1..Len(pch) : Append(pch, pr)[i] = pch[i]
      BY <1>1, AppendProperties
    <2>3. Len(pch) \in {0, 1}
      BY <1>1, <2>1, SmallLength
    <2> QED
      BY <1>1, <2>2, <2>3
  <1>3. Front' \o <<>> = Front \o pr
    <2>1. CASE Len(pch) = 0
      <3>1. Slot(1) = <<>> /\ Slot(2) = <<>> /\ Slot(1)' = pr /\ Slot(2)' = <<>>
        BY <1>2, <2>1 DEF Slot
      <3>2. Front = inbox
        BY <3>1, PathType, ConcatEmptySeq DEF Front
      <3>3. Front' = (inbox \o pr) \o <<>>
        BY <1>1, <3>1 DEF Front
      <3>4. inbox \o pr \in Seq(Item)
        BY PathType, ConcatProperties
      <3> QED
        BY <3>2, <3>3, <3>4, ConcatEmptySeq
    <2>2. CASE Len(pch) = 1
      <3>1. Slot(1)' = Slot(1) /\ Slot(2) = <<>> /\ Slot(2)' = pr
        BY <1>2, <2>2 DEF Slot
      <3>2. inbox \o Slot(1) \in Seq(Item)
        BY PathType, ConcatProperties
      <3>3. Front = inbox \o Slot(1)
        BY <3>1, <3>2, ConcatEmptySeq DEF Front
      <3>4. Front' = (inbox \o Slot(1)) \o pr
        BY <1>1, <3>1 DEF Front
      <3> QED
        BY <3>3, <3>4, PathType, ConcatEmptySeq
    <2> QED
      BY <1>2, <2>1, <2>2
  <1>4. Path' = (Front' \o <<>>) \o report
    BY <1>1 DEF Path, Front
  <1> QED
    BY <1>3, <1>4, PathType

LEMMA PathTake ==
  ASSUME TypeOK, Handling, TakeResult PROVE Path' = Path
  <1>1. /\ UNCHANGED <<pr, report>> /\ inbox = <<>> /\ pch # <<>>
        /\ inbox' = Head(pch) /\ pch' = Tail(pch)
        /\ pch \in Seq(Seq(Item)) /\ Len(pch) <= 2
    BY DEF TakeResult, PchCap, changerVars, runVars, TypeOK, PipeTypeOK, Handling
  <1>2. /\ Len(pch) \in {1, 2} /\ Len(pch') = Len(pch) - 1 /\ inbox' = pch[1]
        /\ Len(pch) = 2 => pch'[1] = pch[2]
    <2>1. Len(pch) \in Nat \ {0}
      BY <1>1, EmptySeq
    <2>2. Len(pch) \in {1, 2}
      <3>1. Len(pch) \in Nat /\ Len(pch) # 0 /\ Len(pch) <= 2
        BY <1>1, <2>1
      <3> QED
        BY <3>1, SmallLength
    <2>3. /\ Len(Tail(pch)) = Len(pch) - 1
          /\ \A i \in 1..Len(Tail(pch)) : Tail(pch)[i] = pch[i + 1]
      BY <1>1, HeadTailProperties
    <2>4. Len(pch) = 2 => Tail(pch)[1] = pch[2]
      BY <2>3
    <2>5. Head(pch) = pch[1]
      BY <1>1
    <2> QED
      BY <1>1, <2>2, <2>3, <2>4, <2>5
  <1>3. inbox' = Slot(1) /\ Slot(1)' = Slot(2) /\ Slot(2)' = <<>>
    <2>1. CASE Len(pch) = 1
      BY <1>2, <2>1 DEF Slot
    <2>2. CASE Len(pch) = 2
      BY <1>2, <2>2 DEF Slot
    <2> QED
      BY <1>2, <2>1, <2>2
  <1>4. Front' = (Slot(1) \o Slot(2)) \o <<>>
    BY <1>3 DEF Front
  <1>5. Front = Slot(1) \o Slot(2)
    BY <1>1, PathType, ConcatEmptySeq DEF Front
  <1>6. Front' = Front
    BY <1>4, <1>5, PathType, ConcatEmptySeq
  <1> QED
    BY <1>1, <1>6, PathType DEF Path, Front

\* The first item of the path is the one pollResultLoop works on.
LEMMA TailConcat ==
  ASSUME NEW s \in Seq(Item), NEW t \in Seq(Item), s # <<>>
  PROVE  s \o t # <<>> /\ Head(s \o t) = Head(s) /\ Tail(s \o t) = Tail(s) \o t
  <1>1. /\ s \o t \in Seq(Item) /\ Len(s) \in Nat /\ Len(s) >= 1 /\ Len(t) \in Nat
        /\ Len(s \o t) = Len(s) + Len(t)
        /\ \A i \in 1..(Len(s) + Len(t)) : (s \o t)[i] = IF i <= Len(s) THEN s[i] ELSE t[i - Len(s)]
    BY ConcatProperties, LenProperties, EmptySeq
  <1>2. s \o t # <<>>
    BY <1>1, EmptySeq
  <1>3. Head(s \o t) = Head(s)
    BY <1>1, <1>2
  <1>4. /\ Tail(s \o t) \in Seq(Item) /\ Len(Tail(s \o t)) = Len(s) + Len(t) - 1
        /\ \A i \in 1..(Len(s) + Len(t) - 1) : Tail(s \o t)[i] = (s \o t)[i + 1]
    BY <1>1, <1>2, HeadTailProperties
  <1>5. /\ Tail(s) \in Seq(Item) /\ Len(Tail(s)) = Len(s) - 1
        /\ \A i \in 1..(Len(s) - 1) : Tail(s)[i] = s[i + 1]
    BY HeadTailProperties
  <1>6. /\ Tail(s) \o t \in Seq(Item) /\ Len(Tail(s) \o t) = Len(s) - 1 + Len(t)
        /\ \A i \in 1..(Len(s) - 1 + Len(t)) :
             (Tail(s) \o t)[i] = IF i <= Len(s) - 1 THEN Tail(s)[i] ELSE t[i - (Len(s) - 1)]
    BY <1>5, ConcatProperties
  <1>7. ASSUME NEW i \in 1..(Len(s) + Len(t) - 1) PROVE Tail(s \o t)[i] = (Tail(s) \o t)[i]
    <2>1. /\ i + 1 \in 1..(Len(s) + Len(t)) /\ i \in 1..(Len(s) - 1 + Len(t))
          /\ Tail(s \o t)[i] = (s \o t)[i + 1]
      BY <1>1, <1>4
    <2>2. CASE i <= Len(s) - 1
      <3>1. i \in 1..(Len(s) - 1) /\ i + 1 <= Len(s)
        BY <1>1, <2>2
      <3> QED
        BY <1>1, <1>5, <1>6, <2>1, <2>2, <3>1
    <2>3. CASE ~(i <= Len(s) - 1)
      <3>1. ~(i + 1 <= Len(s)) /\ i + 1 - Len(s) = i - (Len(s) - 1)
        BY <1>1, <2>3
      <3>2. (s \o t)[i + 1] = t[i + 1 - Len(s)] /\ (Tail(s) \o t)[i] = t[i - (Len(s) - 1)]
        BY <1>1, <1>6, <2>1, <2>3, <3>1
      <3> QED
        BY <2>1, <3>1, <3>2
    <2> QED
      BY <2>2, <2>3
  <1>8. Tail(s \o t) = Tail(s) \o t
    <2>1. Len(Tail(s \o t)) = Len(Tail(s) \o t)
      BY <1>1, <1>4, <1>6
    <2> QED
      BY <1>4, <1>6, <1>7, <2>1, SeqEqual
  <1> QED
    BY <1>2, <1>3, <1>8

LEMMA PathHead ==
  ASSUME TypeOK, inbox # <<>>
  PROVE  Path # <<>> /\ Head(Path) = Head(inbox)
         /\ Tail(Path) = ((((Tail(inbox) \o Slot(1)) \o Slot(2)) \o pr) \o report)
  <1>1. /\ inbox \o Slot(1) # <<>> /\ Head(inbox \o Slot(1)) = Head(inbox)
        /\ Tail(inbox \o Slot(1)) = Tail(inbox) \o Slot(1)
        /\ inbox \o Slot(1) \in Seq(Item)
    BY PathType, TailConcat, ConcatProperties
  <1>2. /\ Front # <<>> /\ Head(Front) = Head(inbox)
        /\ Tail(Front) = (Tail(inbox) \o Slot(1)) \o Slot(2)
    BY <1>1, PathType, TailConcat, SMTT(30) DEF Front
  <1>3. /\ Front \o pr # <<>> /\ Head(Front \o pr) = Head(inbox)
        /\ Tail(Front \o pr) = Tail(Front) \o pr
    BY <1>2, PathType, TailConcat
  <1>4. Front \o pr \in Seq(Item) /\ report \in Seq(Item) /\ Path = (Front \o pr) \o report
    BY PathType
  <1>5. /\ Path # <<>> /\ Head(Path) = Head(inbox)
        /\ Tail(Path) = Tail(Front \o pr) \o report
    BY <1>3, <1>4, TailConcat
  <1> QED
    BY <1>2, <1>3, <1>5

LEMMA PathNext ==
  ASSUME TypeOK, inbox # <<>>, NextItem, UNCHANGED <<pch, pr, report>>
  PROVE  Path' = Tail(Path)
  BY PathHead DEF NextItem, Path, Slot

-----------------------------------------------------------------------------
(***************************************************************************)
(* The inductive step, action by action.                                   *)
(***************************************************************************)
LEMMA InOrder == PipelineInOrder <=> Ordered(Path, handled, produced)
  BY DEF PipelineInOrder, Ordered

LEMMA InOrderNext == PipelineInOrder' <=> Ordered(Path', handled', produced')
  BY DEF PipelineInOrder, Ordered

LEMMA UnbookedNext ==
  Unbooked' = {x \in Notices(Path') : loopPc' = "emit" => x # Head(inbox')}
  BY DEF Unbooked

\* The accounts of the coins hold as long as the same coins are on their way.
LEMMA SameCoins ==
  ASSUME CoinsBookedOnce, UNCHANGED <<deposited, booked>>,
         \A n \in Nominals : CoinsOf(n, Unbooked') = CoinsOf(n, Unbooked)
  PROVE  CoinsBookedOnce'
  BY DEF CoinsBookedOnce

LEMMA SameEvents ==
  ASSUME Announced, UNCHANGED <<events, handled>> PROVE Announced'
  BY DEF Announced

\* pollResultLoop does nothing, and the same notifications are on the path.
LEMMA SameNotices ==
  ASSUME PipelineInv, Handling',
         Notices(Path') = Notices(Path), Ordered(Path', handled, produced),
         UNCHANGED <<events, handled, produced, deposited, booked>>,
         UNCHANGED <<loopPc, inbox>> \/ (loopPc # "emit" /\ loopPc' # "emit")
  PROVE  PipelineInv'
  <1>1. Announced'
    BY SameEvents DEF PipelineInv
  <1>2. PipelineInOrder'
    BY InOrderNext
  <1>3. Unbooked' = Unbooked
    BY UnbookedNext DEF Unbooked
  <1>4. CoinsBookedOnce'
    BY <1>3, SameCoins DEF PipelineInv
  <1> QED
    BY <1>1, <1>2, <1>4 DEF PipelineInv

Way == <<inbox, pch, pr, report, loopPc, handled, produced, deposited, booked>>

\* Steps of others, and of coin.Run between polls.
LEMMA PipelineSame ==
  ASSUME PipelineInv, UNCHANGED <<Way, events>>, runPc' = "poll" => runPc = "poll"
  PROVE  PipelineInv'
  <1>0. UNCHANGED <<inbox, pch, pr, report, loopPc, handled, produced, deposited, booked, events>>
    BY DEF Way
  <1>1. Path' = Path
    BY <1>0 DEF Path, Slot
  <1>2. Handling'
    BY <1>0 DEF PipelineInv, Handling
  <1> QED
    BY <1>0, <1>1, <1>2, SameNotices, InOrder DEF PipelineInv

\* The main loop takes an event.
LEMMA PipelineMain ==
  ASSUME TypeOK, PipelineInv, MainReceives PROVE PipelineInv'
  <1>0. /\ UNCHANGED <<inbox, pch, pr, report, loopPc, handled, produced, deposited, booked, runPc>>
        /\ events # <<>> /\ events' = Tail(events) /\ events \in Seq(Event)
    BY DEF MainReceives, changerVars, runVars, loopVars, historyVars, TypeOK, PipeTypeOK
  <1>1. Path' = Path
    BY <1>0 DEF Path, Slot
  <1>2. Handling' /\ PipelineInOrder'
    BY <1>0, <1>1, InOrder, InOrderNext DEF PipelineInv, Handling
  <1>3. Unbooked' = Unbooked
    BY <1>0, <1>1, UnbookedNext DEF Unbooked
  <1>4. CoinsBookedOnce'
    BY <1>0, <1>3, SameCoins DEF PipelineInv
  <1>5. Announced'
    <2>1. /\ Len(events) \in Nat /\ Len(events') = Len(events) - 1
          /\ \A i \in 1..Len(events') : events'[i] = events[i + 1]
      BY <1>0, HeadTailProperties, LenProperties
    <2>2. ASSUME NEW i \in 1..Len(events') PROVE events'[i].mark <= handled
      <3>1. i + 1 \in 1..Len(events) /\ events'[i] = events[i + 1]
        BY <2>1
      <3> QED
        BY <3>1 DEF PipelineInv, Announced
    <2>3. ASSUME NEW i \in 1..Len(events'), NEW j \in 1..Len(events'), i < j
          PROVE  events'[i].mark < events'[j].mark
      <3>1. /\ i + 1 \in 1..Len(events) /\ events'[i] = events[i + 1]
            /\ j + 1 \in 1..Len(events) /\ events'[j] = events[j + 1] /\ i + 1 < j + 1
        BY <2>1, <2>3
      <3> QED
        BY <3>1 DEF PipelineInv, Announced
    <2> QED
      BY <1>0, <2>2, <2>3 DEF Announced
  <1> QED
    BY <1>2, <1>4, <1>5 DEF PipelineInv

\* The changer notifies: a coin that it accepted, the lever, or something else.
LEMMA PipelineNotify ==
  ASSUME TypeOK, PipelineInv, NEW e \in Item, e.status # "Busy", e.mark = produced + 1,
         report' = Append(report, e), produced' = produced + 1,
         UNCHANGED <<inbox, pch, pr, runPc, loopPc, handled, booked, events>>,
         deposited' = IF e.status = "Credit" /\ e.nominal \in Nominals
                        THEN [deposited EXCEPT ![e.nominal] = @ + 1] ELSE deposited
  PROVE  PipelineInv'
  <1>0. /\ handled \in Nat /\ produced \in Nat /\ handled <= produced
        /\ deposited \in Coins /\ booked \in Coins
        /\ loopPc # "recv" => inbox # <<>>
        /\ inbox \in Seq(Item)
    BY DEF TypeOK, ChangerTypeOK, RestTypeOK, LoopTypeOK, PipelineInv, Handling
  <1>1. Path' = Append(Path, e) /\ Path \in Seq(Item)
    BY PathNotify, PathType
  <1>2. Ordered(Path, handled, produced)
    BY InOrder DEF PipelineInv
  <1>3. Notices(Path') = Notices(Path) \cup {e} /\ Ordered(Path', handled, produced + 1)
    BY <1>0, <1>1, <1>2, AppendNotice
  <1>4. PipelineInOrder'
    BY <1>3, InOrderNext
  <1>5. e \notin Notices(Path)
    <2>1. \A x \in Notices(Path) : x.mark \in (handled + 1)..produced
      BY <1>2 DEF Ordered
    <2>2. produced + 1 \notin (handled + 1)..produced
      BY <1>0
    <2> QED
      BY <2>1, <2>2
  <1>6. loopPc = "emit" => e # Head(inbox)
    <2> SUFFICES ASSUME loopPc = "emit" PROVE Head(inbox) \in Notices(Path)
      BY <1>5
    <2>1. inbox # <<>> /\ Head(inbox).status # "Busy"
      BY <1>0 DEF PipelineInv, Handling
    <2>2. Path # <<>> /\ Head(Path) = Head(inbox)
      BY <2>1, PathHead
    <2> QED
      BY <1>0, <1>1, <1>2, <2>1, <2>2, FirstDone
  <1>7. Unbooked' = Unbooked \cup {e} /\ e \notin Unbooked
    BY <1>3, <1>5, <1>6, UnbookedNext DEF Unbooked
  <1>8. CoinsBookedOnce'
    <2> SUFFICES ASSUME NEW n \in Nominals
                 PROVE  deposited'[n] = booked[n] + Cardinality(CoinsOf(n, Unbooked'))
      BY DEF CoinsBookedOnce
    <2>1. /\ deposited[n] = booked[n] + Cardinality(CoinsOf(n, Unbooked))
          /\ deposited[n] \in Nat /\ booked[n] \in Nat
      BY <1>0 DEF PipelineInv, CoinsBookedOnce, Coins
    <2>2. IsFiniteSet(CoinsOf(n, Unbooked))
      <3>1. IsFiniteSet(Notices(Path)) /\ CoinsOf(n, Unbooked) \subseteq Notices(Path)
        BY <1>1, NoticesFinite DEF CoinsOf, Unbooked
      <3> QED
        BY <3>1, FS_Subset
    <2>3. CASE e.status = "Credit" /\ e.nominal = n
      <3>1. CoinsOf(n, Unbooked') = CoinsOf(n, Unbooked) \cup {e} /\ e \notin CoinsOf(n, Unbooked)
        BY <1>7, <2>3 DEF CoinsOf
      <3>2. Cardinality(CoinsOf(n, Unbooked')) = Cardinality(CoinsOf(n, Unbooked)) + 1
        BY <2>2, <3>1, FS_AddElement
      <3>3. Cardinality(CoinsOf(n, Unbooked)) \in Nat
        BY <2>2, FS_CardinalityType
      <3>4. deposited'[n] = deposited[n] + 1
        BY <1>0, <2>3 DEF Coins
      <3> QED
        BY <2>1, <3>2, <3>3, <3>4
    <2>4. CASE ~(e.status = "Credit" /\ e.nominal = n)
      <3>1. CoinsOf(n, Unbooked') = CoinsOf(n, Unbooked)
        BY <1>7, <2>4 DEF CoinsOf
      <3>2. deposited'[n] = deposited[n]
        BY <1>0, <2>4 DEF Coins
      <3> QED
        BY <2>1, <3>1, <3>2
    <2> QED
      BY <2>3, <2>4
  <1>9. Handling' /\ Announced'
    <2>1. handled' <= produced'
      BY <1>0
    <2> QED
      BY <2>1, SameEvents DEF PipelineInv, Handling
  <1> QED
    BY <1>4, <1>8, <1>9 DEF PipelineInv

LEMMA PipelineOutside == ASSUME TypeOK, PipelineInv, Outside PROVE PipelineInv'
  <1>0. UNCHANGED <<inbox, pch, pr, runPc, loopPc, handled, booked, events>>
    BY DEF Outside, runVars, loopVars, historyVars
  <1>t. produced \in Nat /\ Alien \notin Nominals
    BY ChangerAssumption DEF TypeOK, ChangerTypeOK
  <1>1. ASSUME NEW status \in LoggedStatuses \cup {"Credit", "ReturnRequest"},
               NEW n \in Nominals \cup {Alien}, Notify(status, n), status # "Busy",
               deposited' = IF status = "Credit" /\ n \in Nominals
                              THEN [deposited EXCEPT ![n] = @ + 1] ELSE deposited
        PROVE  PipelineInv'
    <2> DEFINE e == [status |-> status, nominal |-> n, mark |-> produced + 1]
    <2>1. /\ e \in Item /\ e.status = status /\ e.nominal = n /\ e.mark = produced + 1
          /\ report' = Append(report, e) /\ produced' = produced + 1
      BY <1>t, <1>1 DEF Item, Notify
    <2> HIDE DEF e
    <2> QED
      BY <1>0, <1>1, <2>1, PipelineNotify
  <1>2. ASSUME NEW n \in Inserted, InsertCoin(n) PROVE PipelineInv'
    BY <1>1, <1>2, ChangerAssumption DEF InsertCoin
  <1>3. ASSUME PressLever PROVE PipelineInv'
    BY <1>1, <1>3 DEF PressLever
  <1>4. ASSUME NEW status \in QuietStatuses, QuietNotice(status) PROVE PipelineInv'
    <2>1. status \in LoggedStatuses /\ status # "Busy" /\ status # "Credit"
      BY ChangerAssumption DEF LoggedStatuses
    <2> QED
      BY <1>1, <1>4, <2>1 DEF QuietNotice
  <1>5. ASSUME NEW n \in Nominals, PayCoin(n) PROVE PipelineInv'
    BY <1>0, <1>5, PipelineSame DEF PayCoin, Way
  <1> QED
    BY <1>2, <1>3, <1>4, <1>5 DEF Outside, ChangerNext

LEMMA PipelineRun == ASSUME TypeOK, PipelineInv, Run PROVE PipelineInv'
  <1>1. CASE Poll
    <2>1. /\ UNCHANGED <<inbox, loopPc, handled, produced, deposited, booked, events>>
          /\ runPc' \in {"ready", "send"}
      BY <1>1 DEF Poll, AnswerPoll, AfterPoll, loopVars, historyVars
    <2>2. Handling'
      BY <2>1 DEF PipelineInv, Handling
    <2>3. Notices(Path') = Notices(Path) /\ Ordered(Path', handled, produced)
      <3>1. Ordered(Path, handled, produced)
        BY InOrder DEF PipelineInv
      <3>2. ASSUME NEW a \in Seq(Item), NEW b \in Seq(Item),
                   Path = a \o b, Path' = (a \o <<BusyItem>>) \o b
            PROVE  Notices(Path') = Notices(Path) /\ Ordered(Path', handled, produced)
        BY <3>1, <3>2, InsertBusy
      <3> QED
        BY <1>1, <3>1, <3>2, PathPoll DEF PipelineInv
    <2> QED
      BY <2>1, <2>2, <2>3, SameNotices
  <1>2. CASE SendResult
    <2>1. /\ UNCHANGED <<inbox, loopPc, handled, produced, deposited, booked, events>>
          /\ pr' = <<>>
      BY <1>2 DEF SendResult, changerVars, loopVars, historyVars
    <2>2. Handling'
      BY <2>1 DEF PipelineInv, Handling
    <2>3. Path' = Path
      BY <1>2, PathSend
    <2> QED
      BY <2>1, <2>2, <2>3, SameNotices, InOrder DEF PipelineInv
  <1>3. CASE PollError \/ ReadySet \/ RunStops
    BY <1>3, PipelineSame DEF PollError, LosePoll, ReadySet, RunStops, Way, changerVars, runVars,
       loopVars, historyVars
  <1> QED
    BY <1>1, <1>2, <1>3 DEF Run

\* What pollResultLoop works on is the oldest item of the path.
LEMMA AtWork ==
  ASSUME TypeOK, PipelineInv, inbox # <<>>
  PROVE  /\ Head(inbox) \in Item
         /\ IF Head(inbox).status = "Busy"
              THEN Notices(Tail(Path)) = Notices(Path) /\ Ordered(Tail(Path), handled, produced)
              ELSE /\ Head(inbox) \in Notices(Path) /\ Head(inbox).mark = handled + 1
                   /\ handled + 1 <= produced
                   /\ Notices(Tail(Path)) = Notices(Path) \ {Head(inbox)}
                   /\ Ordered(Tail(Path), handled + 1, produced)
  <1>1. Path \in Seq(Item) /\ Path # <<>> /\ Head(Path) = Head(inbox) /\ inbox \in Seq(Item)
    BY PathType, PathHead
  <1>2. Ordered(Path, handled, produced) /\ handled \in Nat /\ produced \in Nat
    BY InOrder DEF PipelineInv, TypeOK, RestTypeOK, ChangerTypeOK
  <1>3. handled < produced => handled + 1 <= produced
    BY <1>2
  <1>4. Head(inbox) \in Item
    BY <1>1
  <1> QED
    BY <1>1, <1>2, <1>3, <1>4, FirstDone

\* A result is taken, or its item is looked at and still to be announced.
LEMMA PipelineTake == ASSUME TypeOK, PipelineInv, TakeResult PROVE PipelineInv'
  <1>1. /\ UNCHANGED <<runPc, pr, handled, produced, deposited, booked, events>>
        /\ loopPc = "recv" /\ loopPc' = (IF inbox' = <<>> THEN "recv" ELSE "item")
    BY DEF TakeResult, changerVars, runVars, historyVars
  <1>2. Path' = Path
    BY PathTake DEF PipelineInv
  <1>3. Handling'
    BY <1>1 DEF PipelineInv, Handling
  <1> QED
    BY <1>1, <1>2, <1>3, SameNotices, InOrder DEF PipelineInv

\* A valid coin is counted in the next step, a lever and a coin of no known
\* nominal are not counted.
LEMMA PipelineLook == ASSUME TypeOK, PipelineInv, ReadCredit \/ RequestReturn PROVE PipelineInv'
  <1>1. /\ UNCHANGED <<inbox, pch, pr, report, runPc, handled, produced, deposited, booked, events>>
        /\ loopPc = "item" /\ Head(inbox).status \in {"Credit", "ReturnRequest"}
        /\ \/ loopPc' = "store" /\ Head(inbox).status = "Credit"
           \/ loopPc' = "emit" /\ (Head(inbox).status = "Credit" => Head(inbox).nominal \notin Nominals)
    BY DEF ReadCredit, RequestReturn, changerVars, runVars, historyVars
  <1>2. Path' = Path
    BY <1>1 DEF Path, Slot
  <1>3. Handling' /\ Announced' /\ PipelineInOrder'
    BY <1>1, <1>2, SameEvents, InOrder, InOrderNext DEF PipelineInv, Handling
  <1>4. \A n \in Nominals : CoinsOf(n, Unbooked') = CoinsOf(n, Unbooked)
    BY <1>1, <1>2, UnbookedNext DEF Unbooked, CoinsOf
  <1>5. CoinsBookedOnce'
    BY <1>1, <1>4, SameCoins DEF PipelineInv
  <1> QED
    BY <1>3, <1>5 DEF PipelineInv

\* A coin goes from the path to the credit.
LEMMA PipelineStore == ASSUME TypeOK, PipelineInv, StoreCredit PROVE PipelineInv'
  <1>1. /\ UNCHANGED <<inbox, pch, pr, report, runPc, handled, produced, deposited, events>>
        /\ loopPc = "store" /\ loopPc' = "emit"
        /\ booked' = [booked EXCEPT ![Head(inbox).nominal] = @ + 1]
    BY DEF StoreCredit, changerVars, runVars
  <1>2. /\ inbox # <<>> /\ Head(inbox).status = "Credit" /\ Head(inbox).nominal \in Nominals
        /\ booked \in Coins /\ deposited \in Coins
    BY <1>1 DEF TypeOK, LoopTypeOK, RestTypeOK, ChangerTypeOK, PipelineInv, Handling
  <1>3. Path' = Path
    BY <1>1 DEF Path, Slot
  <1>4. Handling' /\ Announced' /\ PipelineInOrder'
    BY <1>1, <1>2, <1>3, SameEvents, InOrder, InOrderNext DEF PipelineInv, Handling
  <1>5. Head(inbox) \in Notices(Path)
    BY <1>2, AtWork
  <1>6. Unbooked = Notices(Path) /\ Unbooked' = Unbooked \ {Head(inbox)}
    BY <1>1, <1>3, UnbookedNext DEF Unbooked
  <1>7. CoinsBookedOnce'
    <2> SUFFICES ASSUME NEW n \in Nominals
                 PROVE  deposited[n] = booked'[n] + Cardinality(CoinsOf(n, Unbooked'))
      BY <1>1 DEF CoinsBookedOnce
    <2>1. /\ deposited[n] = booked[n] + Cardinality(CoinsOf(n, Unbooked))
          /\ deposited[n] \in Nat /\ booked[n] \in Nat
      BY <1>2 DEF PipelineInv, CoinsBookedOnce, Coins
    <2>2. CASE Head(inbox).nominal = n
      <3>1. /\ CoinsOf(n, Unbooked') = CoinsOf(n, Unbooked) \ {Head(inbox)}
            /\ Head(inbox) \in CoinsOf(n, Unbooked)
        BY <1>2, <1>5, <1>6, <2>2 DEF CoinsOf
      <3>2. IsFiniteSet(CoinsOf(n, Unbooked))
        <4>1. IsFiniteSet(Notices(Path)) /\ CoinsOf(n, Unbooked) \subseteq Notices(Path)
          BY <1>6, PathType, NoticesFinite DEF CoinsOf
        <4> QED
          BY <4>1, FS_Subset
      <3>3. Cardinality(CoinsOf(n, Unbooked')) = Cardinality(CoinsOf(n, Unbooked)) - 1
        BY <3>1, <3>2, FS_RemoveElement
      <3>4. Cardinality(CoinsOf(n, Unbooked)) \in Nat
        BY <3>2, FS_CardinalityType
      <3>5. booked'[n] = booked[n] + 1
        BY <1>1, <1>2, <2>2 DEF Coins
      <3> QED
        BY <2>1, <3>3, <3>4, <3>5
    <2>3. CASE Head(inbox).nominal # n
      <3>1. CoinsOf(n, Unbooked') = CoinsOf(n, Unbooked)
        BY <1>6, <2>3 DEF CoinsOf
      <3>2. booked'[n] = booked[n]
        BY <1>1, <1>2, <2>3 DEF Coins
      <3> QED
        BY <2>1, <3>1, <3>2
    <2> QED
      BY <2>2, <2>3
  <1> QED
    BY <1>4, <1>7 DEF PipelineInv

\* An item is done with: announced if it is a coin or the lever, logged if not.
LEMMA PipelineDone ==
  ASSUME TypeOK, PipelineInv, inbox # <<>>, NextItem,
         UNCHANGED <<pch, pr, report, runPc, produced, deposited, booked>>,
         \/ loopPc = "emit" /\ Head(inbox).status # "Busy"
         \/ loopPc = "item" /\ Head(inbox).status # "Credit"
  PROVE  Handling' /\ PipelineInOrder' /\ CoinsBookedOnce'
  <1>1. Path' = Tail(Path)
    BY PathNext
  <1>2. /\ loopPc' \in {"recv", "item"} /\ (loopPc' = "recv" => inbox' = <<>>)
        /\ handled' = IF Head(inbox).status = "Busy" THEN handled ELSE Head(inbox).mark
    BY DEF NextItem
  <1>3. Ordered(Path', handled', produced)
    BY <1>1, <1>2, AtWork
  <1>4. handled' <= produced
    <2>1. CASE Head(inbox).status = "Busy"
      BY <1>2, <2>1 DEF PipelineInv, Handling
    <2>2. CASE Head(inbox).status # "Busy"
      BY <1>2, <2>2, AtWork
    <2> QED
      BY <2>1, <2>2
  <1>5. Unbooked' = Notices(Tail(Path))
    BY <1>1, <1>2, UnbookedNext
  <1>6. \A n \in Nominals : CoinsOf(n, Unbooked') = CoinsOf(n, Unbooked)
    <2>1. CASE loopPc = "emit" /\ Head(inbox).status # "Busy"
      <3>1. Unbooked' = Unbooked
        BY <1>5, <2>1, AtWork DEF Unbooked
      <3> QED
        BY <3>1
    <2>2. CASE loopPc = "item" /\ Head(inbox).status # "Credit"
      <3>1. Unbooked' \in {Unbooked, Unbooked \ {Head(inbox)}}
        BY <1>5, <2>2, AtWork DEF Unbooked
      <3> QED
        BY <2>2, <3>1 DEF CoinsOf
    <2> QED
      BY <2>1, <2>2
  <1>7. Handling'
    BY <1>2, <1>4 DEF PipelineInv, Handling
  <1>8. PipelineInOrder'
    BY <1>3, InOrderNext
  <1> QED
    BY <1>6, <1>7, <1>8, SameCoins DEF PipelineInv

LEMMA PipelineEmit == ASSUME TypeOK, PipelineInv, EmitEvent PROVE PipelineInv'
  <1>1. /\ UNCHANGED <<pch, pr, report, runPc, produced, deposited, booked>>
        /\ loopPc = "emit" /\ NextItem
    BY DEF EmitEvent, changerVars, runVars
  <1>2. inbox # <<>> /\ Head(inbox).status \in {"Credit", "ReturnRequest"}
    BY <1>1 DEF TypeOK, LoopTypeOK, PipelineInv, Handling
  <1>3. Handling' /\ PipelineInOrder' /\ CoinsBookedOnce'
    BY <1>1, <1>2, PipelineDone
  <1>4. handled' = handled + 1 /\ Head(inbox).mark = handled + 1 /\ handled \in Nat
    BY <1>1, <1>2, AtWork DEF NextItem, TypeOK, RestTypeOK
  <1>5. PICK e \in Event : events' = Append(events, e) /\ e.mark = handled + 1
    <2> DEFINE f == [name |-> IF Head(inbox).status = "Credit" THEN "credit" ELSE "abort",
                     mark |-> Head(inbox).mark]
    <2>1. f \in Event /\ f.mark = handled + 1 /\ events' = Append(events, f)
      BY <1>4 DEF EmitEvent, Event
    <2> HIDE DEF f
    <2> QED
      BY <2>1
  <1>6. /\ events \in Seq(Event) /\ Len(events) \in Nat /\ Len(events') = Len(events) + 1
        /\ \A i \in 1..Len(events) : events'[i] = events[i]
        /\ events'[Len(events) + 1] = e
    <2>1. events \in Seq(Event)
      BY DEF TypeOK, PipeTypeOK
    <2> QED
      BY <1>5, <2>1, AppendProperties, LenProperties
  <1>7. \A i \in 1..Len(events) : events[i].mark \in Nat /\ events[i].mark <= handled
    <2> TAKE i \in 1..Len(events)
    <2>1. events[i] \in Event
      BY <1>6, ElementOfSeq
    <2> QED
      BY <2>1 DEF Event, PipelineInv, Announced
  <1>8. \A i \in 1..Len(events') : i \in 1..Len(events) \/ i = Len(events) + 1
    BY <1>6
  <1>9. ASSUME NEW i \in 1..Len(events') PROVE events'[i].mark <= handled'
    BY <1>4, <1>5, <1>6, <1>7, <1>8
  <1>10. ASSUME NEW i \in 1..Len(events'), NEW j \in 1..Len(events'), i < j
         PROVE  events'[i].mark < events'[j].mark
    <2>1. i \in 1..Len(events)
      BY <1>6, <1>10
    <2>2. CASE j \in 1..Len(events)
      BY <1>6, <1>10, <2>1, <2>2 DEF PipelineInv, Announced
    <2>3. CASE j = Len(events) + 1
      BY <1>4, <1>5, <1>6, <1>7, <2>1, <2>3
    <2> QED
      BY <1>8, <2>2, <2>3
  <1>11. Announced'
    BY <1>9, <1>10 DEF Announced
  <1> QED
    BY <1>3, <1>11 DEF PipelineInv

LEMMA PipelineLog == ASSUME TypeOK, PipelineInv, LogItem PROVE PipelineInv'
  <1>1. /\ UNCHANGED <<pch, pr, report, runPc, produced, deposited, booked, events>>
        /\ loopPc = "item" /\ Head(inbox).status # "Credit" /\ NextItem
    BY DEF LogItem, changerVars, runVars
  <1>2. inbox # <<>>
    BY <1>1 DEF TypeOK, LoopTypeOK
  <1>3. Handling' /\ PipelineInOrder' /\ CoinsBookedOnce'
    BY <1>1, <1>2, PipelineDone
  <1>4. handled \in Nat /\ handled' \in {handled, handled + 1}
    BY <1>1, <1>2, AtWork DEF NextItem, TypeOK, RestTypeOK
  <1>5. \A i \in 1..Len(events) : events[i].mark \in Nat /\ events[i].mark <= handled
    <2> TAKE i \in 1..Len(events)
    <2>1. events[i] \in Event
      BY ElementOfSeq DEF TypeOK, PipeTypeOK
    <2> QED
      BY <2>1 DEF Event, PipelineInv, Announced
  <1>6. \A i \in 1..Len(events) : events[i].mark <= handled'
    BY <1>4, <1>5
  <1>7. Announced'
    BY <1>1, <1>6 DEF PipelineInv, Announced
  <1> QED
    BY <1>3, <1>7 DEF PipelineInv

LEMMA PipelineNext == TypeOK /\ PipelineInv /\ [Next]_vars => PipelineInv'
  <1> SUFFICES ASSUME TypeOK, PipelineInv, [Next]_vars PROVE PipelineInv'
    OBVIOUS
  <1>1. CASE Loop
    BY <1>1, PipelineTake, PipelineLook, PipelineStore, PipelineEmit, PipelineLog DEF Loop
  <1>2. ASSUME NEW c \in Callers, Abort(c) PROVE UNCHANGED <<Way, events, runPc>>
    BY <1>2 DEF Abort, TakeLock, CountCredit, VisitNominal, Dispensed, StartPayout, DispenseError,
       LoseDispense, AbortFails, AllVisited, ClearNominal, AbortReturns, Way, changerVars,
       runVars, loopVars, historyVars
  <1>3. CASE RequestRestart \/ StopBill \/ SaleStep
    <2>1. UNCHANGED <<Way, events, runPc>>
      BY <1>3 DEF RequestRestart, StopBill, SaleStep, WithdrawPrepare, CountForSale, DecideSale,
         WithdrawCommit, MapRace, Way,
         changerVars, runVars, loopVars, historyVars
    <2> QED
      BY <2>1, PipelineSame
  <1>4. CASE UNCHANGED vars
    <2>1. UNCHANGED <<Way, events, runPc>>
      BY <1>4 DEF vars, Way, changerVars, runVars, loopVars, historyVars
    <2> QED
      BY <2>1, PipelineSame
  <1>5. ASSUME NEW c \in Callers, Abort(c) PROVE PipelineInv'
    BY <1>2, <1>5, PipelineSame
  <1> QED
    BY <1>1, <1>3, <1>4, <1>5, PipelineOutside, PipelineRun, PipelineMain
    DEF Next, Dead, SaleStep

LEMMA PipelineInit == Init => PipelineInv
  <1> SUFFICES ASSUME Init PROVE PipelineInv
    OBVIOUS
  <1>1. /\ inbox = <<>> /\ pch = <<>> /\ pr = <<>> /\ report = <<>> /\ events = <<>>
        /\ handled = 0 /\ produced = 0 /\ loopPc = "recv"
        /\ deposited = NoCoins /\ booked = NoCoins
    BY DEF Init, ChangerInit
  <1>2. Len(events) = 0 /\ Len(pch) = 0
    BY <1>1
  <1>3. Path = <<>>
    <2>1. Slot(1) = <<>> /\ Slot(2) = <<>>
      BY <1>2 DEF Slot
    <2>2. <<>> \o <<>> = <<>>
      BY EmptySeq, ConcatEmptySeq
    <2> QED
      BY <1>1, <2>1, <2>2 DEF Path
  <1>4. Noticed(Path) = {} /\ Notices(Path) = {}
    BY <1>3 DEF Noticed, Notices
  <1>5. PipelineInOrder
    BY <1>1, <1>4 DEF PipelineInOrder
  <1>6. CoinsBookedOnce
    <2> SUFFICES ASSUME NEW n \in Nominals
                 PROVE  deposited[n] = booked[n] + Cardinality(CoinsOf(n, Unbooked))
      BY DEF CoinsBookedOnce
    <2>1. NoCoins[n] = 0
      BY DEF NoCoins
    <2>2. CoinsOf(n, Unbooked) = {}
      BY <1>4 DEF CoinsOf, Unbooked
    <2>3. Cardinality(CoinsOf(n, Unbooked)) = 0
      BY <2>2, FS_EmptySet
    <2> QED
      BY <1>1, <2>1, <2>3
  <1>7. Handling /\ Announced
    BY <1>1, <1>2 DEF Handling, Announced
  <1> QED
    BY <1>5, <1>6, <1>7 DEF PipelineInv

-----------------------------------------------------------------------------
(***************************************************************************)
(* The properties hold in every behaviour.                                 *)
(***************************************************************************)
LEMMA PipelineInvariant == Spec => [](TypeOK /\ PipelineInv)
  <1>1. Init => TypeOK /\ PipelineInv
    BY InitType, PipelineInit
  <1>2. TypeOK /\ PipelineInv /\ [Next]_vars => (TypeOK /\ PipelineInv)'
    BY NextType, PipelineNext
  <1> QED
    BY <1>1, <1>2, PTL DEF Spec

\* No notification is lost, repeated or overtaken between the changer and the
\* end of pollResultLoop, whatever polls fail and however long channels are
\* full.
THEOREM NoNoticeIsLost == Spec => []PipelineInOrder
  <1>1. PipelineInv => PipelineInOrder
    BY DEF PipelineInv
  <1> QED
    BY <1>1, PipelineInvariant, PTL

\* Every accepted coin is on its way or was added to the credit, once.
THEOREM CoinsAreBooked == Spec => []CoinsBookedOnce
  <1>1. PipelineInv => CoinsBookedOnce
    BY DEF PipelineInv
  <1> QED
    BY <1>1, PipelineInvariant, PTL

\* An abort event is in the channel only after the coins inserted before the
\* lever was pressed are in the credit and after their events.
THEOREM LeverIsLast == Spec => []LeverCoversEarlierCoins
  <1>1. TypeOK /\ PipelineInv => LeverCoversEarlierCoins
    <2> SUFFICES ASSUME TypeOK, PipelineInv, NEW i \in 1..Len(events)
                 PROVE  /\ \A x \in Unbooked : x.mark > events[i].mark
                        /\ \A j \in 1..(i-1) : events[j].mark < events[i].mark
      BY DEF LeverCoversEarlierCoins
    <2>1. /\ events[i] \in Event /\ handled \in Nat /\ produced \in Nat
          /\ Len(events) \in Nat
      BY ElementOfSeq, LenProperties DEF TypeOK, PipeTypeOK, RestTypeOK, ChangerTypeOK
    <2>2. events[i].mark \in Nat /\ events[i].mark <= handled
      BY <2>1 DEF Event, PipelineInv, Announced
    <2>3. ASSUME NEW x \in Unbooked PROVE x.mark > events[i].mark
      <3>1. x.mark \in (handled + 1)..produced
        BY InOrder DEF PipelineInv, Ordered, Unbooked
      <3> QED
        BY <2>1, <2>2, <3>1
    <2>4. ASSUME NEW j \in 1..(i - 1) PROVE events[j].mark < events[i].mark
      <3>1. j \in 1..Len(events) /\ j < i
        BY <2>1
      <3> QED
        BY <3>1 DEF PipelineInv, Announced
    <2> QED
      BY <2>3, <2>4
  <1> QED
    BY <1>1, PipelineInvariant, PTL
=============================================================================
