----------------------------- MODULE GpioMdb_proofs -----------------------------
(*****************************************************************************)
(* Proofs about the MDB half of the iodin server, for every length of        *)
(* blocks, every width of the clock and all timeouts within it.              *)
(*****************************************************************************)
EXTENDS GpioMdbProperties, SequenceTheorems, WellFoundedInduction, TLAPS

-----------------------------------------------------------------------------
(***************************************************************************)
(* The inductive invariant.                                                *)
(***************************************************************************)
InTx == pc \in {"sending", "read", "check"}

\* Requests on the air are those of transactions.
Requests ==
  /\ \A i \in 1..Len(air) : air[i].wave = "request" => air[i].of \in Ids
  /\ InTx => req.id \in Ids /\ mdb
  /\ pc = "new" => ~mdb
  /\ pc \in {"read", "check"} => sent = "request"

\* Nothing of a transaction is kept between two of them.
Rest ==
  pc \in {"idle", "new", "break"} =>
    elapsed = 0 /\ ~heard /\ response = <<>> /\ sent = "request"

\* While the time is not over the clock is behind the deadline, and as far behind
\* as there is time left, unless the deadline wrapped.
Clock ==
  InTx /\ sent = "request" =>
    \/ build = "release" /\ deadline < Limit
    \/ deadline >= Limit /\ (elapsed <= Limit => now = (deadline - Limit) + elapsed)

\* The waves that exist, by where exec is.
Owned ==
  pc # "gone" =>
    waves = (IF mdb THEN {"ack", "nak"} ELSE {}) \cup (IF InTx THEN {"request"} ELSE {})

\* Behind the first word the buffer is as zero as it began.
ZeroBuf == zeroed => \A i \in 1..(Block - 1) : buf[i] = 0

\* In a transaction that began with nothing pending, what the peripheral has said
\* is what was read, what has arrived and what is still owed, in this order.
Dialogue ==
  InTx /\ tidy =>
    /\ told \in Answers(req.id)
    /\ sent = "request" =>
         /\ (response \o fifo) \o owed = told
         /\ \A i \in 1..Len(response) : ~Ends(response[i])
         /\ \/ air = <<>>
            \/ /\ pc = "sending" /\ told = <<>>
               /\ Len(air) = 1 /\ air[1].wave = "request" /\ air[1].of = req.id
    /\ sent # "request" =>
         /\ pc = "sending" /\ fifo = <<>> /\ owed = <<>>
         /\ Len(told) > 1 /\ response = Front(told)
         /\ sent = IF Last(told).val = "chk" THEN "ack" ELSE "nak"
         /\ \A i \in 1..Len(air) : air[i].wave = sent

\* No request is on the air behind an answer that was read to its end.
AirAfterAnswer ==
  Answered /\ tidy => \A i \in 1..Len(air) : air[i].wave # "request"

\* An open or a break in progress remembers no result.
Forgotten == pc \in {"new", "break"} => result.of = 0

\* As long as no transaction ended early each begins and ends with nothing pending.
Undisturbed ==
  "tx" \notin broken =>
    /\ pc \in {"idle", "new", "break"} => ~Pending
    /\ InTx => tidy

Base == TypeOK /\ Requests /\ Rest
Talk == Dialogue /\ AnswersItself /\ AirAfterAnswer /\ Forgotten /\ Undisturbed

IInv == Base /\ Clock /\ PortHeld /\ Owned /\ ZeroBuf /\ StaleMarksNeedLongReads /\ Talk

-----------------------------------------------------------------------------
(***************************************************************************)
(* Answers.                                                                *)
(***************************************************************************)
\* A data word and the word that ends an answer.
W(id, v, i) == [of |-> id, val |-> v, ix |-> i]

\* Data words with an end behind them.
DataAnswer(id, n, v) == Append([i \in 1..n |-> W(id, "data", i)], W(id, v, n))

\* They are a sequence of words.
LEMMA DataAnswerShape ==
  ASSUME NEW id \in Ids, NEW n \in 1..(Block - 1), NEW v \in {"chk", "bad"}
  PROVE  LET a == DataAnswer(id, n, v)
         IN /\ a \in Seq(Word) /\ Len(a) = n + 1 /\ a[n + 1] = W(id, v, n)
            /\ \A i \in 1..n : a[i] = W(id, "data", i)
  <1> DEFINE d == [i \in 1..n |-> W(id, "data", i)]
             a == DataAnswer(id, n, v)
  <1>1. W(id, v, n) \in Word /\ \A i \in 1..n : W(id, "data", i) \in Word
    BY GpioAssumption DEF Word, W
  <1>2. d \in Seq(Word) /\ Len(d) = n /\ \A i \in 1..n : d[i] = W(id, "data", i)
    BY <1>1
  <1>3. a = Append(d, W(id, v, n))
    BY DEF DataAnswer
  <1> HIDE DEF d, a
  <1>4. /\ a \in Seq(Word) /\ Len(a) = n + 1
        /\ a[n + 1] = W(id, v, n) /\ \A i \in 1..n : a[i] = d[i]
    BY <1>1, <1>2, <1>3
  <1>5. \A i \in 1..n : a[i] = W(id, "data", i)
    BY <1>2, <1>4
  <1> QED
    BY <1>4, <1>5 DEF a

\* What a peripheral can answer.
LEMMA AnswerCases ==
  ASSUME NEW id \in Ids, NEW a \in Answers(id), a # <<>>
  PROVE  \/ \E v \in {"ack", "nak"} : a = <<W(id, v, 0)>>
         \/ \E n \in 1..(Block - 1), v \in {"chk", "bad"} : a = DataAnswer(id, n, v)
  <1>1. Answers(id) = {<<>>, <<W(id, "ack", 0)>>, <<W(id, "nak", 0)>>}
                \cup {DataAnswer(id, n, v) : n \in 1..(Block - 1), v \in {"chk", "bad"}}
    BY DEF Answers, DataAnswer, W
  <1> QED
    BY <1>1

\* What an answer looks like when it is not silence: only its last word ends it.
LEMMA AnswerShape ==
  ASSUME NEW id \in Ids, NEW a \in Answers(id), a # <<>>
  PROVE  /\ a \in Seq(Word) /\ Len(a) \in 1..Block
         /\ \A i \in 1..Len(a) : a[i].of = id /\ (Ends(a[i]) <=> i = Len(a))
         /\ \A i \in 1..(Len(a) - 1) : a[i].ix = i
         /\ Len(a) = 1 => a[Len(a)].val \in {"ack", "nak"}
         /\ Len(a) > 1 => a[Len(a)].val \in {"chk", "bad"} /\ a[Len(a)].ix = Len(a) - 1
  <1>1. ASSUME NEW v \in {"ack", "nak"}, a = <<W(id, v, 0)>>
        PROVE  a \in Seq(Word) /\ Len(a) = 1 /\ a[1] = W(id, v, 0)
    <2>1. W(id, v, 0) \in Word
      BY GpioAssumption DEF Word, W
    <2> QED
      BY <1>1, <2>1
  <1>2. CASE \E v \in {"ack", "nak"} : a = <<W(id, v, 0)>>
    BY <1>1, <1>2, GpioAssumption DEF Ends, W
  <1>3. ASSUME NEW n \in 1..(Block - 1), NEW v \in {"chk", "bad"},
               a = DataAnswer(id, n, v)
        PROVE  /\ a \in Seq(Word) /\ Len(a) \in 2..Block
               /\ \A i \in 1..Len(a) : a[i].of = id /\ (Ends(a[i]) <=> i = Len(a))
               /\ \A i \in 1..(Len(a) - 1) : a[i].ix = i
               /\ a[Len(a)].val \in {"chk", "bad"} /\ a[Len(a)].ix = Len(a) - 1
    <2>1. /\ a \in Seq(Word) /\ Len(a) = n + 1 /\ a[n + 1] = W(id, v, n)
          /\ \A i \in 1..n : a[i] = W(id, "data", i)
      BY <1>3, DataAnswerShape
    <2>2. a[n + 1].of = id /\ a[n + 1].val = v /\ a[n + 1].ix = n /\ Ends(a[n + 1])
      BY <2>1 DEF W, Ends
    <2>3. ASSUME NEW i \in 1..n PROVE a[i].of = id /\ ~Ends(a[i]) /\ a[i].ix = i
      <3>1. a[i] = W(id, "data", i)
        BY <2>1
      <3> QED
        BY <3>1 DEF W, Ends
    <2> QED
      BY <2>1, <2>2, <2>3, GpioAssumption
  <1>4. CASE \E n \in 1..(Block - 1), v \in {"chk", "bad"} :
               a = DataAnswer(id, n, v)
    <2>1. PICK n \in 1..(Block - 1), v \in {"chk", "bad"} :
            a = DataAnswer(id, n, v)
      BY <1>4
    <2>2. /\ a \in Seq(Word) /\ Len(a) \in 2..Block
          /\ \A i \in 1..Len(a) : a[i].of = id /\ (Ends(a[i]) <=> i = Len(a))
          /\ \A i \in 1..(Len(a) - 1) : a[i].ix = i
          /\ a[Len(a)].val \in {"chk", "bad"} /\ a[Len(a)].ix = Len(a) - 1
      BY <1>3, <2>1, Zenon
    <2> QED
      BY <2>2, GpioAssumption
  <1> QED
    BY <1>2, <1>4, AnswerCases

\* Answers are words.
LEMMA AnswersAreWords == ASSUME NEW id \in Ids PROVE Answers(id) \subseteq Seq(Word)
  <1> SUFFICES ASSUME NEW a \in Answers(id) PROVE a \in Seq(Word)
    OBVIOUS
  <1>1. CASE a = <<>>
    BY <1>1
  <1>2. CASE a # <<>>
    BY <1>2, AnswerShape
  <1> QED
    BY <1>1, <1>2

\* The first word that ends an answer, as Read finds it.
LEMMA FirstEnd ==
  ASSUME NEW n \in Nat, NEW ends \in SUBSET (1..n), ends # {}
  PROVE  LET first == CHOOSE i \in ends : \A j \in ends : i <= j
         IN first \in ends /\ \A j \in ends : first <= j
  <1>0. ends \subseteq Nat
    OBVIOUS
  <1>1. PICK i \in ends : \A j \in ends : ~(<<j, i>> \in OpToRel(<, Nat))
    BY <1>0, WFMin, NatLessThanWellFounded, Zenon
  <1>2. ASSUME NEW j \in ends PROVE ~(j < i)
    BY <1>0, <1>1, Zenon DEF OpToRel
  <1>3. \A j \in ends : i <= j
    BY <1>0, <1>2
  <1> QED
    BY <1>3

-----------------------------------------------------------------------------
(***************************************************************************)
(* The clock.                                                              *)
(***************************************************************************)
\* Readings of gpioTick and deadlines are below its width.
LEMMA TickType ==
  ASSUME NEW n \in Nat
  PROVE  /\ n % TickRange \in 0..(TickRange - 1)
         /\ n < TickRange => n % TickRange = n
         /\ TickRange <= n /\ n < TickRange + TickRange => n % TickRange = n - TickRange
  <1>1. TickRange \in Nat /\ TickRange > 0
    BY GpioAssumption
  <1> QED
    BY <1>1

\* The history of the time that has passed stays within its bound.
LEMMA WaitType ==
  ASSUME TypeOK, NEW d \in 1..MaxDelay, WaitOn(d)
  PROVE  now' \in 0..(TickRange - 1) /\ elapsed' \in 0..MaxElapsed
  <1>1. now + d \in Nat
    BY GpioAssumption DEF TypeOK
  <1>2. MaxElapsed \in Nat
    BY GpioAssumption DEF MaxElapsed
  <1>3. now' \in 0..(TickRange - 1)
    BY <1>1, TickType DEF WaitOn, AfterDelay
  <1> QED
    BY <1>2, <1>3, GpioAssumption DEF WaitOn, TypeOK

\* A deadline lies ahead by its timeout, or has wrapped.
LEMMA DeadlineType ==
  ASSUME NEW at \in 0..(TickRange - 1), NEW timeout \in 1..(TickRange - 1),
         build \in {"debug", "release"}, ~Overflows(at, timeout)
  PROVE  /\ Deadline(at, timeout) \in 0..(TickRange - 1)
         /\ \/ build = "release" /\ Deadline(at, timeout) < timeout
            \/ Deadline(at, timeout) >= timeout /\ at = Deadline(at, timeout) - timeout
  <1>1. TickRange \in Nat /\ TickRange > 0 /\ at + timeout \in Nat
        /\ at + timeout < TickRange + TickRange
    BY GpioAssumption
  <1>2. CASE at + timeout < TickRange
    BY <1>1, <1>2, TickType DEF Deadline
  <1>3. CASE at + timeout >= TickRange
    <2>1. build = "release"
      BY <1>3 DEF Overflows
    <2>2. (at + timeout) % TickRange = at + timeout - TickRange
      BY <1>1, <1>3, TickType
    <2> QED
      BY <1>1, <1>3, <2>1, <2>2 DEF Deadline
  <1> QED
    BY <1>1, <1>2, <1>3

-----------------------------------------------------------------------------
(***************************************************************************)
(* Types.                                                                  *)
(***************************************************************************)
\* The server before its first command.
LEMMA InitBase == Init => Base
  <1> SUFFICES ASSUME Init PROVE Base
    OBVIOUS
  <1>1. 0 \in 0..(TickRange - 1) /\ 0 \in 0..MaxTx /\ 0 \in 0..MaxFaults /\ 0 \in 0..MaxElapsed
    BY GpioAssumption DEF MaxElapsed
  <1>2. buf \in Marks
    BY GpioAssumption DEF Init, Marks
  <1>3. req \in [id : 0..MaxTx, len : 0..Block]
    BY <1>1, GpioAssumption DEF Init, NoReq
  <1>4. result.of \in 0..MaxTx /\ result.status \in Statuses /\ result.words \in Seq(Word)
    BY <1>1 DEF Init, NoResult, Statuses
  <1>5. TypeOK
    <2>1. /\ fifo \in Seq(Word) /\ response \in Seq(Word) /\ owed \in Seq(Word)
          /\ told \in Seq(Word)
          /\ air \in Seq([wave : {"ack", "nak", "request"}, of : 0..MaxTx, marks : Seq({0, 1})])
      BY EmptySeq DEF Init
    <2> QED
      BY <1>1, <1>2, <1>3, <1>4, <2>1 DEF Init, TypeOK
  <1> QED
    BY <1>5 DEF Init, Base, Requests, Rest, InTx

\* A transaction that returns leaves nothing behind but its result.
LEMMA RespondType ==
  ASSUME Base, InTx, NEW status \in Statuses, NEW words \in Seq(Word), Respond(status, words)
  PROVE  /\ now' \in 0..(TickRange - 1) /\ start' \in 0..(TickRange - 1)
         /\ deadline' \in 0..(TickRange - 1) /\ elapsed' \in 0..MaxElapsed
         /\ pc' = "idle" /\ mdb' = mdb /\ req' = req /\ heard' = FALSE
         /\ waves' \subseteq {"ack", "nak", "request"}
         /\ response' \in Seq(Word) /\ sent' \in {"ack", "nak", "request"}
         /\ result'.of \in 0..MaxTx /\ result'.status \in Statuses
         /\ result'.words \in Seq(Word)
         /\ Rest'
  <1>1. 0 \in 0..(TickRange - 1) /\ 0 \in 0..MaxElapsed
    BY GpioAssumption DEF MaxElapsed
  <1>2. req.id \in 0..MaxTx
    BY DEF Base, TypeOK
  <1>3. waves' \subseteq waves
    BY DEF Respond
  <1> QED
    BY <1>1, <1>2, <1>3 DEF Respond, Rest, Base, TypeOK

\* A call that fails is counted.
LEMMA FaultType == ASSUME TypeOK, Fault \/ NoFault PROVE faults' \in 0..MaxFaults
  <1>1. faults \in 0..MaxFaults /\ MaxFaults \in Nat
    BY GpioAssumption DEF TypeOK
  <1>2. CASE Fault
    BY <1>1, <1>2 DEF Fault, MayFail
  <1>3. CASE NoFault
    BY <1>1, <1>3 DEF NoFault
  <1> QED
    BY <1>2, <1>3

\* MDB_OPEN, up to where the old driver is gone.
LEMMA OpenBase == ASSUME Base, NEW valid \in BOOLEAN, ExecOpen(valid) PROVE Base'
  <1>1. /\ pc = "idle" /\ pc' \in {"new", "idle"} /\ mdb' = FALSE /\ waves' = {}
        /\ Forget /\ UNCHANGED <<build, txVars, buf, req, txPin, owed, zeroed>>
    BY DEF ExecOpen
  <1>2. /\ faults' \in 0..MaxFaults /\ serial' \in BOOLEAN /\ fifo' \in {fifo, <<>>}
        /\ air' \in {air, <<>>} /\ broken' \subseteq {"new", "close", "reset", "tx"}
    <2>1. CASE NoFault /\ UNCHANGED <<serial, fifo, air, broken>>
      BY <2>1, FaultType DEF Base, TypeOK
    <2>2. CASE Drop
      BY <2>2, FaultType DEF Drop, Base, TypeOK
    <2> QED
      BY <2>1, <2>2 DEF ExecOpen
  <1>3. 0 \in 0..MaxTx /\ "OK" \in Statuses
    BY GpioAssumption DEF Statuses
  <1>4. TypeOK'
    BY <1>1, <1>2, <1>3, EmptySeq, ZenonT(40) DEF Base, TypeOK, Forget, NoResult, txVars
  <1>5. Requests' /\ Rest'
    BY <1>1, <1>2 DEF Base, Requests, Rest, InTx, txVars
  <1> QED
    BY <1>4, <1>5 DEF Base

\* What a step leaves alone keeps its type; the rest has to be shown.
LEMMA QuietBase ==
  ASSUME Base, UNCHANGED <<build, txVars, driverVars, serial, fifo, air, owed, zeroed>>,
         faults' \in 0..MaxFaults, txPin' \in {0, 1},
         pc' \in {"idle", "break", "gone", pc}, told' \in {told, <<>>}, tidy' \in BOOLEAN,
         result' \in {result, NoResult},
         broken' \subseteq {"new", "close", "reset", "tx"},
         pc \in {"idle", "break"}
  PROVE  Base'
  <1>0. 0 \in 0..MaxTx /\ "OK" \in Statuses /\ <<>> \in Seq(Word)
    BY GpioAssumption, EmptySeq DEF Statuses
  <1>1. result'.of \in 0..MaxTx /\ result'.status \in Statuses /\ result'.words \in Seq(Word)
    <2>1. CASE result' = result
      BY <2>1 DEF Base, TypeOK
    <2>2. CASE result' = NoResult
      BY <1>0, <2>2 DEF NoResult
    <2> QED
      BY <2>1, <2>2
  <1>a. pc' \in {"idle", "new", "sending", "read", "check", "break", "gone"}
        /\ told' \in Seq(Word)
    BY <1>0 DEF Base, TypeOK
  <1>2. TypeOK'
    BY <1>1, <1>a DEF Base, TypeOK, txVars, driverVars
  <1>3. Requests' /\ Rest'
    BY DEF Base, Requests, Rest, InTx, txVars, driverVars
  <1> QED
    BY <1>2, <1>3 DEF Base

\* MDB_RESET and a command that is refused.
LEMMA ResetBase == ASSUME Base, NEW long \in BOOLEAN, ExecReset(long) PROVE Base'
  <1>1. pc = "idle" /\ txPin' \in {txPin, 1} /\ pc' \in {"idle", "break"}
        /\ Forget /\ UNCHANGED <<build, txVars, driverVars, serial, fifo, air, owed, zeroed,
                                 broken>>
    BY DEF ExecReset, Refuse
  <1>2. faults' \in 0..MaxFaults
    BY FaultType DEF ExecReset, Refuse, Base, NoFault
  <1>3. txPin' \in {0, 1} /\ broken' \subseteq {"new", "close", "reset", "tx"}
    BY <1>1 DEF Base, TypeOK
  <1> QED
    BY <1>1, <1>2, <1>3, QuietBase DEF Forget

LEMMA BreakBase == ASSUME Base, Break PROVE Base'
  <1>1. pc = "break" /\ pc' = "idle" /\ txPin' \in {txPin, 0}
        /\ broken' \subseteq broken \cup {"reset"}
        /\ UNCHANGED <<build, txVars, driverVars, serial, fifo, air, owed, told, tidy,
                       zeroed, result>>
    BY DEF Break
  <1>2. faults' \in 0..MaxFaults
    BY FaultType DEF Break, Base
  <1>3. txPin' \in {0, 1} /\ broken' \subseteq {"new", "close", "reset", "tx"}
        /\ tidy' \in BOOLEAN
    BY <1>1 DEF Base, TypeOK
  <1> QED
    BY <1>1, <1>2, <1>3, QuietBase

\* The second half of an open.
LEMMA NewBase == ASSUME Base, New PROVE Base'
  <1>1. /\ pc = "new" /\ pc' = "idle"
        /\ UNCHANGED <<build, txVars, req, txPin, owed, told, tidy, result>>
    BY DEF New
  <1>2. /\ faults' \in 0..MaxFaults /\ mdb' \in BOOLEAN /\ serial' \in BOOLEAN
        /\ fifo' \in {fifo, <<>>} /\ air' \in {air, <<>>}
        /\ waves' \subseteq {"ack", "nak", "request"} /\ buf' \in Marks /\ zeroed' \in BOOLEAN
        /\ broken' \subseteq {"new", "close", "reset", "tx"}
    BY FaultType DEF New, Base, TypeOK
  <1>3. TypeOK'
    BY <1>1, <1>2, EmptySeq, ZenonT(40) DEF Base, TypeOK, txVars
  <1>4. Requests' /\ Rest'
    BY <1>1, <1>2 DEF Base, Requests, Rest, InTx, txVars
  <1> QED
    BY <1>3, <1>4 DEF Base

\* The marks of a request.
LEMMA MarksType ==
  ASSUME NEW b \in Marks
  PROVE  /\ MarkAddress(b) \in Marks
         /\ \A len \in 1..(Block - 1) : [i \in 1..(len + 1) |-> b[i - 1]] \in Seq({0, 1})
  <1>0. Block \in Nat
    BY GpioAssumption
  <1>1. MarkAddress(b) \in Marks
    BY <1>0 DEF MarkAddress, Marks
  <1>2. ASSUME NEW len \in 1..(Block - 1)
        PROVE  [i \in 1..(len + 1) |-> b[i - 1]] \in Seq({0, 1})
    <2>1. \A i \in 1..(len + 1) : b[i - 1] \in {0, 1}
      BY <1>0 DEF Marks
    <2>2. len + 1 \in Nat
      BY <1>0
    <2> QED
      BY <2>1, <2>2
  <1> QED
    BY <1>1, <1>2

\* The ways a transaction starts: refused, ended by a panic, by a failed call, or
\* with its request on the air.
Starts(len) ==
  /\ req' = [id |-> req.id + 1, len |-> len]
  /\ tidy' = ~Pending /\ told' = <<>>
  /\ UNCHANGED <<build, mdb, serial, fifo, txPin, owed, zeroed, broken>>

Queued(len, at) ==
  /\ len < Block
  /\ ~Overflows(at, MDB_TIMEOUT) /\ ~Overflows(at, TIMEOUT_CHAR * len)
  /\ NoFault
  /\ buf' = MarkAddress(buf)
  /\ deadline' = Deadline(at, MDB_TIMEOUT)
  /\ now' = at /\ start' = at
  /\ waves' = waves \cup {"request"}
  /\ air' = Append(air, [wave |-> "request", of |-> req.id + 1,
                         marks |-> [i \in 1..(len + 1) |-> buf'[i - 1]]])
  /\ pc' = "sending"
  /\ result' = NoResult
  /\ UNCHANGED <<response, sent, heard, elapsed>>

LEMMA TxCases ==
  ASSUME NEW len \in 1..Block, ExecTx(len)
  PROVE  /\ pc = "idle" /\ req.id < MaxTx
         /\ \/ ~mdb /\ Refuse
            \/ /\ mdb /\ Starts(len) /\ pc' = "gone" /\ NoFault /\ result' = NoResult
               /\ UNCHANGED <<txVars, buf, waves, air>>
            \/ /\ mdb /\ Starts(len) /\ len < Block /\ Fault /\ buf' = MarkAddress(buf)
               /\ result' = [of |-> req.id + 1, status |-> "pigpio", words |-> <<>>]
               /\ UNCHANGED <<pc, txVars, waves, air>>
            \/ mdb /\ Starts(len) /\ \E at \in 0..(TickRange - 1) : Queued(len, at)
  BY Zenon DEF ExecTx, Starts, Queued

\* MDB_TX, up to its first wait.
LEMMA TxBase == ASSUME Base, NEW len \in 1..Block, ExecTx(len) PROVE Base'
  <1>0. pc = "idle" /\ req.id < MaxTx /\ req.id \in 0..MaxTx /\ MaxTx \in Nat /\ Block \in Nat
    BY TxCases, GpioAssumption DEF Base, TypeOK
  <1>1. req.id + 1 \in Ids /\ req.id + 1 \in 0..MaxTx /\ 0 \in 0..MaxTx /\ len \in 0..Block
    BY <1>0 DEF Ids
  <1>2. /\ "OK" \in Statuses /\ "pigpio" \in Statuses /\ <<>> \in Seq(Word)
        /\ (~Pending) \in BOOLEAN
    BY EmptySeq DEF Statuses, Pending
  <1>3. CASE ~mdb /\ Refuse
    <2>1. /\ UNCHANGED <<build, txVars, driverVars, serial, fifo, air, owed, zeroed>>
          /\ faults' \in 0..MaxFaults /\ txPin' \in {0, 1} /\ pc' = pc
          /\ broken' \subseteq {"new", "close", "reset", "tx"} /\ Forget
      BY <1>3 DEF Refuse, Base, TypeOK
    <2> QED
      BY <1>0, <2>1, QuietBase DEF Forget
  <1>4. CASE /\ mdb /\ Starts(len) /\ pc' = "gone" /\ NoFault /\ result' = NoResult
             /\ UNCHANGED <<txVars, buf, waves, air>>
    <2>1. faults' \in 0..MaxFaults
      BY <1>4, FaultType DEF Base
    <2>2. TypeOK'
      BY <1>1, <1>2, <1>4, <2>1 DEF Starts, Base, TypeOK, txVars, NoResult
    <2> QED
      BY <1>4, <2>2 DEF Base, Requests, Rest, InTx, txVars
  <1>5. CASE /\ mdb /\ Starts(len) /\ len < Block /\ Fault /\ buf' = MarkAddress(buf)
             /\ result' = [of |-> req.id + 1, status |-> "pigpio", words |-> <<>>]
             /\ UNCHANGED <<pc, txVars, waves, air>>
    <2>1. faults' \in 0..MaxFaults /\ buf' \in Marks
      BY <1>5, FaultType, MarksType DEF Base, TypeOK
    <2>2. TypeOK'
      BY <1>1, <1>2, <1>5, <2>1, SMTT(30) DEF Starts, Base, TypeOK, txVars
    <2> QED
      BY <1>0, <1>5, <2>2 DEF Base, Requests, Rest, InTx, txVars
  <1>6. CASE mdb /\ Starts(len) /\ \E at \in 0..(TickRange - 1) : Queued(len, at)
    <2>1. PICK at \in 0..(TickRange - 1) : Queued(len, at)
      BY <1>6
    <2> DEFINE wave == [wave |-> "request", of |-> req.id + 1,
                        marks |-> [i \in 1..(len + 1) |-> buf'[i - 1]]]
               Air == [wave : {"ack", "nak", "request"}, of : 0..MaxTx, marks : Seq({0, 1})]
    <2>2. faults' \in 0..MaxFaults /\ buf' \in Marks
      BY <2>1, FaultType, MarksType DEF Queued, Base, TypeOK
    <2>3. wave \in Air
      <3>1. [i \in 1..(len + 1) |-> buf'[i - 1]] \in Seq({0, 1})
        <4>1. \A l \in 1..(Block - 1) : [i \in 1..(l + 1) |-> buf'[i - 1]] \in Seq({0, 1})
          BY <2>2, MarksType
        <4>2. len \in 1..(Block - 1)
          BY <1>0, <2>1 DEF Queued
        <4> QED
          BY <4>1, <4>2
      <3> QED
        BY <1>1, <3>1
    <2>4. wave.of \in Ids
      BY <1>1
    <2>5. air' = Append(air, wave) /\ air \in Seq(Air)
      BY <2>1 DEF Queued, Base, TypeOK
    <2> HIDE DEF wave, Air
    <2>6. /\ air' \in Seq(Air) /\ Len(air') = Len(air) + 1
          /\ \A i \in 1..Len(air) : air'[i] = air[i]
          /\ air'[Len(air) + 1] = wave
      BY <2>3, <2>5
    <2>7. deadline' \in 0..(TickRange - 1)
      BY <2>1, DeadlineType, GpioAssumption DEF Queued, Base, TypeOK
    <2>8. waves' \subseteq {"ack", "nak", "request"} /\ now' \in 0..(TickRange - 1)
          /\ start' \in 0..(TickRange - 1)
      BY <2>1 DEF Queued, Base, TypeOK
    <2>9. TypeOK'
      BY <1>1, <1>2, <1>6, <2>1, <2>2, <2>6, <2>7, <2>8 DEF Starts, Queued, Base, TypeOK,
         NoResult, Air
    <2>10. Rest'
      BY <2>1 DEF Queued, Rest
    <2>11. \A i \in 1..Len(air') : air'[i].wave = "request" => air'[i].of \in Ids
      <3> SUFFICES ASSUME NEW i \in 1..Len(air'), air'[i].wave = "request"
                   PROVE  air'[i].of \in Ids
        OBVIOUS
      <3>1. i \in 1..Len(air) \/ i = Len(air) + 1
        BY <2>5, <2>6
      <3> QED
        BY <2>4, <2>6, <3>1 DEF Base, Requests
    <2>12. req'.id \in Ids /\ mdb' /\ sent' = "request"
      BY <1>0, <1>1, <1>6, <2>1 DEF Starts, Queued, Base, Rest
    <2>13. Requests'
      BY <2>1, <2>11, <2>12 DEF Requests, Queued
    <2> QED
      BY <2>9, <2>10, <2>13 DEF Base
  <1> QED
    BY <1>3, <1>4, <1>5, <1>6, TxCases

\* A turn of a waiting loop that goes on waiting.
Waits ==
  \E d \in 1..MaxDelay :
    /\ WaitOn(d)
    /\ UNCHANGED <<deadline, response, sent, heard, mdb, waves, req, broken, result>>

\* The waves a transaction waits for: it goes on waiting, gets to its answer, or ends.
LEMMA SendCases ==
  ASSUME Base, SendWait
  PROVE  /\ pc = "sending" /\ UNCHANGED <<build, buf, busVars, tidy, zeroed>>
         /\ \/ NoFault /\ air = <<>> /\ sent = "request" /\ pc' = "read" /\ start' = 0 /\ Waits
            \/ NoFault /\ air # <<>> /\ UNCHANGED <<pc, start>> /\ Waits
            \/ /\ NoFault /\ air = <<>> /\ UNCHANGED broken
               /\ \/ sent = "ack" /\ Respond("OK", response)
                  \/ sent = "nak" /\ Respond("MdbChecksum", <<>>)
            \/ (NoFault \/ Fault) /\ \E s \in {"send timeout", "pigpio"} : Abandon(s)
  <1>0. pc = "sending" /\ UNCHANGED <<build, buf, busVars, tidy, zeroed>>
    BY DEF SendWait
  <1>1. PICK d \in 1..MaxDelay :
          \/ air = <<>> /\ NoFault /\ Sent(d)
          \/ /\ air # <<>> /\ NoFault
             /\ \/ Abandon("send timeout")
                \/ /\ WaitOn(d)
                   /\ UNCHANGED <<pc, start, deadline, response, sent, heard, mdb,
                                  waves, req, broken, result>>
          \/ Fault /\ Abandon("pigpio")
    BY Zenon DEF SendWait
  <1>2. CASE air = <<>> /\ NoFault /\ Sent(d)
    <2>1. CASE sent = "request"
      BY <1>0, <1>2, <2>1 DEF Sent, Waits
    <2>2. CASE sent = "ack"
      BY <1>0, <1>2, <2>2 DEF Sent
    <2>3. CASE sent = "nak"
      BY <1>0, <1>2, <2>3 DEF Sent
    <2> QED
      BY <2>1, <2>2, <2>3 DEF Base, TypeOK
  <1>3. CASE air # <<>> /\ NoFault /\ Abandon("send timeout")
    BY <1>0, <1>3
  <1>4. CASE /\ air # <<>> /\ NoFault /\ WaitOn(d)
             /\ UNCHANGED <<pc, start, deadline, response, sent, heard, mdb,
                            waves, req, broken, result>>
    BY <1>0, <1>4 DEF Waits
  <1>5. CASE Fault /\ Abandon("pigpio")
    BY <1>0, <1>5
  <1> QED
    BY <1>1, <1>2, <1>3, <1>4, <1>5

\* The end of a transaction.
LEMMA EndBase ==
  ASSUME Base, InTx, NEW status \in Statuses, NEW words \in Seq(Word),
         Respond(status, words), NoFault \/ Fault,
         UNCHANGED <<build, serial, txPin, owed, told, tidy>>,
         buf' \in Marks, fifo' \in Seq(Word), air' = air, zeroed' \in BOOLEAN,
         broken' \subseteq {"new", "close", "reset", "tx"}
  PROVE  Base'
  <1>1. /\ now' \in 0..(TickRange - 1) /\ start' \in 0..(TickRange - 1)
        /\ deadline' \in 0..(TickRange - 1) /\ elapsed' \in 0..MaxElapsed
        /\ pc' = "idle" /\ mdb' = mdb /\ req' = req /\ heard' = FALSE
        /\ waves' \subseteq {"ack", "nak", "request"}
        /\ response' \in Seq(Word) /\ sent' \in {"ack", "nak", "request"}
        /\ result'.of \in 0..MaxTx /\ result'.status \in Statuses
        /\ result'.words \in Seq(Word) /\ Rest'
    BY RespondType
  <1>2. faults' \in 0..MaxFaults
    BY FaultType DEF Base
  <1>3. TypeOK'
    BY <1>1, <1>2 DEF Base, TypeOK
  <1>4. Requests'
    BY <1>1 DEF Base, Requests, InTx
  <1> QED
    BY <1>1, <1>3, <1>4 DEF Base

LEMMA AbandonBase ==
  ASSUME Base, InTx, NEW status \in Statuses, Abandon(status), NoFault \/ Fault,
         UNCHANGED <<build, serial, txPin, owed, told, tidy>>,
         buf' \in Marks, fifo' \in Seq(Word), air' = air, zeroed' \in BOOLEAN
  PROVE  Base'
  <1>1. <<>> \in Seq(Word)
    BY EmptySeq
  <1>2. Respond(status, <<>>) /\ broken' \subseteq {"new", "close", "reset", "tx"}
    BY DEF Abandon, Base, TypeOK
  <1> QED
    BY <1>1, <1>2, EndBase

\* A turn of a waiting loop.
LEMMA WaitBase ==
  ASSUME Base, InTx, Waits, NoFault, pc' \in {"sending", "read"}, pc = "sending" \/ pc' = "read",
         pc' = "read" => sent = "request", start' \in {start, 0},
         UNCHANGED <<build, buf, busVars, tidy, zeroed>>
  PROVE  Base'
  <1>1. PICK d \in 1..MaxDelay : WaitOn(d)
    BY DEF Waits
  <1>2. now' \in 0..(TickRange - 1) /\ elapsed' \in 0..MaxElapsed
    BY <1>1, WaitType DEF Base
  <1>a. 0 \in 0..(TickRange - 1)
    BY GpioAssumption
  <1>3. faults' \in 0..MaxFaults /\ start' \in 0..(TickRange - 1)
    BY <1>a, FaultType DEF Base, TypeOK
  <1>4. TypeOK'
    BY <1>2, <1>3, ZenonT(60) DEF Waits, Base, TypeOK, busVars
  <1>5. Requests' /\ Rest'
    BY DEF Waits, Base, Requests, Rest, InTx, busVars
  <1> QED
    BY <1>4, <1>5 DEF Base

LEMMA SendBase == ASSUME Base, SendWait PROVE Base'
  <1>0. pc = "sending" /\ InTx /\ UNCHANGED <<build, buf, busVars, tidy, zeroed>>
    BY SendCases DEF InTx
  <1>a. /\ UNCHANGED <<serial, txPin, owed, told>> /\ air' = air
        /\ buf' \in Marks /\ fifo' \in Seq(Word) /\ zeroed' \in BOOLEAN
        /\ response \in Seq(Word) /\ <<>> \in Seq(Word)
    BY <1>0, EmptySeq DEF busVars, Base, TypeOK
  <1>1. CASE NoFault /\ air = <<>> /\ sent = "request" /\ pc' = "read" /\ start' = 0 /\ Waits
    BY <1>0, <1>1, WaitBase
  <1>2. CASE NoFault /\ air # <<>> /\ UNCHANGED <<pc, start>> /\ Waits
    BY <1>0, <1>2, WaitBase
  <1>3. CASE /\ NoFault /\ UNCHANGED broken
             /\ \/ sent = "ack" /\ Respond("OK", response)
                \/ sent = "nak" /\ Respond("MdbChecksum", <<>>)
    <2>1. broken' \subseteq {"new", "close", "reset", "tx"}
      BY <1>3 DEF Base, TypeOK
    <2>2. "OK" \in Statuses /\ "MdbChecksum" \in Statuses
      BY DEF Statuses
    <2> QED
      BY <1>0, <1>3, <1>a, <2>1, <2>2, EndBase
  <1>4. CASE (NoFault \/ Fault) /\ \E s \in {"send timeout", "pigpio"} : Abandon(s)
    <2>1. PICK s \in {"send timeout", "pigpio"} : Abandon(s)
      BY <1>4
    <2>2. s \in Statuses
      BY DEF Statuses
    <2> QED
      BY <1>0, <1>4, <1>a, <2>1, <2>2, AbandonBase
  <1> QED
    BY <1>1, <1>2, <1>3, <1>4, SendCases

LEMMA CheckBase == ASSUME Base, Check PROVE Base'
  <1>0. /\ pc = "check" /\ InTx /\ NoFault /\ UNCHANGED <<build, buf, busVars, tidy, zeroed>>
        /\ sent = "request"
    BY DEF Check, InTx, Base, Requests
  <1>a. /\ UNCHANGED <<serial, txPin, owed, told>> /\ air' = air
        /\ buf' \in Marks /\ fifo' \in Seq(Word) /\ zeroed' \in BOOLEAN
    BY <1>0 DEF busVars, Base, TypeOK
  <1>1. CASE Abandon("recv timeout")
    <2>1. "recv timeout" \in Statuses
      BY DEF Statuses
    <2> QED
      BY <1>0, <1>1, <1>a, <2>1, AbandonBase
  <1>2. CASE pc' = "read" /\ start' = start /\ Waits
    BY <1>0, <1>2, WaitBase
  <1> QED
    BY <1>1, <1>2 DEF Check, Waits

-----------------------------------------------------------------------------
(***************************************************************************)
(* What a read takes.                                                      *)
(***************************************************************************)
Taken == IF Len(fifo) < Block THEN Len(fifo) ELSE Block
Got == SubSeq(fifo, 1, Taken)
Left == SubSeq(fifo, Taken + 1, Len(fifo))
EndsIn == {i \in 1..Taken : Ends(Got[i])}
First == CHOOSE i \in EndsIn : \A j \in EndsIn : i <= j

\* Whatever the words are, they are gone from the receiver and their ninth bits
\* are in the buffer.
Takes ==
  /\ fifo # <<>> /\ fifo' = Left
  /\ buf' = [i \in DOMAIN buf |-> IF i < Taken THEN NinthBit(Got[i + 1]) ELSE buf[i]]
  /\ zeroed' = (zeroed /\ Taken = 1)

\* Words of an answer that goes on.
Hears ==
  /\ EndsIn = {}
  /\ heard \/ ~Overflows(now, TIMEOUT_RECEIVE)
  /\ heard' = TRUE
  /\ response' = response \o Got
  /\ deadline' = IF heard THEN deadline ELSE Deadline(now, TIMEOUT_RECEIVE)
  /\ elapsed' = IF heard THEN elapsed ELSE 0
  /\ NoFault
  /\ UNCHANGED <<pc, now, mdb, waves, req, sent, start, air, broken, result>>

\* The end of an answer.
HearsEnd ==
  /\ EndsIn # {}
  /\ Finish(response \o SubSeq(Got, 1, First - 1), Got[First])

LEMMA ReadCases ==
  ASSUME Read
  PROVE  /\ pc = "read" /\ UNCHANGED <<build, serial, txPin, owed, told, tidy>>
         /\ \/ Fault /\ Abandon("pigpio") /\ UNCHANGED <<buf, fifo, air, zeroed>>
            \/ /\ fifo = <<>> /\ NoFault /\ pc' = "check"
               /\ UNCHANGED <<txVars, driverVars, fifo, air, zeroed, broken, result>>
            \/ Takes /\ Panic /\ NoFault /\ UNCHANGED air
            \/ Takes /\ HearsEnd
            \/ Takes /\ Hears
  BY DEF Read, Takes, Hears, HearsEnd, Taken, Got, Left, EndsIn, First

\* The words taken are the first ones in the receiver, at most a block of them.
LEMMA TakenShape ==
  ASSUME TypeOK, fifo # <<>>
  PROVE  /\ Taken \in 1..Block /\ Taken <= Len(fifo)
         /\ Got \in Seq(Word) /\ Len(Got) = Taken /\ \A i \in 1..Taken : Got[i] = fifo[i]
         /\ Left \in Seq(Word) /\ Len(Left) = Len(fifo) - Taken
         /\ \A i \in 1..Len(Left) : Left[i] = fifo[Taken + i]
         /\ Got \o Left = fifo
  <1>1. fifo \in Seq(Word) /\ Len(fifo) \in Nat \ {0} /\ Block \in Nat \ {0}
    BY GpioAssumption DEF TypeOK
  <1>2. Taken \in 1..Block /\ Taken <= Len(fifo)
    BY <1>1 DEF Taken
  <1>3. /\ Got \in Seq(Word) /\ Len(Got) = Taken /\ \A i \in 1..Taken : Got[i] = fifo[i]
    BY <1>1, <1>2, SubSeqProperties DEF Got
  <1>4. /\ Left \in Seq(Word) /\ Len(Left) = Len(fifo) - Taken
        /\ \A i \in 1..Len(Left) : Left[i] = fifo[Taken + i]
    <2>1. \A i \in (Taken + 1)..Len(fifo) : fifo[i] \in Word
      BY <1>1, <1>2
    <2>2. Left \in Seq(Word) /\ Len(Left) = Len(fifo) - Taken
      BY <1>1, <1>2, SubSeqProperties DEF Left
    <2> QED
      BY <1>1, <1>2, <2>2, SubSeqProperties DEF Left
  <1>7. Got \o Left = fifo
    <2>1. 1 \in 1..(Len(fifo) + 1) /\ Taken \in (1 - 1)..Len(fifo) /\ Len(fifo) \in Taken..Len(fifo)
      BY <1>1, <1>2
    <2> QED
      BY <1>1, <2>1, ConcatAdjacentSubSeq, SubSeqFull DEF Got, Left
  <1> QED
    BY <1>2, <1>3, <1>4, <1>7

\* The end found is the first one; before it stand data words.
LEMMA EndShape ==
  ASSUME TypeOK, fifo # <<>>, EndsIn # {}
  PROVE  /\ First \in 1..Taken /\ Got[First] = fifo[First] /\ Got[First] \in Word
         /\ Ends(fifo[First])
         /\ \A i \in 1..(First - 1) : ~Ends(fifo[i])
         /\ SubSeq(Got, 1, First - 1) \in Seq(Word)
         /\ Len(SubSeq(Got, 1, First - 1)) = First - 1
         /\ \A i \in 1..(First - 1) : SubSeq(Got, 1, First - 1)[i] = fifo[i]
  <1>1. /\ Taken \in Nat /\ EndsIn \in SUBSET (1..Taken)
        /\ Got \in Seq(Word) /\ Len(Got) = Taken /\ \A i \in 1..Taken : Got[i] = fifo[i]
    BY TakenShape DEF EndsIn
  <1>2. First \in EndsIn /\ \A j \in EndsIn : First <= j
    BY <1>1, FirstEnd, Zenon DEF First
  <1>3. First \in 1..Taken /\ Ends(Got[First]) /\ Got[First] = fifo[First] /\ Got[First] \in Word
    BY <1>1, <1>2 DEF EndsIn
  <1>4. ASSUME NEW i \in 1..(First - 1) PROVE ~Ends(fifo[i])
    <2>1. i \in 1..Taken /\ ~(First <= i)
      BY <1>1, <1>3
    <2> QED
      BY <1>1, <1>2, <2>1 DEF EndsIn
  <1>5. First - 1 \in 0..Len(Got)
    BY <1>1, <1>3
  <1>6. /\ SubSeq(Got, 1, First - 1) \in Seq(Word)
        /\ Len(SubSeq(Got, 1, First - 1)) = First - 1
        /\ \A i \in 1..(First - 1) : SubSeq(Got, 1, First - 1)[i] = Got[i]
    BY <1>1, <1>3, <1>5, SubSeqProperties
  <1>7. \A i \in 1..(First - 1) : SubSeq(Got, 1, First - 1)[i] = fifo[i]
    BY <1>1, <1>3, <1>6
  <1> QED
    BY <1>3, <1>4, <1>6, <1>7

\* What is sent back after an answer with data.
Reply(words, end) == IF ChecksumHolds(words, end) THEN "ack" ELSE "nak"

Replies(words, end) ==
  /\ ~Overflows(now, TIMEOUT_SMALL) /\ NoFault
  /\ sent' = Reply(words, end)
  /\ air' = Append(air, [wave |-> Reply(words, end), of |-> req.id, marks |-> <<0>>])
  /\ start' = now /\ elapsed' = 0 /\ deadline' = 0 /\ heard' = TRUE
  /\ response' = words
  /\ pc' = "sending"
  /\ UNCHANGED <<now, mdb, waves, req, broken, result>>

LEMMA EndCases ==
  ASSUME NEW words, NEW end \in Word, Ends(end), Finish(words, end)
  PROVE  \/ /\ words = <<>> /\ NoFault /\ UNCHANGED <<air, broken>>
            /\ \E s \in {"OK", "MdbNak", "MdbInvalidResponse"} :
                 /\ Respond(s, <<>>)
                 /\ (end.val = "ack" => s = "OK") /\ (end.val = "nak" => s = "MdbNak")
         \/ NoFault /\ Panic /\ UNCHANGED air
         \/ Fault /\ Abandon("pigpio") /\ UNCHANGED air
         \/ words # <<>> /\ Replies(words, end)
  <1>1. CASE words = <<>>
    <2>1. /\ NoFault /\ UNCHANGED <<air, broken>>
          /\ \/ end.val = "ack" /\ Respond("OK", <<>>)
             \/ end.val = "nak" /\ Respond("MdbNak", <<>>)
             \/ /\ end.val \in {"chk", "bad"}
                /\ \E s \in {"OK", "MdbNak", "MdbInvalidResponse"} : Respond(s, <<>>)
      BY <1>1, Zenon DEF Finish
    <2>2. CASE end.val = "ack" /\ Respond("OK", <<>>)
      BY <1>1, <2>1, <2>2
    <2>3. CASE end.val = "nak" /\ Respond("MdbNak", <<>>)
      BY <1>1, <2>1, <2>3
    <2>4. CASE /\ end.val \in {"chk", "bad"}
               /\ \E s \in {"OK", "MdbNak", "MdbInvalidResponse"} : Respond(s, <<>>)
      BY <1>1, <2>1, <2>4
    <2> QED
      BY <2>1, <2>2, <2>3, <2>4
  <1>2. CASE words # <<>>
    BY <1>2 DEF Finish, Replies, Reply
  <1> QED
    BY <1>1, <1>2

\* An answer to the peripheral is on the air behind what is there already.
LEMMA ReplyShape ==
  ASSUME TypeOK, NEW words \in Seq(Word), NEW end \in Word, req.id \in Ids, Replies(words, end)
  PROVE  /\ Reply(words, end) \in {"ack", "nak"}
         /\ air' \in Seq([wave : {"ack", "nak", "request"}, of : 0..MaxTx, marks : Seq({0, 1})])
         /\ Len(air') = Len(air) + 1
         /\ \A i \in 1..Len(air) : air'[i] = air[i]
         /\ air'[Len(air) + 1].wave = Reply(words, end)
         /\ \A i \in 1..Len(air') : i \in 1..Len(air) \/ i = Len(air) + 1
  <1> DEFINE Air == [wave : {"ack", "nak", "request"}, of : 0..MaxTx, marks : Seq({0, 1})]
             wave == [wave |-> Reply(words, end), of |-> req.id, marks |-> <<0>>]
  <1>1. Reply(words, end) \in {"ack", "nak"}
    BY DEF Reply
  <1>2. <<0>> \in Seq({0, 1}) /\ req.id \in 0..MaxTx
    BY DEF Ids
  <1>3. wave \in Air /\ wave.wave = Reply(words, end)
    BY <1>1, <1>2
  <1>4. air \in Seq(Air) /\ air' = Append(air, wave)
    BY DEF TypeOK, Replies
  <1> HIDE DEF Air, wave
  <1>5. /\ air' \in Seq(Air) /\ Len(air') = Len(air) + 1 /\ Len(air) \in Nat
        /\ \A i \in 1..Len(air) : air'[i] = air[i]
        /\ air'[Len(air) + 1] = wave
    BY <1>3, <1>4
  <1>6. \A i \in 1..Len(air') : i \in 1..Len(air) \/ i = Len(air) + 1
    BY <1>5
  <1> QED
    BY <1>1, <1>3, <1>5, <1>6 DEF Air

LEMMA TakesType ==
  ASSUME TypeOK, Takes
  PROVE  fifo' \in Seq(Word) /\ buf' \in Marks /\ zeroed' \in BOOLEAN
  <1>1. fifo' \in Seq(Word) /\ Taken \in 1..Block
    BY TakenShape DEF Takes
  <1>2. buf' \in Marks
    BY GpioAssumption DEF Takes, NinthBit, Marks, TypeOK
  <1> QED
    BY <1>1, <1>2 DEF Takes, TypeOK

\* The answer goes on.
LEMMA HearsBase ==
  ASSUME Base, pc = "read", Takes, Hears,
         UNCHANGED <<build, serial, txPin, owed, told, tidy>>
  PROVE  Base'
  <1>1. fifo' \in Seq(Word) /\ buf' \in Marks /\ zeroed' \in BOOLEAN /\ faults' \in 0..MaxFaults
    BY TakesType, FaultType DEF Base, Hears
  <1>2. response' \in Seq(Word)
    <2>1. Got \in Seq(Word) /\ response \in Seq(Word)
      BY TakenShape DEF Takes, Base, TypeOK
    <2> QED
      BY <2>1, ConcatProperties DEF Hears
  <1>3. deadline' \in 0..(TickRange - 1) /\ elapsed' \in 0..MaxElapsed
    <2>1. CASE heard
      BY <2>1 DEF Hears, Base, TypeOK
    <2>2. CASE ~heard
      <3>1. now \in 0..(TickRange - 1) /\ TIMEOUT_RECEIVE \in 1..(TickRange - 1)
        BY GpioAssumption DEF Base, TypeOK
      <3>2. Deadline(now, TIMEOUT_RECEIVE) \in 0..(TickRange - 1)
        BY <2>2, <3>1, DeadlineType DEF Hears, Base, TypeOK
      <3>3. 0 \in 0..MaxElapsed
        BY GpioAssumption DEF MaxElapsed
      <3> QED
        BY <2>2, <3>2, <3>3 DEF Hears
    <2> QED
      BY <2>1, <2>2
  <1>4. TypeOK'
    BY <1>1, <1>2, <1>3 DEF Hears, Base, TypeOK
  <1>5. Requests' /\ Rest'
    BY DEF Hears, Base, Requests, Rest, InTx
  <1> QED
    BY <1>4, <1>5 DEF Base

\* A panic ends the process and touches nothing else.
LEMMA PanicBase ==
  ASSUME Base, pc = "read", Takes, Panic, NoFault,
         UNCHANGED <<build, serial, txPin, owed, told, tidy, air>>
  PROVE  Base'
  <1>1. fifo' \in Seq(Word) /\ buf' \in Marks /\ zeroed' \in BOOLEAN /\ faults' \in 0..MaxFaults
    BY TakesType, FaultType DEF Base
  <1>2. TypeOK'
    BY <1>1 DEF Panic, Base, TypeOK, txVars
  <1>3. Requests' /\ Rest'
    BY DEF Panic, Base, Requests, Rest, InTx, txVars
  <1> QED
    BY <1>2, <1>3 DEF Base

\* The answer is answered.
LEMMA RepliesBase ==
  ASSUME Base, pc = "read", Takes, NEW words \in Seq(Word), NEW end \in Word,
         Replies(words, end), UNCHANGED <<build, serial, txPin, owed, told, tidy>>
  PROVE  Base'
  <1>1. fifo' \in Seq(Word) /\ buf' \in Marks /\ zeroed' \in BOOLEAN /\ faults' \in 0..MaxFaults
    BY TakesType, FaultType DEF Base, Replies
  <1>2. req.id \in Ids /\ mdb
    BY DEF Base, Requests, InTx
  <1>3. /\ Reply(words, end) \in {"ack", "nak"}
        /\ air' \in Seq([wave : {"ack", "nak", "request"}, of : 0..MaxTx, marks : Seq({0, 1})])
        /\ Len(air') = Len(air) + 1
        /\ \A i \in 1..Len(air) : air'[i] = air[i]
        /\ air'[Len(air) + 1].wave = Reply(words, end)
        /\ \A i \in 1..Len(air') : i \in 1..Len(air) \/ i = Len(air) + 1
    BY <1>2, ReplyShape DEF Base
  <1>4. 0 \in 0..(TickRange - 1) /\ 0 \in 0..MaxElapsed
    BY GpioAssumption DEF MaxElapsed
  <1>5. TypeOK'
    BY <1>1, <1>3, <1>4 DEF Replies, Base, TypeOK
  <1>6. \A i \in 1..Len(air') : air'[i].wave = "request" => air'[i].of \in Ids
    BY <1>3 DEF Base, Requests
  <1>7. Requests' /\ Rest'
    BY <1>2, <1>6 DEF Replies, Requests, Rest
  <1> QED
    BY <1>5, <1>7 DEF Base

LEMMA ReadBase == ASSUME Base, Read PROVE Base'
  <1>0. /\ pc = "read" /\ InTx /\ sent = "request"
        /\ UNCHANGED <<build, serial, txPin, owed, told, tidy>>
    BY ReadCases DEF InTx, Base, Requests
  <1>1. CASE Fault /\ Abandon("pigpio") /\ UNCHANGED <<buf, fifo, air, zeroed>>
    <2>1. "pigpio" \in Statuses /\ buf' \in Marks /\ fifo' \in Seq(Word) /\ zeroed' \in BOOLEAN
      BY <1>1 DEF Statuses, Base, TypeOK
    <2> QED
      BY <1>0, <1>1, <2>1, AbandonBase
  <1>2. CASE /\ fifo = <<>> /\ NoFault /\ pc' = "check"
             /\ UNCHANGED <<txVars, driverVars, fifo, air, zeroed, broken, result>>
    <2>1. faults' \in 0..MaxFaults
      BY <1>2, FaultType DEF Base
    <2>2. TypeOK'
      BY <1>0, <1>2, <2>1 DEF Base, TypeOK, txVars, driverVars
    <2> QED
      BY <1>0, <1>2, <2>2 DEF Base, Requests, Rest, InTx, txVars, driverVars
  <1>3. CASE Takes /\ Panic /\ NoFault /\ UNCHANGED air
    BY <1>0, <1>3, PanicBase
  <1>4. CASE Takes /\ HearsEnd
    <2> DEFINE words == response \o SubSeq(Got, 1, First - 1)
               end == Got[First]
    <2>1. /\ end \in Word /\ SubSeq(Got, 1, First - 1) \in Seq(Word) /\ Ends(end)
      BY <1>4, EndShape DEF Takes, HearsEnd, Base
    <2>2. words \in Seq(Word)
      BY <2>1, ConcatProperties DEF Base, TypeOK
    <2>3. Finish(words, end)
      BY <1>4 DEF HearsEnd
    <2>4. <<>> \in Seq(Word) /\ fifo' \in Seq(Word) /\ buf' \in Marks /\ zeroed' \in BOOLEAN
      BY <1>4, TakesType, EmptySeq DEF Base
    <2> HIDE DEF words, end
    <2>5. CASE /\ words = <<>> /\ NoFault /\ UNCHANGED <<air, broken>>
               /\ \E s \in {"OK", "MdbNak", "MdbInvalidResponse"} :
                    /\ Respond(s, <<>>)
                    /\ (end.val = "ack" => s = "OK") /\ (end.val = "nak" => s = "MdbNak")
      <3>1. PICK s \in {"OK", "MdbNak", "MdbInvalidResponse"} : Respond(s, <<>>)
        BY <2>5
      <3>2. s \in Statuses
        BY DEF Statuses
      <3>3. broken' \subseteq {"new", "close", "reset", "tx"}
        BY <2>5 DEF Base, TypeOK
      <3> QED
        BY <1>0, <2>4, <2>5, <3>1, <3>2, <3>3, EndBase
    <2>6. CASE NoFault /\ Panic /\ UNCHANGED air
      BY <1>0, <1>4, <2>6, PanicBase
    <2>7. CASE Fault /\ Abandon("pigpio") /\ UNCHANGED air
      <3>1. "pigpio" \in Statuses
        BY DEF Statuses
      <3> QED
        BY <1>0, <2>4, <2>7, <3>1, AbandonBase
    <2>8. CASE words # <<>> /\ Replies(words, end)
      BY <1>0, <1>4, <2>1, <2>2, <2>8, RepliesBase
    <2> QED
      BY <2>1, <2>3, <2>5, <2>6, <2>7, <2>8, EndCases
  <1>5. CASE Takes /\ Hears
    BY <1>0, <1>5, HearsBase
  <1> QED
    BY <1>1, <1>2, <1>3, <1>4, <1>5, ReadCases

\* A wave leaves the head of the queue.
LEMMA AirTail ==
  ASSUME TypeOK, air # <<>>, air' = Tail(air)
  PROVE  /\ Len(air) \in Nat /\ Len(air) > 0
         /\ air' \in Seq([wave : {"ack", "nak", "request"}, of : 0..MaxTx, marks : Seq({0, 1})])
         /\ Len(air') = Len(air) - 1
         /\ \A i \in 1..Len(air') : air'[i] = air[i + 1] /\ i + 1 \in 1..Len(air)
  <1> DEFINE Air == [wave : {"ack", "nak", "request"}, of : 0..MaxTx, marks : Seq({0, 1})]
  <1>1. air \in Seq(Air)
    BY DEF TypeOK
  <1> HIDE DEF Air
  <1>2. Len(air) \in Nat /\ Len(air) > 0
    BY <1>1
  <1>3. /\ air' \in Seq(Air) /\ Len(air') = Len(air) - 1
        /\ \A i \in 1..Len(air') : air'[i] = air[i + 1]
    BY <1>1, <1>2, HeadTailProperties
  <1>4. \A i \in 1..Len(air') : i + 1 \in 1..Len(air)
    BY <1>2, <1>3
  <1> QED
    BY <1>2, <1>3, <1>4 DEF Air

LEMMA LeavesBase == ASSUME Base, WaveLeaves PROVE Base'
  <1>0. /\ air # <<>> /\ air' = Tail(air)
        /\ UNCHANGED <<build, pc, faults, txVars, driverVars, serial, fifo, txPin, historyVars>>
    BY DEF WaveLeaves
  <1>1. /\ air' \in Seq([wave : {"ack", "nak", "request"}, of : 0..MaxTx, marks : Seq({0, 1})])
        /\ \A i \in 1..Len(air') : air'[i] = air[i + 1] /\ i + 1 \in 1..Len(air)
        /\ 1 \in 1..Len(air)
    BY <1>0, AirTail DEF Base
  <1>2. owed' \in Seq(Word) /\ told' \in Seq(Word)
    <2>1. CASE air[1].wave = "request"
      <3>1. air[1].of \in Ids
        BY <1>1, <2>1 DEF Base, Requests
      <3>2. PICK a \in Answers(air[1].of) : owed' = a /\ told' = a
        BY <2>1 DEF WaveLeaves
      <3> QED
        BY <3>1, <3>2, AnswersAreWords
    <2>2. CASE air[1].wave # "request"
      BY <2>2 DEF WaveLeaves, Base, TypeOK
    <2> QED
      BY <2>1, <2>2
  <1>a. air' \in Seq([wave : {"ack", "nak", "request"}, of : 0..MaxTx, marks : Seq({0, 1})])
    BY <1>1
  <1>b. UNCHANGED <<build, now, start, deadline, elapsed, pc, mdb, serial, heard, buf, waves,
                    fifo, response, txPin, req, sent, tidy, zeroed, broken, result, faults>>
    BY <1>0 DEF txVars, driverVars, historyVars
  <1>3. TypeOK'
    BY <1>a, <1>b, <1>2, SMTT(30) DEF Base, TypeOK
  <1>4. \A i \in 1..Len(air') : air'[i].wave = "request" => air'[i].of \in Ids
    BY <1>1 DEF Base, Requests
  <1>5. Requests' /\ Rest'
    BY <1>0, <1>4 DEF Base, Requests, Rest, InTx, txVars, driverVars
  <1> QED
    BY <1>3, <1>5 DEF Base

\* A word moves from what is owed to the receiver, if somebody listens.
LEMMA Arrives ==
  ASSUME TypeOK, WordArrives
  PROVE  /\ owed' \in Seq(Word) /\ fifo' \in Seq(Word)
         /\ owed # <<>> /\ owed[1] \in Word
         /\ Len(owed') = Len(owed) - 1 /\ \A i \in 1..Len(owed') : owed'[i] = owed[i + 1]
         /\ serial => fifo' = Append(fifo, owed[1])
         /\ ~serial => fifo' = fifo
  <1>1. owed # <<>> /\ owed' = Tail(owed) /\ owed \in Seq(Word) /\ fifo \in Seq(Word)
    BY DEF WordArrives, TypeOK
  <1>2. owed[1] \in Word
    BY <1>1
  <1>3. /\ owed' \in Seq(Word) /\ Len(owed') = Len(owed) - 1
        /\ \A i \in 1..Len(owed') : owed'[i] = owed[i + 1]
    BY <1>1
  <1>4. Append(fifo, owed[1]) \in Seq(Word)
    BY <1>1, <1>2
  <1> QED
    BY <1>1, <1>2, <1>3, <1>4 DEF WordArrives

LEMMA ArrivesBase == ASSUME Base, WordArrives PROVE Base'
  <1>0. UNCHANGED <<build, pc, faults, txVars, driverVars, serial, air, txPin, told, historyVars>>
    BY DEF WordArrives
  <1>1. owed' \in Seq(Word) /\ fifo' \in Seq(Word)
    BY Arrives DEF Base
  <1>2. TypeOK'
    BY <1>0, <1>1, SMTT(30) DEF Base, TypeOK, txVars, driverVars, historyVars
  <1> QED
    BY <1>0, <1>2 DEF Base, Requests, Rest, InTx, txVars, driverVars

LEMMA StutterBase == ASSUME Base, UNCHANGED vars PROVE Base'
  <1> USE DEF vars, txVars, driverVars, busVars, historyVars
  <1>1. TypeOK'
    BY DEF Base, TypeOK
  <1>2. Requests' /\ Rest'
    BY DEF Base, Requests, Rest, InTx
  <1> QED
    BY <1>1, <1>2 DEF Base

LEMMA StepBase == ASSUME Base, [Next]_vars PROVE Base'
  BY OpenBase, ResetBase, TxBase, NewBase, BreakBase, SendBase, ReadBase, CheckBase,
     LeavesBase, ArrivesBase, StutterBase DEF Next, Command, Serve

\* In every state the variables have their types: no clock reading or deadline
\* outgrows its 32 bits, no answer its words.
THEOREM GpioTypeCorrect == Spec => []TypeOK
  <1>1. Base => TypeOK
    BY DEF Base
  <1> QED
    BY <1>1, InitBase, StepBase, PTL DEF Spec

-----------------------------------------------------------------------------
(***************************************************************************)
(* The steps of a transaction, by what they come to.                       *)
(***************************************************************************)
\* What the rest of a transaction never touches.
TxKeeps == UNCHANGED <<build, mdb, serial, txPin, owed, told, tidy, req>>

\* It goes on waiting.
Idles ==
  /\ UNCHANGED <<buf, zeroed, fifo, air, waves, broken, result, sent, response, heard, deadline>>
  /\ InTx' /\ (pc' = "sending" => pc = "sending") /\ (pc = "sending" => pc' = pc \/ air = <<>>)
  /\ \/ UNCHANGED <<now, elapsed>>
     \/ \E d \in 1..MaxDelay : WaitOn(d)

\* It ends before its answer was read to the end.
EndsEarly ==
  /\ \E s \in Statuses \ Whole : Abandon(s)
  /\ air' = air
  /\ UNCHANGED <<buf, zeroed>> \/ Takes

\* The process dies.
Dies == pc' = "gone" /\ Takes /\ UNCHANGED <<air, waves, broken>>

\* What it sent back has left.
EndsAnswered ==
  /\ air = <<>> /\ pc = "sending"
  /\ UNCHANGED <<buf, zeroed, fifo, air, broken>>
  /\ \/ sent = "ack" /\ Respond("OK", response)
     \/ sent = "nak" /\ Respond("MdbChecksum", <<>>)

Words == response \o SubSeq(Got, 1, First - 1)

\* An answer of one word has been read.
EndsShort ==
  /\ pc = "read" /\ Takes /\ EndsIn # {} /\ Words = <<>> /\ UNCHANGED <<air, broken>>
  /\ \E s \in {"OK", "MdbNak", "MdbInvalidResponse"} :
       /\ Respond(s, <<>>)
       /\ (Got[First].val = "ack" => s = "OK") /\ (Got[First].val = "nak" => s = "MdbNak")

\* A longer one has been read.
EndsLong ==
  pc = "read" /\ Takes /\ EndsIn # {} /\ Words # <<>> /\ Replies(Words, Got[First])

LEMMA TxOutcomes ==
  ASSUME Base, SendWait \/ Read \/ Check
  PROVE  /\ InTx /\ TxKeeps
         /\ \/ Idles \/ EndsEarly \/ Dies \/ EndsAnswered \/ EndsShort \/ EndsLong
            \/ pc = "read" /\ Takes /\ Hears
  <1>a. \A s \in {"send timeout", "recv timeout", "pigpio"} : s \in Statuses \ Whole
    BY DEF Statuses, Whole
  <1>1. CASE SendWait
    <2>1. /\ pc = "sending" /\ UNCHANGED <<build, buf, busVars, tidy, zeroed>>
          /\ \/ NoFault /\ air = <<>> /\ sent = "request" /\ pc' = "read" /\ start' = 0 /\ Waits
             \/ NoFault /\ air # <<>> /\ UNCHANGED <<pc, start>> /\ Waits
             \/ /\ NoFault /\ air = <<>> /\ UNCHANGED broken
                /\ \/ sent = "ack" /\ Respond("OK", response)
                   \/ sent = "nak" /\ Respond("MdbChecksum", <<>>)
             \/ (NoFault \/ Fault) /\ \E s \in {"send timeout", "pigpio"} : Abandon(s)
      BY <1>1, SendCases
    <2>2. CASE \/ air = <<>> /\ pc' = "read" /\ Waits
               \/ UNCHANGED pc /\ Waits
      BY <2>1, <2>2 DEF Waits, Idles, InTx, TxKeeps, busVars
    <2>3. CASE /\ air = <<>> /\ UNCHANGED broken
               /\ \/ sent = "ack" /\ Respond("OK", response)
                  \/ sent = "nak" /\ Respond("MdbChecksum", <<>>)
      <3>1. UNCHANGED <<mdb, req>>
        BY <2>3 DEF Respond
      <3> QED
        BY <2>1, <2>3, <3>1 DEF EndsAnswered, InTx, TxKeeps, busVars
    <2>4. CASE \E s \in {"send timeout", "pigpio"} : Abandon(s)
      <3>1. UNCHANGED <<mdb, req>>
        BY <2>4 DEF Abandon, Respond
      <3> QED
        BY <1>a, <2>1, <2>4, <3>1 DEF EndsEarly, InTx, TxKeeps, busVars
    <2> QED
      BY <2>1, <2>2, <2>3, <2>4
  <1>2. CASE Check
    <2>1. pc = "check" /\ UNCHANGED <<build, buf, busVars, tidy, zeroed>>
      BY <1>2 DEF Check
    <2>2. CASE Abandon("recv timeout")
      <3>1. UNCHANGED <<mdb, req>>
        BY <2>2 DEF Abandon, Respond
      <3> QED
        BY <1>a, <2>1, <2>2, <3>1 DEF EndsEarly, InTx, TxKeeps, busVars
    <2>3. CASE pc' = "read" /\ Waits
      BY <2>1, <2>3 DEF Waits, Idles, InTx, TxKeeps, busVars
    <2> QED
      BY <1>2, <2>2, <2>3 DEF Check, Waits
  <1>3. CASE Read
    <2>1. /\ pc = "read" /\ InTx /\ UNCHANGED <<build, serial, txPin, owed, told, tidy>>
      BY <1>3, ReadCases DEF InTx
    <2>2. CASE Fault /\ Abandon("pigpio") /\ UNCHANGED <<buf, fifo, air, zeroed>>
      <3>1. UNCHANGED <<mdb, req>>
        BY <2>2 DEF Abandon, Respond
      <3> QED
        BY <1>a, <2>1, <2>2, <3>1 DEF EndsEarly, TxKeeps
    <2>3. CASE /\ fifo = <<>> /\ pc' = "check"
               /\ UNCHANGED <<txVars, driverVars, fifo, air, zeroed, broken, result>>
      BY <2>1, <2>3 DEF Idles, InTx, TxKeeps, txVars, driverVars
    <2>4. CASE Takes /\ Panic /\ UNCHANGED air
      BY <2>1, <2>4 DEF Dies, Panic, TxKeeps
    <2>5. CASE Takes /\ HearsEnd
      <3>1. /\ Got[First] \in Word /\ Ends(Got[First]) /\ EndsIn # {} /\ fifo # <<>>
        BY <2>5, EndShape DEF Takes, HearsEnd, Base
      <3>2. Finish(Words, Got[First])
        BY <2>5 DEF HearsEnd, Words
      <3>3. CASE /\ Words = <<>> /\ UNCHANGED <<air, broken>>
                 /\ \E s \in {"OK", "MdbNak", "MdbInvalidResponse"} :
                      /\ Respond(s, <<>>)
                      /\ (Got[First].val = "ack" => s = "OK")
                      /\ (Got[First].val = "nak" => s = "MdbNak")
        <4>1. UNCHANGED <<mdb, req>>
          BY <3>3 DEF Respond
        <4> QED
          BY <2>1, <2>5, <3>1, <3>3, <4>1 DEF EndsShort, TxKeeps
      <3>4. CASE Panic /\ UNCHANGED air
        BY <2>1, <2>5, <3>4 DEF Dies, Panic, TxKeeps
      <3>5. CASE Abandon("pigpio") /\ UNCHANGED air
        <4>1. UNCHANGED <<mdb, req>>
          BY <3>5 DEF Abandon, Respond
        <4> QED
          BY <1>a, <2>1, <2>5, <3>5, <4>1 DEF EndsEarly, TxKeeps
      <3>6. CASE Words # <<>> /\ Replies(Words, Got[First])
        <4>1. UNCHANGED <<mdb, req>>
          BY <3>6 DEF Replies
        <4> QED
          BY <2>1, <2>5, <3>1, <3>6, <4>1 DEF EndsLong, TxKeeps
      <3> QED
        BY <3>1, <3>2, <3>3, <3>4, <3>5, <3>6, EndCases
    <2>6. CASE Takes /\ Hears
      BY <2>1, <2>6 DEF Hears, TxKeeps
    <2> QED
      BY <1>3, <2>2, <2>3, <2>4, <2>5, <2>6, ReadCases
  <1> QED
    BY <1>1, <1>2, <1>3

-----------------------------------------------------------------------------
(***************************************************************************)
(* The port and the waves.                                                 *)
(***************************************************************************)
\* A step of a transaction leaves the port alone and breaks nothing of it.
LEMMA TxLeavesPort ==
  ASSUME Base, SendWait \/ Read \/ Check
  PROVE  /\ pc # "break" /\ UNCHANGED <<mdb, serial, txPin>>
         /\ broken' \in {broken, broken \cup {"tx"}}
  <1>1. /\ InTx /\ TxKeeps
        /\ \/ Idles \/ EndsEarly \/ Dies \/ EndsAnswered \/ EndsShort \/ EndsLong
           \/ pc = "read" /\ Takes /\ Hears
    BY TxOutcomes
  <1>2. broken' \in {broken, broken \cup {"tx"}}
    BY <1>1 DEF Idles, EndsEarly, Dies, EndsAnswered, EndsShort, EndsLong, Hears, Abandon, Replies
  <1> QED
    BY <1>1, <1>2 DEF InTx, TxKeeps

LEMMA StepPort ==
  ASSUME Base, PortHeld, [Next]_vars
  PROVE  PortHeld'
  <1>1. CASE \E valid \in BOOLEAN : ExecOpen(valid)
    <2>1. PICK valid \in BOOLEAN : ExecOpen(valid)
      BY <1>1
    <2>2. /\ pc = "idle" /\ mdb' = FALSE /\ txPin' = txPin
          /\ \/ ~mdb /\ UNCHANGED <<serial, broken>>
             \/ mdb /\ serial' = FALSE /\ UNCHANGED broken
             \/ mdb /\ serial' = serial /\ broken' = broken \cup {"close"}
      BY <2>1, Zenon DEF ExecOpen, Drop
    <2> QED
      BY <2>2 DEF PortHeld
  <1>2. CASE \E long \in BOOLEAN : ExecReset(long)
    <2>1. /\ pc = "idle" /\ UNCHANGED <<mdb, serial, broken>>
          /\ txPin' = txPin \/ pc' = "break"
      BY <1>2 DEF ExecReset, Refuse, driverVars
    <2> QED
      BY <2>1 DEF PortHeld
  <1>3. CASE \E len \in 1..Block : ExecTx(len)
    <2>1. PICK len \in 1..Block : ExecTx(len)
      BY <1>3
    <2>2. pc = "idle" /\ UNCHANGED <<mdb, serial, broken, txPin>>
      BY <2>1, TxCases DEF Refuse, Starts, driverVars
    <2> QED
      BY <2>2 DEF PortHeld
  <1>4. CASE New
    <2>1. /\ pc = "new" /\ ~mdb /\ txPin' = txPin
          /\ \/ ~serial /\ mdb' = TRUE /\ serial' = TRUE /\ UNCHANGED broken
             \/ UNCHANGED <<mdb, serial, broken>>
             \/ ~serial /\ serial' = TRUE /\ broken' = broken \cup {"new"} /\ UNCHANGED mdb
      BY <1>4 DEF New, Base, Requests
    <2> QED
      BY <2>1 DEF PortHeld
  <1>5. CASE Break
    <2>1. /\ UNCHANGED <<mdb, serial>>
          /\ \/ txPin' = 0 /\ UNCHANGED broken
             \/ broken' = broken \cup {"reset"} /\ UNCHANGED txPin
      BY <1>5 DEF Break, driverVars
    <2> QED
      BY <2>1 DEF PortHeld
  <1>6. CASE SendWait \/ Read \/ Check
    <2>1. /\ pc # "break" /\ UNCHANGED <<mdb, serial, txPin>>
          /\ broken' \in {broken, broken \cup {"tx"}}
      BY <1>6, TxLeavesPort
    <2> QED
      BY <2>1 DEF PortHeld
  <1>7. CASE WaveLeaves \/ WordArrives \/ UNCHANGED vars
    <2>1. UNCHANGED <<mdb, serial, txPin, broken, pc>>
      BY <1>7 DEF WaveLeaves, WordArrives, vars, driverVars, busVars, historyVars
    <2> QED
      BY <2>1 DEF PortHeld
  <1> QED
    BY <1>1, <1>2, <1>3, <1>4, <1>5, <1>6, <1>7 DEF Next, Command, Serve

LEMMA StepOwned ==
  ASSUME Base, Owned, [Next]_vars
  PROVE  Owned'
  <1>1. CASE \E valid \in BOOLEAN : ExecOpen(valid)
    <2>1. PICK valid \in BOOLEAN : ExecOpen(valid)
      BY <1>1
    <2>2. waves' = {} /\ mdb' = FALSE /\ pc' \in {"new", "idle"}
      BY <2>1 DEF ExecOpen
    <2> QED
      BY <2>2 DEF Owned, InTx
  <1>2. CASE \E long \in BOOLEAN : ExecReset(long)
    <2>1. pc = "idle" /\ UNCHANGED <<mdb, waves>> /\ pc' \in {"idle", "break"}
      BY <1>2 DEF ExecReset, Refuse, driverVars
    <2> QED
      BY <2>1 DEF Owned, InTx
  <1>3. CASE \E len \in 1..Block : ExecTx(len)
    <2>1. PICK len \in 1..Block : ExecTx(len)
      BY <1>3
    <2>2. /\ pc = "idle" /\ mdb' = mdb
          /\ \/ pc' \in {"idle", "gone"} /\ UNCHANGED waves
             \/ pc' = "sending" /\ waves' = waves \cup {"request"}
      BY <2>1, TxCases DEF Refuse, Starts, driverVars, Queued
    <2> QED
      BY <2>2 DEF Owned, InTx
  <1>4. CASE New
    <2>1. /\ pc = "new" /\ ~mdb /\ pc' = "idle"
          /\ \/ mdb' = TRUE /\ waves' = {"ack", "nak"}
             \/ UNCHANGED <<mdb, waves>>
      BY <1>4 DEF New, Base, Requests
    <2> QED
      BY <2>1 DEF Owned, InTx
  <1>5. CASE Break
    <2>1. UNCHANGED <<mdb, waves>> /\ pc = "break" /\ pc' = "idle"
      BY <1>5 DEF Break, driverVars
    <2> QED
      BY <2>1 DEF Owned, InTx
  <1>6. CASE SendWait \/ Read \/ Check
    <2>1. /\ InTx /\ TxKeeps
          /\ \/ Idles \/ EndsEarly \/ Dies \/ EndsAnswered \/ EndsShort \/ EndsLong
             \/ pc = "read" /\ Takes /\ Hears
      BY <1>6, TxOutcomes
    <2>2. \/ InTx' /\ waves' = waves
          \/ pc' = "idle" /\ waves' = waves \ {"request"}
          \/ pc' = "gone"
      BY <2>1 DEF Idles, EndsEarly, Dies, EndsAnswered, EndsShort, EndsLong, Hears, Abandon,
         Replies, Respond, InTx
    <2>3. mdb' = mdb
      BY <2>1 DEF TxKeeps
    <2> QED
      BY <2>1, <2>2, <2>3 DEF Owned, InTx
  <1>7. CASE WaveLeaves \/ WordArrives \/ UNCHANGED vars
    <2>1. UNCHANGED <<mdb, waves, pc>>
      BY <1>7 DEF WaveLeaves, WordArrives, vars, driverVars
    <2> QED
      BY <2>1 DEF Owned, InTx
  <1> QED
    BY <1>1, <1>2, <1>3, <1>4, <1>5, <1>6, <1>7 DEF Next, Command, Serve

-----------------------------------------------------------------------------
(***************************************************************************)
(* The buffer.                                                             *)
(***************************************************************************)
\* One wave of a request is marked as it should be.
Marked(w) == w.wave = "request" => \A j \in DOMAIN w.marks : w.marks[j] = 1 <=> j = 1

\* A wave queued behind the others.
LEMMA AppendAir ==
  ASSUME TypeOK, NEW w, air' = Append(air, w)
  PROVE  /\ DOMAIN air = 1..Len(air) /\ DOMAIN air' = 1..Len(air')
         /\ \A i \in 1..Len(air') : (i \in 1..Len(air) /\ air'[i] = air[i]) \/ air'[i] = w
  <1> DEFINE S == {air[i] : i \in 1..Len(air)} \cup {w}
  <1>1. /\ Len(air) \in Nat /\ DOMAIN air = 1..Len(air)
        /\ air = [i \in 1..Len(air) |-> air[i]]
    BY SMTT(30) DEF TypeOK
  <1>2. air \in Seq(S) /\ w \in S
    <2>1. \A i \in 1..Len(air) : air[i] \in S
      OBVIOUS
    <2> HIDE DEF S
    <2> QED
      BY <1>1, <2>1, SeqDef DEF S
  <1> HIDE DEF S
  <1>3. /\ Len(air') = Len(air) + 1 /\ air' \in Seq(S) /\ air'[Len(air) + 1] = w
        /\ \A i \in 1..Len(air) : air'[i] = air[i]
    BY <1>2, AppendProperties
  <1> QED
    BY <1>1, <1>3

\* A step that only takes waves away and reads word by word keeps the marks good.
LEMMA KeepsMarks ==
  ASSUME TypeOK, TypeOK', ZeroBuf, StaleMarksNeedLongReads,
         \/ air' = <<>> \/ air' = air
         \/ \A i \in 1..Len(air') : \E j \in 1..Len(air) : air'[i] = air[j],
         zeroed' => zeroed /\ \A i \in 1..(Block - 1) : buf'[i] = buf[i]
  PROVE  ZeroBuf' /\ StaleMarksNeedLongReads'
  <1>1. ZeroBuf'
    BY DEF ZeroBuf
  <1>2. DOMAIN air = 1..Len(air) /\ DOMAIN air' = 1..Len(air')
    BY DEF TypeOK
  <1>3. zeroed => \A i \in 1..Len(air) : Marked(air[i])
    BY <1>2 DEF StaleMarksNeedLongReads, MarksOnlyTheAddress, Marked
  <1>4. zeroed' => \A i \in 1..Len(air') : Marked(air'[i])
    BY <1>3
  <1>5. StaleMarksNeedLongReads'
    BY <1>2, <1>4 DEF StaleMarksNeedLongReads, MarksOnlyTheAddress, Marked
  <1> QED
    BY <1>1, <1>5

\* Of several words read at once the second overwrites a mark behind the first.
LEMMA TakesMarks ==
  ASSUME TypeOK, Takes, zeroed'
  PROVE  zeroed /\ \A i \in 1..(Block - 1) : buf'[i] = buf[i]
  <1>1. zeroed /\ Taken = 1 /\ DOMAIN buf = 0..(Block - 1)
    BY DEF Takes, TypeOK, Marks
  <1>2. \A i \in 1..(Block - 1) : i \in DOMAIN buf /\ ~(i < Taken)
    BY <1>1, GpioAssumption
  <1> QED
    BY <1>1, <1>2 DEF Takes

LEMMA TxMarks ==
  ASSUME TypeOK, TypeOK', ZeroBuf, StaleMarksNeedLongReads, NEW len \in 1..Block,
         Starts(len), NEW at, Queued(len, at)
  PROVE  ZeroBuf' /\ StaleMarksNeedLongReads'
  <1>0. buf \in Marks /\ Block \in Nat /\ Block > 1 /\ zeroed' = zeroed /\ len \in 1..(Block - 1)
    <2>1. Block \in Nat /\ Block > 1
      BY GpioAssumption
    <2> QED
      BY <2>1, SMTT(30) DEF TypeOK, Starts, Queued
  <1>1. buf'[0] = 1 /\ \A i \in 1..(Block - 1) : buf'[i] = buf[i]
    BY <1>0 DEF Queued, MarkAddress, Marks
  <1>2. ZeroBuf'
    BY <1>0, <1>1 DEF ZeroBuf
  <1> DEFINE marks == [i \in 1..(len + 1) |-> buf'[i - 1]]
             wave == [wave |-> "request", of |-> req.id + 1, marks |-> marks]
  <1>3. ASSUME zeroed PROVE Marked(wave)
    <2>1. DOMAIN marks = 1..(len + 1) /\ \A j \in 1..(len + 1) : marks[j] = buf'[j - 1]
      OBVIOUS
    <2>2. marks[1] = 1
      BY <1>0, <1>1, <2>1
    <2>3. ASSUME NEW j \in 1..(len + 1), j # 1 PROVE marks[j] = 0
      <3>1. j - 1 \in 1..(Block - 1)
        BY <1>0, <2>3
      <3> QED
        BY <1>0, <1>2, <1>3, <2>1, <3>1 DEF ZeroBuf
    <2>4. \A j \in 1..(len + 1) : marks[j] = 1 <=> j = 1
      BY <2>2, <2>3
    <2>5. wave.marks = marks
      OBVIOUS
    <2> HIDE DEF marks, wave
    <2> QED
      BY <2>1, <2>4, <2>5 DEF Marked
  <1>4. air' = Append(air, wave)
    BY DEF Queued
  <1> HIDE DEF wave
  <1>5. /\ DOMAIN air = 1..Len(air) /\ DOMAIN air' = 1..Len(air')
        /\ \A i \in 1..Len(air') : (i \in 1..Len(air) /\ air'[i] = air[i]) \/ air'[i] = wave
    BY <1>4, AppendAir
  <1>6. zeroed => \A i \in 1..Len(air) : Marked(air[i])
    BY <1>5 DEF StaleMarksNeedLongReads, MarksOnlyTheAddress, Marked
  <1>7. zeroed' => \A i \in 1..Len(air') : Marked(air'[i])
    BY <1>0, <1>3, <1>5, <1>6
  <1>8. StaleMarksNeedLongReads'
    BY <1>5, <1>7 DEF StaleMarksNeedLongReads, MarksOnlyTheAddress, Marked
  <1> QED
    BY <1>2, <1>8

LEMMA StepMarks ==
  ASSUME Base, Base', ZeroBuf, StaleMarksNeedLongReads, [Next]_vars
  PROVE  ZeroBuf' /\ StaleMarksNeedLongReads'
  <1>0. TypeOK /\ TypeOK'
    BY DEF Base
  <1>1. CASE \E valid \in BOOLEAN : ExecOpen(valid)
    <2>1. UNCHANGED <<buf, zeroed>> /\ air' \in {air, <<>>}
      BY <1>1 DEF ExecOpen, Drop
    <2> QED
      BY <1>0, <2>1, KeepsMarks
  <1>2. CASE \E long \in BOOLEAN : ExecReset(long)
    <2>1. UNCHANGED <<buf, zeroed, air>>
      BY <1>2 DEF ExecReset, Refuse, driverVars
    <2> QED
      BY <1>0, <2>1, KeepsMarks
  <1>3. CASE \E len \in 1..Block : ExecTx(len)
    <2>1. PICK len \in 1..Block : ExecTx(len)
      BY <1>3
    <2>2. CASE Starts(len) /\ \E at \in 0..(TickRange - 1) : Queued(len, at)
      BY <1>0, <2>2, TxMarks
    <2>3. CASE UNCHANGED <<zeroed, air>> /\ buf' \in {buf, MarkAddress(buf)}
      <3>1. \A i \in 1..(Block - 1) : buf'[i] = buf[i]
        <4>1. Block \in Nat /\ buf \in Marks
          BY <1>0, GpioAssumption DEF TypeOK
        <4>2. \A i \in 1..(Block - 1) : MarkAddress(buf)[i] = buf[i]
          BY <4>1 DEF MarkAddress, Marks
        <4> QED
          BY <2>3, <4>2
      <3> QED
        BY <1>0, <2>3, <3>1, KeepsMarks
    <2> QED
      BY <2>1, <2>2, <2>3, TxCases DEF Refuse, Starts, driverVars
  <1>4. CASE New
    <2>1. CASE air' = <<>> /\ zeroed' = (\A i \in DOMAIN buf' : buf'[i] = 0)
      <3>1. \A i \in 1..(Block - 1) : i \in DOMAIN buf'
        BY <1>0, GpioAssumption DEF TypeOK, Marks
      <3> QED
        BY <2>1, <3>1 DEF ZeroBuf, StaleMarksNeedLongReads, MarksOnlyTheAddress
    <2>2. CASE UNCHANGED <<buf, zeroed>> /\ air' \in {air, <<>>}
      BY <1>0, <2>2, KeepsMarks
    <2> QED
      BY <1>4, <2>1, <2>2, Zenon DEF New
  <1>5. CASE Break
    <2>1. UNCHANGED <<buf, zeroed, air>>
      BY <1>5 DEF Break, driverVars
    <2> QED
      BY <1>0, <2>1, KeepsMarks
  <1>6. CASE SendWait \/ Read \/ Check
    <2>1. \/ Idles \/ EndsEarly \/ Dies \/ EndsAnswered \/ EndsShort \/ EndsLong
          \/ pc = "read" /\ Takes /\ Hears
      BY <1>6, TxOutcomes
    <2>2. CASE UNCHANGED <<buf, zeroed, air>>
      BY <1>0, <2>2, KeepsMarks
    <2>3. CASE air' = air /\ Takes
      BY <1>0, <2>3, TakesMarks, KeepsMarks
    <2>4. CASE EndsLong
      <3>1. /\ Takes /\ Replies(Words, Got[First])
        BY <2>4 DEF EndsLong
      <3>2. air' = Append(air, [wave |-> Reply(Words, Got[First]), of |-> req.id, marks |-> <<0>>])
        BY <3>1 DEF Replies
      <3> DEFINE wave == [wave |-> Reply(Words, Got[First]), of |-> req.id, marks |-> <<0>>]
      <3>3. Marked(wave)
        BY DEF Marked, Reply
      <3> HIDE DEF wave
      <3>4. /\ DOMAIN air = 1..Len(air) /\ DOMAIN air' = 1..Len(air')
            /\ \A i \in 1..Len(air') : (i \in 1..Len(air) /\ air'[i] = air[i]) \/ air'[i] = wave
        BY <1>0, <3>2, AppendAir DEF wave
      <3>5. zeroed => \A i \in 1..Len(air) : Marked(air[i])
        BY <3>4 DEF StaleMarksNeedLongReads, MarksOnlyTheAddress, Marked
      <3>6. zeroed' => zeroed /\ \A i \in 1..(Block - 1) : buf'[i] = buf[i]
        BY <1>0, <3>1, TakesMarks
      <3>7. zeroed' => \A i \in 1..Len(air') : Marked(air'[i])
        BY <3>3, <3>4, <3>5, <3>6
      <3>8. StaleMarksNeedLongReads'
        BY <3>4, <3>7 DEF StaleMarksNeedLongReads, MarksOnlyTheAddress, Marked
      <3> QED
        BY <3>6, <3>8 DEF ZeroBuf
    <2> QED
      BY <2>1, <2>2, <2>3, <2>4 DEF Idles, EndsEarly, Dies, EndsAnswered, EndsShort, Hears
  <1>7. CASE WaveLeaves
    <2>1. air # <<>> /\ air' = Tail(air) /\ UNCHANGED <<buf, zeroed>>
      BY <1>7 DEF WaveLeaves, driverVars, historyVars
    <2>2. \A i \in 1..Len(air') : \E j \in 1..Len(air) : air'[i] = air[j]
      BY <1>0, <2>1, AirTail
    <2> QED
      BY <1>0, <2>1, <2>2, KeepsMarks
  <1>8. CASE WordArrives \/ UNCHANGED vars
    <2>1. UNCHANGED <<buf, zeroed, air>>
      BY <1>8 DEF WordArrives, vars, driverVars, busVars, historyVars
    <2> QED
      BY <1>0, <2>1, KeepsMarks
  <1> QED
    BY <1>1, <1>2, <1>3, <1>4, <1>5, <1>6, <1>7, <1>8 DEF Next, Command, Serve

-----------------------------------------------------------------------------
(***************************************************************************)
(* The clock while a transaction waits.                                    *)
(***************************************************************************)
LEMMA LimitType == Limit \in 1..(TickRange - 1) /\ Limit < MaxElapsed
  <1>1. /\ MDB_TIMEOUT \in 1..(TickRange - 1) /\ TIMEOUT_RECEIVE \in 1..(TickRange - 1)
        /\ TickRange \in Nat
    BY GpioAssumption
  <1> QED
    BY <1>1 DEF Limit, MaxElapsed

\* A turn of a waiting loop moves the clock and the time that has passed alike.
LEMMA WaitClock ==
  ASSUME TypeOK, Clock, InTx, sent = "request", NEW d \in 1..MaxDelay, WaitOn(d),
         UNCHANGED <<deadline, heard, build>>
  PROVE  Clock'
  <1>0. /\ now \in Nat /\ elapsed \in Nat /\ deadline \in Nat /\ deadline < TickRange
        /\ d \in Nat /\ TickRange \in Nat
    BY GpioAssumption DEF TypeOK
  <1>1. Limit \in Nat /\ Limit < MaxElapsed /\ MaxElapsed \in Nat /\ Limit' = Limit
    BY LimitType, GpioAssumption DEF MaxElapsed, Limit
  <1>2. CASE build = "release" /\ deadline < Limit
    BY <1>1, <1>2 DEF Clock
  <1>3. CASE deadline >= Limit /\ (elapsed <= Limit => now = (deadline - Limit) + elapsed)
    <2>1. ASSUME elapsed' <= Limit PROVE now' = (deadline - Limit) + elapsed'
      <3>1. elapsed' = elapsed + d /\ elapsed <= Limit
        BY <1>0, <1>1, <2>1 DEF WaitOn
      <3>2. now + d = (deadline - Limit) + elapsed'
        BY <1>0, <1>1, <1>3, <3>1
      <3>3. now + d \in Nat /\ now + d < TickRange
        BY <1>0, <1>1, <1>3, <2>1, <3>1, <3>2
      <3>4. now' = now + d
        BY <3>3, TickType DEF WaitOn, AfterDelay
      <3> QED
        BY <3>2, <3>4
    <2> QED
      BY <1>1, <1>3, <2>1 DEF Clock
  <1> QED
    BY <1>2, <1>3 DEF Clock

LEMMA StepClock ==
  ASSUME Base, Base', Clock, [Next]_vars
  PROVE  Clock'
  <1>0. TypeOK /\ TypeOK'
    BY DEF Base
  <1>1. CASE ~InTx' \/ sent' # "request"
    BY <1>1 DEF Clock
  <1>2. CASE \E len \in 1..Block : ExecTx(len)
    <2>1. PICK len \in 1..Block : ExecTx(len)
      BY <1>2
    <2>2. CASE \E at \in 0..(TickRange - 1) : Starts(len) /\ Queued(len, at)
      <3>1. PICK at \in 0..(TickRange - 1) : Starts(len) /\ Queued(len, at)
        BY <2>2
      <3>2. elapsed = 0 /\ ~heard /\ pc = "idle"
        BY <2>1, TxCases DEF Base, Rest
      <3>3. /\ elapsed' = 0 /\ now' = at /\ deadline' = Deadline(at, MDB_TIMEOUT)
            /\ build' = build /\ Limit' = MDB_TIMEOUT
        BY <3>1, <3>2 DEF Starts, Queued, Limit
      <3>4. /\ deadline' \in 0..(TickRange - 1)
            /\ \/ build = "release" /\ deadline' < MDB_TIMEOUT
               \/ deadline' >= MDB_TIMEOUT /\ at = deadline' - MDB_TIMEOUT
        <4>1. /\ MDB_TIMEOUT \in 1..(TickRange - 1) /\ build \in {"debug", "release"}
              /\ ~Overflows(at, MDB_TIMEOUT)
          BY <1>0, <3>1, GpioAssumption DEF Queued, TypeOK
        <4> QED
          BY <3>3, <4>1, DeadlineType
      <3> QED
        BY <3>3, <3>4, GpioAssumption DEF Clock
    <2>3. CASE ~InTx'
      BY <2>3 DEF Clock
    <2> QED
      BY <2>1, <2>2, <2>3, TxCases DEF Refuse, InTx
  <1>3. CASE SendWait \/ Read \/ Check
    <2>1. /\ InTx /\ TxKeeps
          /\ \/ Idles \/ EndsEarly \/ Dies \/ EndsAnswered \/ EndsShort \/ EndsLong
             \/ pc = "read" /\ Takes /\ Hears
      BY <1>3, TxOutcomes
    <2>2. CASE Idles
      <3>1. UNCHANGED <<deadline, heard, build, sent>>
        BY <2>1, <2>2 DEF Idles, TxKeeps
      <3>2. CASE sent = "request" /\ \E d \in 1..MaxDelay : WaitOn(d)
        BY <1>0, <2>1, <3>1, <3>2, WaitClock
      <3>3. CASE UNCHANGED <<now, elapsed>>
        BY <2>1, <3>1, <3>3 DEF Clock, Limit
      <3>4. CASE sent # "request"
        BY <3>1, <3>4 DEF Clock
      <3> QED
        BY <2>2, <3>2, <3>3, <3>4 DEF Idles
    <2>3. CASE pc' = "idle" \/ pc' = "gone"
      BY <2>3 DEF Clock, InTx
    <2>4. CASE EndsLong
      <3>1. sent' # "request"
        BY <2>4 DEF EndsLong, Replies, Reply
      <3> QED
        BY <3>1 DEF Clock
    <2>5. CASE pc = "read" /\ Takes /\ Hears
      <3>1. heard' /\ UNCHANGED <<now, sent>> /\ build' = build
        BY <2>1, <2>5 DEF Hears, TxKeeps
      <3>2. CASE heard
        <4>1. UNCHANGED <<deadline, elapsed>>
          BY <2>5, <3>2 DEF Hears
        <4> QED
          BY <2>1, <3>1, <3>2, <4>1 DEF Clock, Limit
      <3>3. CASE ~heard
        <4>1. /\ deadline' = Deadline(now, TIMEOUT_RECEIVE) /\ elapsed' = 0
              /\ ~Overflows(now, TIMEOUT_RECEIVE) /\ Limit' = TIMEOUT_RECEIVE
          BY <2>5, <3>1, <3>3 DEF Hears, Limit
        <4>2. /\ deadline' \in 0..(TickRange - 1)
              /\ \/ build = "release" /\ deadline' < TIMEOUT_RECEIVE
                 \/ deadline' >= TIMEOUT_RECEIVE /\ now = deadline' - TIMEOUT_RECEIVE
          BY <1>0, <4>1, DeadlineType, GpioAssumption DEF TypeOK
        <4> QED
          BY <3>1, <4>1, <4>2, GpioAssumption DEF Clock
      <3> QED
        BY <3>2, <3>3
    <2> QED
      BY <2>1, <2>2, <2>3, <2>4, <2>5 DEF EndsEarly, Dies, EndsAnswered, EndsShort, Abandon, Respond
  <1>4. CASE WaveLeaves \/ WordArrives \/ UNCHANGED vars
    <2>1. UNCHANGED <<pc, sent, build, deadline, heard, elapsed, now>>
      BY <1>4 DEF WaveLeaves, WordArrives, vars, txVars
    <2> QED
      BY <2>1 DEF Clock, InTx, Limit
  <1>5. CASE (\E valid \in BOOLEAN : ExecOpen(valid)) \/ (\E long \in BOOLEAN : ExecReset(long))
             \/ New \/ Break
    <2>1. ~InTx'
      BY <1>5 DEF ExecOpen, ExecReset, Refuse, New, Break, InTx
    <2> QED
      BY <2>1 DEF Clock
  <1> QED
    BY <1>2, <1>3, <1>4, <1>5 DEF Next, Command, Serve

-----------------------------------------------------------------------------
(***************************************************************************)
(* The dialogue.                                                           *)
(***************************************************************************)
\* What was read, has arrived and is owed, word by word.
LEMMA InThree ==
  ASSUME TypeOK, (response \o fifo) \o owed = told
  PROVE  /\ told \in Seq(Word) /\ Len(told) = Len(response) + Len(fifo) + Len(owed)
         /\ Len(response) \in Nat /\ Len(fifo) \in Nat /\ Len(owed) \in Nat
         /\ \A i \in 1..Len(response) : told[i] = response[i]
         /\ \A i \in 1..Len(fifo) : told[Len(response) + i] = fifo[i]
  <1>0. response \in Seq(Word) /\ fifo \in Seq(Word) /\ owed \in Seq(Word)
    BY DEF TypeOK
  <1> DEFINE c == response \o fifo
  <1>1. /\ c \in Seq(Word) /\ Len(c) = Len(response) + Len(fifo)
        /\ \A i \in 1..(Len(response) + Len(fifo)) :
             c[i] = IF i <= Len(response) THEN response[i] ELSE fifo[i - Len(response)]
    BY <1>0, ConcatProperties
  <1>2. told = c \o owed
    OBVIOUS
  <1> HIDE DEF c
  <1>3. /\ told \in Seq(Word) /\ Len(told) = Len(c) + Len(owed)
        /\ \A i \in 1..(Len(c) + Len(owed)) :
             told[i] = IF i <= Len(c) THEN c[i] ELSE owed[i - Len(c)]
    BY <1>0, <1>1, <1>2, ConcatProperties
  <1>4. Len(response) \in Nat /\ Len(fifo) \in Nat /\ Len(owed) \in Nat
    BY <1>0, LenProperties
  <1>5. ASSUME NEW i \in 1..Len(response) PROVE told[i] = response[i]
    <2>1. /\ i \in 1..(Len(response) + Len(fifo)) /\ i \in 1..(Len(c) + Len(owed))
          /\ i <= Len(c) /\ i <= Len(response)
      BY <1>1, <1>4
    <2> QED
      BY <1>1, <1>3, <2>1
  <1>6. ASSUME NEW i \in 1..Len(fifo) PROVE told[Len(response) + i] = fifo[i]
    <2> DEFINE k == Len(response) + i
    <2>1. /\ k \in 1..(Len(response) + Len(fifo)) /\ k \in 1..(Len(c) + Len(owed))
          /\ k <= Len(c) /\ ~(k <= Len(response)) /\ k - Len(response) = i
      BY <1>1, <1>4
    <2> HIDE DEF k
    <2>2. told[k] = fifo[i]
      BY <1>1, <1>3, <2>1
    <2> QED
      BY <2>2 DEF k
  <1> QED
    BY <1>1, <1>3, <1>4, <1>5, <1>6

\* All words of an answer but the last.
LEMMA FrontShape ==
  ASSUME NEW t \in Seq(Word), t # <<>>
  PROVE  /\ Front(t) \in Seq(Word) /\ Len(Front(t)) = Len(t) - 1 /\ Len(t) \in Nat \ {0}
         /\ \A i \in 1..(Len(t) - 1) : Front(t)[i] = t[i]
  <1>1. Len(t) \in Nat \ {0} /\ \A i \in 1..(Len(t) - 1) : t[i] \in Word
    BY EmptySeq
  <1>2. /\ 1 \in Int /\ Len(t) - 1 \in Int
        /\ \A i \in 1..(Len(t) - 1) : i \in 1..((Len(t) - 1) - 1 + 1) /\ 1 + i - 1 = i
    BY <1>1
  <1>3. /\ Front(t) \in Seq(Word)
        /\ Len(Front(t)) = IF 1 <= Len(t) - 1 THEN (Len(t) - 1) - 1 + 1 ELSE 0
        /\ \A i \in 1..((Len(t) - 1) - 1 + 1) : Front(t)[i] = t[1 + i - 1]
    BY <1>1, <1>2, SubSeqProperties DEF Front
  <1>4. Len(Front(t)) = Len(t) - 1
    <2>1. CASE Len(t) = 1
      BY <1>3, <2>1
    <2>2. CASE Len(t) > 1
      BY <1>1, <1>3, <2>2
    <2>3. Len(t) = 1 \/ Len(t) > 1
      <3>1. Len(t) \in Nat /\ Len(t) # 0
        BY <1>1
      <3>2. \A n \in Nat : n # 0 => n = 1 \/ n > 1
        OBVIOUS
      <3> QED
        BY <3>1, <3>2, Zenon
    <2> QED
      BY <2>1, <2>2, <2>3
  <1>5. ASSUME NEW i \in 1..(Len(t) - 1) PROVE Front(t)[i] = t[i]
    BY <1>2, <1>3
  <1> QED
    BY <1>1, <1>3, <1>4, <1>5

\* Where the answer of a tidy transaction ends: at the end of what has arrived.
LEMMA EndOfAnswer ==
  ASSUME Base, Dialogue, pc = "read", tidy, fifo # <<>>, EndsIn # {}
  PROVE  /\ told \in Answers(req.id) /\ told # <<>> /\ req.id \in Ids
         /\ owed = <<>> /\ air = <<>> /\ Left = <<>>
         /\ Words \in Seq(Word) /\ Words = Front(told)
         /\ Got[First] = told[Len(told)]
  <1>1. /\ InTx /\ sent = "request" /\ req.id \in Ids /\ told \in Answers(req.id)
        /\ (response \o fifo) \o owed = told /\ air = <<>>
        /\ \A i \in 1..Len(response) : ~Ends(response[i])
    BY DEF Base, Requests, Dialogue, InTx
  <1>2. response \in Seq(Word) /\ fifo \in Seq(Word) /\ owed \in Seq(Word)
    BY DEF Base, TypeOK
  <1>3. /\ told \in Seq(Word) /\ Len(told) = Len(response) + Len(fifo) + Len(owed)
        /\ Len(response) \in Nat /\ Len(fifo) \in Nat /\ Len(owed) \in Nat
        /\ \A i \in 1..Len(response) : told[i] = response[i]
        /\ \A i \in 1..Len(fifo) : told[Len(response) + i] = fifo[i]
    BY <1>1, InThree DEF Base
  <1>4. Taken \in 1..Block /\ Taken <= Len(fifo) /\ Len(Left) = Len(fifo) - Taken /\ Left \in Seq(Word)
    BY TakenShape DEF Base
  <1>5. /\ First \in 1..Taken /\ Got[First] = fifo[First] /\ Ends(fifo[First])
        /\ SubSeq(Got, 1, First - 1) \in Seq(Word)
        /\ Len(SubSeq(Got, 1, First - 1)) = First - 1
        /\ \A i \in 1..(First - 1) : SubSeq(Got, 1, First - 1)[i] = fifo[i]
    BY EndShape DEF Base
  <1>6. First \in 1..Len(fifo) /\ Len(response) + First \in 1..Len(told)
        /\ told[Len(response) + First] = fifo[First]
    BY <1>3, <1>4, <1>5
  <1>7. told # <<>>
    BY <1>3, <1>6
  <1>8. Len(response) + First = Len(told)
    <2>1. \A i \in 1..Len(told) : Ends(told[i]) <=> i = Len(told)
      <3>1. \A i \in 1..Len(told) : told[i].of = req.id /\ (Ends(told[i]) <=> i = Len(told))
        BY <1>1, <1>7, AnswerShape
      <3> QED
        BY <3>1
    <2> QED
      BY <1>5, <1>6, <2>1
  <1>9. Len(owed) = 0 /\ Len(Left) = 0
    BY <1>3, <1>4, <1>5, <1>6, <1>8
  <1>10. owed = <<>> /\ Left = <<>>
    BY <1>2, <1>4, <1>9, EmptySeq
  <1>11. /\ Words \in Seq(Word) /\ Len(Words) = Len(response) + (First - 1)
         /\ \A i \in 1..(Len(response) + (First - 1)) :
              Words[i] = IF i <= Len(response) THEN response[i]
                         ELSE SubSeq(Got, 1, First - 1)[i - Len(response)]
    BY <1>2, <1>5, ConcatProperties DEF Words
  <1>12. ASSUME NEW i \in 1..Len(Words) PROVE Words[i] = told[i]
    <2>1. CASE i <= Len(response)
      <3>1. i \in 1..Len(response) /\ i \in 1..(Len(response) + (First - 1))
        BY <1>3, <1>5, <1>11, <2>1
      <3> QED
        BY <1>3, <1>11, <2>1, <3>1
    <2>2. CASE ~(i <= Len(response))
      <3>1. /\ i \in 1..(Len(response) + (First - 1)) /\ i - Len(response) \in 1..(First - 1)
            /\ i - Len(response) \in 1..Len(fifo) /\ Len(response) + (i - Len(response)) = i
        BY <1>3, <1>4, <1>5, <1>11, <2>2
      <3>2. Words[i] = fifo[i - Len(response)]
        BY <1>5, <1>11, <2>2, <3>1
      <3>3. told[Len(response) + (i - Len(response))] = fifo[i - Len(response)]
        BY <1>3, <3>1
      <3> QED
        BY <3>1, <3>2, <3>3
    <2> QED
      BY <2>1, <2>2
  <1>13. Words = Front(told)
    <2>1. /\ Front(told) \in Seq(Word) /\ Len(Front(told)) = Len(told) - 1
          /\ \A i \in 1..(Len(told) - 1) : Front(told)[i] = told[i]
      BY <1>3, <1>7, FrontShape
    <2>2. Len(Words) = Len(Front(told)) /\ Len(Words) = Len(told) - 1
      BY <1>3, <1>5, <1>8, <1>11, <2>1
    <2>3. \A i \in 1..Len(Words) : Words[i] = Front(told)[i]
      BY <1>12, <2>1, <2>2
    <2> QED
      BY <1>11, <2>1, <2>2, <2>3, SeqEqual
  <1> QED
    BY <1>1, <1>5, <1>6, <1>7, <1>8, <1>10, <1>11, <1>13

\* Where nothing was answered and no transaction runs, only what is pending matters.
LEMMA QuietTalk ==
  ASSUME pc' \in {"idle", "new", "break", "gone"},
         pc' # "gone" => result'.of = 0 \/ result'.status \notin Whole,
         pc' \in {"new", "break"} => result'.of = 0,
         pc' # "gone" => "tx" \in broken' \/ ~Pending'
  PROVE  Talk'
  <1>1. ~InTx'
    BY DEF InTx
  <1>2. ~Answered'
    BY DEF Answered
  <1> QED
    BY <1>1, <1>2 DEF Talk, Dialogue, AnswersItself, AirAfterAnswer, Forgotten, Undisturbed

LEMMA CommandTalk ==
  ASSUME Base, Talk, \/ \E valid \in BOOLEAN : ExecOpen(valid)
                     \/ \E long \in BOOLEAN : ExecReset(long)
                     \/ New \/ Break
  PROVE  Talk'
  <1>1. CASE \E valid \in BOOLEAN : ExecOpen(valid)
    <2>1. /\ pc = "idle" /\ pc' \in {"new", "idle"} /\ Forget /\ owed' = owed
          /\ fifo' \in {fifo, <<>>} /\ air' \in {air, <<>>}
          /\ "tx" \in broken => "tx" \in broken'
      BY <1>1 DEF ExecOpen, Drop
    <2>2. result'.of = 0
      BY <2>1 DEF Forget, NoResult
    <2>3. "tx" \notin broken' => ~Pending'
      BY <2>1 DEF Talk, Undisturbed, Pending
    <2> QED
      BY <2>1, <2>2, <2>3, QuietTalk
  <1>2. CASE \E long \in BOOLEAN : ExecReset(long)
    <2>1. /\ pc = "idle" /\ pc' \in {"idle", "break"} /\ Forget
          /\ UNCHANGED <<fifo, owed, air, broken>>
      BY <1>2 DEF ExecReset, Refuse
    <2>2. result'.of = 0
      BY <2>1 DEF Forget, NoResult
    <2>3. "tx" \notin broken' => ~Pending'
      BY <2>1 DEF Talk, Undisturbed, Pending
    <2> QED
      BY <2>1, <2>2, <2>3, QuietTalk
  <1>3. CASE New
    <2>1. /\ pc = "new" /\ pc' = "idle" /\ UNCHANGED <<owed, result>>
          /\ fifo' \in {fifo, <<>>} /\ air' \in {air, <<>>}
          /\ "tx" \in broken => "tx" \in broken'
      BY <1>3 DEF New
    <2>2. result'.of = 0
      BY <2>1 DEF Talk, Forgotten
    <2>3. "tx" \notin broken' => ~Pending'
      BY <2>1 DEF Talk, Undisturbed, Pending
    <2> QED
      BY <2>1, <2>2, <2>3, QuietTalk
  <1>4. CASE Break
    <2>1. /\ pc = "break" /\ pc' = "idle" /\ UNCHANGED <<fifo, owed, air, result>>
          /\ "tx" \in broken => "tx" \in broken'
      BY <1>4 DEF Break
    <2>2. result'.of = 0
      BY <2>1 DEF Talk, Forgotten
    <2>3. "tx" \notin broken' => ~Pending'
      BY <2>1 DEF Talk, Undisturbed, Pending
    <2> QED
      BY <2>1, <2>2, <2>3, QuietTalk
  <1> QED
    BY <1>1, <1>2, <1>3, <1>4

\* A transaction begins with its request on the air and nothing said yet.
LEMMA TxTalk == ASSUME Base, Base', Talk, NEW len \in 1..Block, ExecTx(len) PROVE Talk'
  <1>0. pc = "idle" /\ req.id < MaxTx /\ ("tx" \notin broken => ~Pending)
    BY TxCases DEF Talk, Undisturbed
  <1>1. CASE Refuse
    <2>1. pc' = "idle" /\ result'.of = 0 /\ UNCHANGED <<fifo, owed, air, broken>>
      BY <1>0, <1>1 DEF Refuse, Forget, NoResult
    <2> QED
      BY <1>0, <2>1, QuietTalk DEF Pending
  <1>2. CASE pc' = "gone"
    BY <1>2, QuietTalk
  <1>3. CASE /\ Starts(len) /\ UNCHANGED <<pc, air>>
             /\ result' = [of |-> req.id + 1, status |-> "pigpio", words |-> <<>>]
    <2>1. pc' = "idle" /\ result'.status \notin Whole /\ UNCHANGED <<fifo, owed, air, broken>>
      BY <1>0, <1>3 DEF Whole, Starts
    <2> QED
      BY <1>0, <2>1, QuietTalk DEF Pending
  <1>4. CASE Starts(len) /\ \E at \in 0..(TickRange - 1) : Queued(len, at)
    <2>1. PICK at : Queued(len, at)
      BY <1>4
    <2>2. /\ pc' = "sending" /\ told' = <<>> /\ req'.id = req.id + 1
          /\ UNCHANGED <<fifo, owed, broken, response, sent>> /\ tidy' = ~Pending
      BY <1>4, <2>1 DEF Starts, Queued
    <2>3. response' = <<>> /\ sent' = "request"
      BY <1>0, <2>2 DEF Base, Rest
    <2>4. Undisturbed' /\ Forgotten' /\ AnswersItself' /\ AirAfterAnswer'
      BY <1>0, <2>2 DEF Undisturbed, Forgotten, AnswersItself, AirAfterAnswer, Answered, InTx
    <2>5. ASSUME tidy' PROVE Dialogue'
      <3>1. fifo' = <<>> /\ owed' = <<>> /\ air = <<>>
        BY <2>2, <2>5 DEF Pending
      <3> DEFINE wave == [wave |-> "request", of |-> req.id + 1,
                          marks |-> [i \in 1..(len + 1) |-> buf'[i - 1]]]
      <3>2. air' = Append(<<>>, wave) /\ wave.wave = "request" /\ wave.of = req.id + 1
        BY <2>1, <3>1 DEF Queued
      <3> HIDE DEF wave
      <3>3. Len(air') = 1 /\ air'[1] = wave
        BY <3>2
      <3>4. told' \in Answers(req'.id)
        BY <2>2 DEF Answers
      <3>5. (response' \o fifo') \o owed' = told'
        BY <2>2, <2>3, <3>1
      <3> QED
        BY <2>2, <2>3, <3>2, <3>3, <3>4, <3>5 DEF Dialogue
    <2>6. ASSUME ~tidy' PROVE Dialogue'
      BY <2>6 DEF Dialogue
    <2> QED
      BY <2>4, <2>5, <2>6 DEF Talk
  <1> QED
    BY <1>1, <1>2, <1>3, <1>4, TxCases

\* Waiting says and hears nothing.
LEMMA IdlesTalk == ASSUME Base', Talk, InTx, TxKeeps, Idles PROVE Talk'
  <1>1. /\ UNCHANGED <<told, owed, tidy, req, fifo, air, broken, sent, response>> /\ InTx'
        /\ (pc = "sending" => pc' = pc \/ air = <<>>)
    BY DEF TxKeeps, Idles
  <1>2. sent # "request" => pc' = "sending"
    <2>1. InTx' /\ (pc' \in {"read", "check"} => sent' = "request")
      BY <1>1 DEF Base, Requests
    <2> QED
      BY <1>1, <2>1 DEF InTx
  <1>3. Dialogue'
    BY <1>1, <1>2 DEF Talk, Dialogue
  <1>4. Undisturbed' /\ Forgotten' /\ AnswersItself' /\ AirAfterAnswer'
    BY <1>1 DEF Talk, Undisturbed, Forgotten, AnswersItself, AirAfterAnswer, Answered, InTx
  <1> QED
    BY <1>3, <1>4 DEF Talk

\* The words of an answer that goes on move from what has arrived to what was read.
LEMMA HearsTalk ==
  ASSUME Base, Base', Talk, InTx, TxKeeps, pc = "read", Takes, Hears
  PROVE  Talk'
  <1>1. /\ UNCHANGED <<pc, told, owed, tidy, req, air, broken, sent>> /\ pc' = "read"
        /\ response' = response \o Got /\ fifo' = Left /\ fifo # <<>> /\ EndsIn = {}
        /\ sent = "request"
    BY DEF TxKeeps, Hears, Takes, Base, Requests
  <1>2. /\ Got \in Seq(Word) /\ Left \in Seq(Word) /\ Got \o Left = fifo /\ Len(Got) = Taken
        /\ response \in Seq(Word) /\ owed \in Seq(Word)
    BY <1>1, TakenShape DEF Base, TypeOK
  <1>3. ASSUME tidy PROVE Dialogue'
    <2>1. /\ told \in Answers(req.id) /\ (response \o fifo) \o owed = told
          /\ \A i \in 1..Len(response) : ~Ends(response[i])
          /\ air = <<>>
      BY <1>1, <1>3 DEF Talk, Dialogue, InTx
    <2>2. (response \o Got) \o Left = response \o fifo
      <3>1. \A r, g, f \in Seq(Word) : (r \o g) \o f = r \o (g \o f)
        BY ConcatAssociative
      <3> QED
        BY <1>2, <3>1
    <2>3. (response' \o fifo') \o owed' = told'
      BY <1>1, <2>1, <2>2
    <2>4. \A i \in 1..Len(Got) : ~Ends(Got[i])
      BY <1>1, <1>2 DEF EndsIn
    <2>5. /\ Len(response \o Got) = Len(response) + Len(Got)
          /\ Len(response) \in Nat /\ Len(Got) \in Nat
          /\ \A i \in 1..(Len(response) + Len(Got)) :
               (response \o Got)[i] = IF i <= Len(response) THEN response[i]
                                      ELSE Got[i - Len(response)]
      BY <1>2, ConcatProperties, LenProperties
    <2>6. ASSUME NEW i \in 1..Len(response') PROVE ~Ends(response'[i])
      <3>1. i \in 1..(Len(response) + Len(Got))
        BY <1>1, <2>5, <2>6
      <3>2. CASE i <= Len(response)
        <4>1. i \in 1..Len(response) /\ response'[i] = response[i]
          BY <1>1, <2>5, <3>1, <3>2
        <4> QED
          BY <2>1, <4>1
      <3>3. CASE ~(i <= Len(response))
        <4>1. i - Len(response) \in 1..Len(Got) /\ response'[i] = Got[i - Len(response)]
          BY <1>1, <2>5, <3>1, <3>3
        <4> QED
          BY <2>4, <4>1
      <3> QED
        BY <3>2, <3>3
    <2> QED
      BY <1>1, <2>1, <2>3, <2>6 DEF Dialogue
  <1>4. ASSUME ~tidy PROVE Dialogue'
    BY <1>1, <1>4 DEF Dialogue
  <1>5. Undisturbed' /\ Forgotten' /\ AnswersItself' /\ AirAfterAnswer'
    BY <1>1 DEF Talk, Undisturbed, Forgotten, AnswersItself, AirAfterAnswer, Answered, InTx
  <1> QED
    BY <1>3, <1>4, <1>5 DEF Talk

\* An answer of several words, read to its end, is answered by the wave its
\* checksum asks for.
LEMMA LongTalk ==
  ASSUME Base, Base', Talk, InTx, TxKeeps, EndsLong
  PROVE  Talk'
  <1>0. /\ pc = "read" /\ fifo # <<>> /\ EndsIn # {} /\ Words # <<>> /\ fifo' = Left
        /\ Replies(Words, Got[First])
    BY DEF EndsLong, Takes
  <1>1. /\ UNCHANGED <<told, owed, tidy, req, broken>> /\ pc' = "sending"
        /\ response' = Words /\ sent' = Reply(Words, Got[First])
    BY <1>0 DEF TxKeeps, Replies
  <1>2. sent' \in {"ack", "nak"}
    BY <1>1 DEF Reply
  <1>3. ASSUME tidy PROVE Dialogue'
    <2>1. /\ told \in Answers(req.id) /\ told # <<>> /\ req.id \in Ids
          /\ owed = <<>> /\ air = <<>> /\ Left = <<>>
          /\ Words \in Seq(Word) /\ Words = Front(told)
          /\ Got[First] = told[Len(told)]
      BY <1>0, <1>3, EndOfAnswer DEF Talk
    <2>2. /\ told \in Seq(Word) /\ Len(told) \in 1..Block
          /\ \A i \in 1..Len(told) : told[i].of = req.id /\ (Ends(told[i]) <=> i = Len(told))
          /\ \A i \in 1..(Len(told) - 1) : told[i].ix = i
          /\ Len(told) > 1 => told[Len(told)].val \in {"chk", "bad"}
                              /\ told[Len(told)].ix = Len(told) - 1
      BY <2>1, AnswerShape
    <2>3. /\ Len(Words) = Len(told) - 1 /\ Len(told) \in Nat \ {0}
          /\ \A i \in 1..(Len(told) - 1) : Words[i] = told[i]
      BY <2>1, <2>2, FrontShape
    <2>4. Len(told) > 1
      <3>1. Len(Words) # 0
        BY <1>0, <2>1, EmptySeq
      <3> QED
        BY <2>3, <3>1
    <2>5. DOMAIN Words = 1..(Len(told) - 1)
      BY <2>1, <2>3
    <2>6. ChecksumHolds(Words, Got[First]) <=> told[Len(told)].val = "chk"
      <3>1. \A i \in 1..(Len(told) - 1) : Words[i].of = req.id /\ Words[i].ix = i
        <4>1. \A i \in 1..(Len(told) - 1) : i \in 1..Len(told)
          BY <2>3
        <4> QED
          BY <2>2, <2>3, <4>1
      <3>2. told[Len(told)].of = req.id
        BY <2>2, <2>3
      <3> QED
        BY <2>1, <2>2, <2>3, <2>4, <2>5, <3>1, <3>2 DEF ChecksumHolds
    <2>7. sent' = IF Last(told').val = "chk" THEN "ack" ELSE "nak"
      BY <1>1, <2>6 DEF Reply, Last
    <2>8. \A i \in 1..Len(air') : air'[i].wave = sent'
      <3>1. Len(air) = 0
        BY <2>1
      <3>2. /\ Len(air') = Len(air) + 1
            /\ air'[Len(air) + 1].wave = sent'
        <4>1. TypeOK /\ Got[First] \in Word
          BY <1>0, EndShape DEF Base
        <4> QED
          BY <1>0, <1>1, <2>1, <4>1, ReplyShape
      <3>3. \A i \in 1..(0 + 1) : i = 0 + 1
        OBVIOUS
      <3> QED
        BY <3>1, <3>2, <3>3
    <2> QED
      BY <1>0, <1>1, <1>2, <2>1, <2>4, <2>7, <2>8 DEF Dialogue
  <1>4. ASSUME ~tidy PROVE Dialogue'
    BY <1>1, <1>4 DEF Dialogue
  <1>5. Undisturbed' /\ Forgotten' /\ AnswersItself' /\ AirAfterAnswer'
    BY <1>1 DEF Talk, Undisturbed, Forgotten, AnswersItself, AirAfterAnswer, Answered, InTx
  <1> QED
    BY <1>3, <1>4, <1>5 DEF Talk

\* The last wait is over: what was read is the result.
LEMMA AnsweredTalk ==
  ASSUME Base, Talk, InTx, TxKeeps, EndsAnswered
  PROVE  Talk'
  <1>0. /\ air = <<>> /\ sent # "request" /\ pc' = "idle"
        /\ UNCHANGED <<told, owed, tidy, req, fifo, air, broken>>
        /\ \/ sent = "ack" /\ result' = [of |-> req.id, status |-> "OK", words |-> response]
           \/ sent = "nak" /\ result' = [of |-> req.id, status |-> "MdbChecksum", words |-> <<>>]
    BY DEF EndsAnswered, TxKeeps, Respond
  <1>1. ASSUME tidy
        PROVE  fifo = <<>> /\ owed = <<>> /\ AnswersItself'
    <2>1. /\ told \in Answers(req.id) /\ fifo = <<>> /\ owed = <<>>
          /\ Len(told) > 1 /\ response = Front(told)
          /\ sent = IF Last(told).val = "chk" THEN "ack" ELSE "nak"
      BY <1>0, <1>1 DEF Talk, Dialogue
    <2>2. told # <<>>
      BY <2>1
    <2>3. req.id \in Ids
      BY DEF Base, Requests
    <2>4. /\ Len(told) \in 1..Block
          /\ \A i \in 1..Len(told) : told[i].of = req.id /\ (Ends(told[i]) <=> i = Len(told))
      BY <2>1, <2>2, <2>3, AnswerShape
    <2>5. told[1].of = req.id
      <3>1. 1 \in 1..Len(told)
        BY <2>4
      <3> QED
        BY <2>4, <3>1
    <2>6. Reading(told) = IF Last(told).val = "chk" THEN "OK" ELSE "MdbChecksum"
      BY <2>1, <2>4 DEF Reading
    <2>7. result'.status = Reading(told)
      BY <1>0, <2>1, <2>6
    <2>8. result'.words = IF result'.status = "OK" THEN Front(told) ELSE <<>>
      BY <1>0, <2>1
    <2> QED
      BY <1>0, <2>1, <2>2, <2>5, <2>7, <2>8 DEF AnswersItself
  <1>2. AnswersItself'
    BY <1>0, <1>1 DEF AnswersItself
  <1>3. ~InTx' /\ air' = <<>>
    BY <1>0 DEF InTx
  <1>4. Dialogue' /\ AirAfterAnswer' /\ Forgotten'
    BY <1>0, <1>3 DEF Dialogue, AirAfterAnswer, Forgotten
  <1>5. Undisturbed'
    BY <1>0, <1>1, <1>3 DEF Talk, Undisturbed, Pending
  <1> QED
    BY <1>2, <1>4, <1>5 DEF Talk

\* An answer of one word is an acknowledgement, and it was all the peripheral said.
LEMMA ShortTalk ==
  ASSUME Base, Talk, InTx, TxKeeps, EndsShort
  PROVE  Talk'
  <1>0. /\ pc = "read" /\ fifo # <<>> /\ EndsIn # {} /\ Words = <<>> /\ fifo' = Left
        /\ UNCHANGED <<told, owed, tidy, req, air, broken>> /\ pc' = "idle"
    BY DEF EndsShort, Takes, TxKeeps, Respond
  <1>a. PICK s \in {"OK", "MdbNak", "MdbInvalidResponse"} :
          /\ result' = [of |-> req.id, status |-> s, words |-> <<>>]
          /\ (Got[First].val = "ack" => s = "OK") /\ (Got[First].val = "nak" => s = "MdbNak")
    BY DEF EndsShort, Respond
  <1>1. ASSUME tidy
        PROVE  fifo' = <<>> /\ owed = <<>> /\ air = <<>> /\ AnswersItself'
    <2>1. /\ told \in Answers(req.id) /\ told # <<>> /\ req.id \in Ids
          /\ owed = <<>> /\ air = <<>> /\ Left = <<>>
          /\ Words = Front(told) /\ Got[First] = told[Len(told)]
      BY <1>0, <1>1, EndOfAnswer DEF Talk
    <2>2. /\ told \in Seq(Word)
          /\ \A i \in 1..Len(told) : told[i].of = req.id /\ (Ends(told[i]) <=> i = Len(told))
          /\ Len(told) = 1 => told[Len(told)].val \in {"ack", "nak"}
      BY <2>1, AnswerShape
    <2>3. Len(Front(told)) = Len(told) - 1 /\ Len(told) \in Nat \ {0}
      BY <2>1, <2>2, FrontShape
    <2>4. Len(Front(told)) = 0
      BY <1>0, <2>1
    <2>5. Len(told) = 1
      BY <2>3, <2>4
    <2>6. told[1].of = req.id /\ told[1].val \in {"ack", "nak"} /\ Got[First] = told[1]
      BY <2>1, <2>2, <2>5
    <2>7. Reading(told) = s
      BY <1>a, <2>5, <2>6 DEF Reading
    <2>8. Front(told) = <<>>
      BY <1>0, <2>1
    <2> QED
      BY <1>0, <1>a, <2>1, <2>6, <2>7, <2>8 DEF AnswersItself
  <1>2. AnswersItself'
    BY <1>0, <1>1 DEF AnswersItself
  <1>3. ~InTx' /\ (tidy => air' = <<>>)
    BY <1>0, <1>1 DEF InTx
  <1>4. Dialogue' /\ AirAfterAnswer' /\ Forgotten'
    BY <1>0, <1>3 DEF Dialogue, AirAfterAnswer, Forgotten
  <1>5. Undisturbed'
    BY <1>0, <1>1, <1>3 DEF Talk, Undisturbed, Pending
  <1> QED
    BY <1>2, <1>4, <1>5 DEF Talk

LEMMA ServeTalk ==
  ASSUME Base, Base', Talk, SendWait \/ Read \/ Check
  PROVE  Talk'
  <1>1. /\ InTx /\ TxKeeps
        /\ \/ Idles \/ EndsEarly \/ Dies \/ EndsAnswered \/ EndsShort \/ EndsLong
           \/ pc = "read" /\ Takes /\ Hears
    BY TxOutcomes
  <1>2. CASE EndsEarly
    <2>1. /\ pc' = "idle" /\ result'.status \notin Whole /\ "tx" \in broken'
      BY <1>2 DEF EndsEarly, Abandon, Respond
    <2> QED
      BY <2>1, QuietTalk
  <1>3. CASE Dies
    BY <1>3, QuietTalk DEF Dies
  <1> QED
    BY <1>1, <1>2, <1>3, IdlesTalk, AnsweredTalk, ShortTalk, LongTalk, HearsTalk

\* The request leaves, and the peripheral answers it or does not.
LEMMA LeavesTalk == ASSUME Base, Base', Talk, WaveLeaves PROVE Talk'
  <1>0. /\ air # <<>> /\ air' = Tail(air)
        /\ UNCHANGED <<pc, req, response, sent, fifo, tidy, broken, result>>
    BY DEF WaveLeaves, txVars, driverVars, historyVars
  <1>1. /\ Len(air) \in Nat /\ Len(air) > 0 /\ Len(air') = Len(air) - 1
        /\ \A i \in 1..Len(air') : air'[i] = air[i + 1] /\ i + 1 \in 1..Len(air)
    BY <1>0, AirTail DEF Base
  <1>2. ASSUME InTx, tidy, sent = "request" PROVE Dialogue'
    <2>1. /\ (response \o fifo) \o owed = told
          /\ pc = "sending" /\ told = <<>>
          /\ Len(air) = 1 /\ air[1].wave = "request" /\ air[1].of = req.id
      BY <1>0, <1>2 DEF Talk, Dialogue
    <2>2. PICK a \in Answers(req.id) : owed' = a /\ told' = a
      BY <2>1 DEF WaveLeaves
    <2>3. response \in Seq(Word) /\ fifo \in Seq(Word) /\ owed \in Seq(Word) /\ req.id \in Ids
      BY <1>2 DEF Base, TypeOK, Requests
    <2>4. Len(response) + Len(fifo) + Len(owed) = 0 /\ Len(response) \in Nat
          /\ Len(fifo) \in Nat /\ Len(owed) \in Nat
      BY <2>1, InThree DEF Base
    <2>5. response = <<>> /\ fifo = <<>>
      BY <2>3, <2>4, EmptySeq
    <2>6. a \in Seq(Word)
      BY <2>2, <2>3, AnswersAreWords
    <2>7. (<<>> \o <<>>) \o a = a
      BY <2>6, ConcatEmptySeq
    <2>8. air' = <<>>
      <3>1. Len(air') = 0
        BY <1>1, <2>1
      <3> QED
        BY <3>1 DEF Base, TypeOK
    <2>9. (response' \o fifo') \o owed' = told'
      BY <1>0, <2>2, <2>5, <2>7
    <2>10. \A i \in 1..Len(response') : ~Ends(response'[i])
      BY <1>0, <2>5
    <2>11. told' \in Answers(req'.id) /\ sent' = "request"
      BY <1>0, <1>2, <2>2
    <2> QED
      BY <2>8, <2>9, <2>10, <2>11 DEF Dialogue
  <1>3. ASSUME InTx, tidy, sent # "request" PROVE Dialogue'
    <2>1. \A i \in 1..Len(air) : air[i].wave = sent
      BY <1>3 DEF Talk, Dialogue
    <2>2. 1 \in 1..Len(air)
      BY <1>1
    <2>3. UNCHANGED <<owed, told>>
      BY <1>3, <2>1, <2>2 DEF WaveLeaves
    <2>4. \A i \in 1..Len(air') : air'[i].wave = sent'
      BY <1>0, <1>1, <2>1
    <2> QED
      BY <1>0, <1>3, <2>3, <2>4 DEF Talk, Dialogue
  <1>4. Dialogue'
    <2>1. CASE ~(InTx /\ tidy)
      BY <1>0, <2>1 DEF Dialogue, InTx
    <2> QED
      BY <1>2, <1>3, <2>1
  <1>5. AnswersItself' /\ AirAfterAnswer'
    <2>1. ASSUME Answered, tidy PROVE told' = told /\ \A i \in 1..Len(air') : air'[i].wave # "request"
      <3>1. 1 \in 1..Len(air) /\ \A i \in 1..Len(air) : air[i].wave # "request"
        BY <1>1, <2>1 DEF Talk, AirAfterAnswer
      <3> QED
        BY <1>1, <3>1 DEF WaveLeaves
    <2>2. Answered' = Answered
      BY <1>0 DEF Answered
    <2> QED
      BY <1>0, <2>1, <2>2 DEF Talk, AnswersItself, AirAfterAnswer
  <1>6. Forgotten' /\ Undisturbed'
    BY <1>0 DEF Talk, Forgotten, Undisturbed, Pending, InTx
  <1> QED
    BY <1>4, <1>5, <1>6 DEF Talk

\* A word of the answer arrives: the driver is open, so somebody listens.
LEMMA ArrivesTalk == ASSUME Base, Base', PortHeld, Talk, WordArrives PROVE Talk'
  <1>0. UNCHANGED <<pc, req, response, sent, air, told, tidy, broken, result>>
    BY DEF WordArrives, txVars, driverVars, historyVars
  <1>1. /\ owed # <<>> /\ owed[1] \in Word /\ owed' = Tail(owed)
        /\ serial => fifo' = Append(fifo, owed[1])
    BY Arrives DEF Base, WordArrives
  <1>2. ASSUME InTx, tidy PROVE Dialogue'
    <2>1. serial
      BY <1>2 DEF Base, Requests, PortHeld
    <2>2. response \in Seq(Word) /\ fifo \in Seq(Word) /\ owed \in Seq(Word)
      BY DEF Base, TypeOK
    <2>3. /\ told \in Answers(req.id) /\ sent = "request"
          /\ (response \o fifo) \o owed = told
          /\ \A i \in 1..Len(response) : ~Ends(response[i])
          /\ \/ air = <<>>
             \/ /\ pc = "sending" /\ told = <<>>
                /\ Len(air) = 1 /\ air[1].wave = "request" /\ air[1].of = req.id
      BY <1>1, <1>2 DEF Talk, Dialogue
    <2>4. /\ Append(fifo, owed[1]) = fifo \o <<owed[1]>> /\ owed = <<owed[1]>> \o Tail(owed)
          /\ <<owed[1]>> \in Seq(Word) /\ Tail(owed) \in Seq(Word)
      BY <1>1, <2>2
    <2>5. \A r, f, o \in Seq(Word) : (r \o f) \o o = r \o (f \o o)
      BY ConcatAssociative
    <2>6. fifo \o <<owed[1]>> \in Seq(Word)
      BY <2>2, <2>4, ConcatProperties
    <2>7. (response \o (fifo \o <<owed[1]>>)) \o Tail(owed)
            = response \o ((fifo \o <<owed[1]>>) \o Tail(owed))
      BY <2>2, <2>4, <2>5, <2>6, ZenonT(60)
    <2>8. (fifo \o <<owed[1]>>) \o Tail(owed) = fifo \o owed
      BY <2>2, <2>4, <2>5
    <2>9. (response \o fifo) \o owed = response \o (fifo \o owed)
      BY <2>2, <2>5
    <2>10. (response' \o fifo') \o owed' = told'
      BY <1>0, <1>1, <2>1, <2>3, <2>4, <2>7, <2>8, <2>9
    <2> QED
      BY <1>0, <2>3, <2>10 DEF Dialogue
  <1>3. ASSUME ~(InTx /\ tidy) PROVE Dialogue'
    BY <1>0, <1>3 DEF Dialogue, InTx
  <1>4. AnswersItself' /\ AirAfterAnswer' /\ Forgotten'
    BY <1>0 DEF Talk, AnswersItself, AirAfterAnswer, Forgotten, Answered
  <1>5. Undisturbed'
    BY <1>0, <1>1 DEF Talk, Undisturbed, Pending, InTx
  <1> QED
    BY <1>2, <1>3, <1>4, <1>5 DEF Talk

LEMMA StepTalk == ASSUME Base, Base', PortHeld, Talk, [Next]_vars PROVE Talk'
  <1>1. CASE \E len \in 1..Block : ExecTx(len)
    BY <1>1, TxTalk
  <1>2. CASE UNCHANGED vars
    <2>1. UNCHANGED <<pc, req, response, sent, fifo, owed, air, told, tidy, broken, result>>
      BY <1>2 DEF vars, txVars, driverVars, busVars, historyVars
    <2>2. Dialogue' /\ AnswersItself' /\ AirAfterAnswer'
      BY <2>1 DEF Talk, Dialogue, AnswersItself, AirAfterAnswer, Answered, InTx
    <2>3. Forgotten' /\ Undisturbed'
      BY <2>1 DEF Talk, Forgotten, Undisturbed, Pending, InTx
    <2> QED
      BY <2>2, <2>3 DEF Talk
  <1> QED
    BY <1>1, <1>2, CommandTalk, ServeTalk, LeavesTalk, ArrivesTalk DEF Next, Command, Serve

-----------------------------------------------------------------------------
(***************************************************************************)
(* The theorems.                                                           *)
(***************************************************************************)
LEMMA InitIInv == Init => IInv
  <1> SUFFICES ASSUME Init PROVE IInv
    OBVIOUS
  <1>1. Base
    BY InitBase
  <1>2. Clock /\ PortHeld /\ Owned
    BY DEF Init, Clock, PortHeld, Owned, InTx
  <1>3. ZeroBuf
    <2>1. \A i \in 1..(Block - 1) : i \in 0..(Block - 1)
      BY GpioAssumption
    <2> QED
      BY <2>1 DEF Init, ZeroBuf
  <1>4. StaleMarksNeedLongReads
    BY DEF Init, StaleMarksNeedLongReads, MarksOnlyTheAddress
  <1>5. Talk
    BY DEF Init, Talk, Dialogue, AnswersItself, AirAfterAnswer, Forgotten, Undisturbed, Answered,
       InTx, NoReq, NoResult, Pending
  <1> QED
    BY <1>1, <1>2, <1>3, <1>4, <1>5 DEF IInv

LEMMA StepIInv == IInv /\ [Next]_vars => IInv'
  <1> SUFFICES ASSUME IInv, [Next]_vars PROVE IInv'
    OBVIOUS
  <1> USE DEF IInv
  <1>1. Base'
    BY StepBase
  <1>2. Clock'
    BY <1>1, StepClock
  <1>3. PortHeld' /\ Owned'
    BY StepPort, StepOwned
  <1>4. ZeroBuf' /\ StaleMarksNeedLongReads'
    BY <1>1, StepMarks
  <1>5. Talk'
    BY <1>1, StepTalk
  <1> QED
    BY <1>1, <1>2, <1>3, <1>4, <1>5

LEMMA AlwaysIInv == Spec => []IInv
  BY InitIInv, StepIInv, PTL DEF Spec

\* A transaction that begins with nothing pending answers with what the peripheral
\* said to this request, whole and under the right status; between transactions
\* something is pending only after one of them ended early.
THEOREM TransactionAnswersItself == Spec => []OwnAnswer
  <1>1. IInv => OwnAnswer
    BY DEF IInv, Talk, Undisturbed, OwnAnswer
  <1> QED
    BY <1>1, AlwaysIInv, PTL

\* A driver that is open has the reader; the reader outlives it only behind an open
\* or a close that stopped half way, and the break only a reset that did.
THEOREM PortIsHeld == Spec => []PortHeld
  <1>1. IInv => PortHeld
    BY DEF IInv
  <1> QED
    BY <1>1, AlwaysIInv, PTL

\* No wave is lost and none is sent that does not exist, as long as no transaction
\* ended under its wave.
THEOREM WavesHaveOwners == Spec => []WavesAreOwned
  <1>1. ASSUME IInv PROVE WavesAreOwned
    <2>1. DOMAIN air = 1..Len(air)
      BY <1>1 DEF IInv, Base, TypeOK
    <2>2. ASSUME NEW i \in 1..Len(air), "tx" \notin broken, pc # "gone"
          PROVE  air[i].wave \in waves
      <3>1. air # <<>>
        BY <2>2
      <3>2. InTx /\ tidy
        <4>1. pc \notin {"idle", "new", "break"}
          BY <1>1, <2>2, <3>1 DEF IInv, Talk, Undisturbed, Pending
        <4>2. InTx
          BY <1>1, <2>2, <4>1 DEF IInv, Base, TypeOK, InTx
        <4> QED
          BY <1>1, <2>2, <4>2 DEF IInv, Talk, Undisturbed
      <3>3. waves = {"ack", "nak", "request"}
        BY <1>1, <2>2, <3>2 DEF IInv, Base, Requests, Owned
      <3>4. air[i].wave \in {"request", sent}
        <4>1. CASE sent = "request"
          <5>1. Len(air) = 1 /\ air[1].wave = "request"
            BY <1>1, <3>1, <3>2, <4>1 DEF IInv, Talk, Dialogue
          <5>2. \A j \in 1..1 : j = 1
            OBVIOUS
          <5> QED
            BY <5>1, <5>2
        <4>2. CASE sent # "request"
          BY <1>1, <3>2, <4>2 DEF IInv, Talk, Dialogue
        <4> QED
          BY <4>1, <4>2
      <3> QED
        BY <1>1, <3>3, <3>4 DEF IInv, Base, TypeOK
    <2>3. Owned
      BY <1>1 DEF IInv
    <2> QED
      BY <2>1, <2>2, <2>3 DEF WavesAreOwned, Owned, InTx
  <1> QED
    BY <1>1, AlwaysIInv, PTL

\* As long as the words are read one by one out of a buffer of zeros, a request
\* carries the mark of an address on its first word and on no other.
THEOREM MarksAreRight == Spec => []StaleMarksNeedLongReads
  <1>1. IInv => StaleMarksNeedLongReads
    BY DEF IInv
  <1> QED
    BY <1>1, AlwaysIInv, PTL

\* No transaction gives up before its time, wherever the clock stands when it
\* begins, unless its deadline lies beyond the wrap of a release build's clock.
THEOREM NoTimeoutIsEarly == Spec => NoEarlyTimeout
  <1>1. ASSUME IInv, [Next]_vars, pc = "check", pc' = "idle"
        PROVE  elapsed > Limit \/ (build = "release" /\ deadline < Limit)
    <2>1. Check /\ Expired
      BY <1>1, TxCases DEF Next, Command, Serve, ExecOpen, ExecReset, ExecTx, New, Break, SendWait, Read,
         Check, WaveLeaves, WordArrives, vars
    <2>2. now \in 0..(TickRange - 1) /\ deadline \in Nat /\ elapsed \in Nat /\ TickRange \in Nat
          /\ Limit \in Nat
      BY <1>1, LimitType, GpioAssumption DEF IInv, Base, TypeOK
    <2>3. tick_since(0, now) = now
      <3>1. now + TickRange - 0 \in Nat /\ TickRange <= now + TickRange - 0
            /\ now + TickRange - 0 < TickRange + TickRange
            /\ (now + TickRange - 0) - TickRange = now
        BY <2>2
      <3> QED
        BY <3>1, TickType DEF tick_since
    <2>4. now > deadline
      BY <2>1, <2>3 DEF Expired
    <2>5. \/ build = "release" /\ deadline < Limit
          \/ deadline >= Limit /\ (elapsed <= Limit => now = (deadline - Limit) + elapsed)
      BY <1>1 DEF IInv, Base, Requests, Clock, InTx
    <2> QED
      BY <2>2, <2>4, <2>5
  <1>2. ASSUME IInv, [Next]_vars
        PROVE  [pc = "check" /\ pc' = "idle" =>
                  elapsed > Limit \/ (build = "release" /\ deadline < Limit)]_vars
    BY <1>1, <1>2
  <1> QED
    BY <1>2, AlwaysIInv, PTL DEF Spec, NoEarlyTimeout
=============================================================================
