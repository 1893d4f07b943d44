-------------------------------- MODULE GpioMdb --------------------------------
(*****************************************************************************)
(* The MDB half of the iodin server: Server::exec (server.rs) and the        *)
(* GpioMdb it opens, uses and drops (mdb.rs), on top of the pigpio library   *)
(* and of a peripheral on the bus, which are external.                       *)
(*                                                                           *)
(* The server is one thread.  What it shares with others is the line, the    *)
(* buffer of received words that pigpio fills behind its back, and the clock *)
(* gpioTick, which wraps: 2^32 microseconds are 71 minutes and are TickRange *)
(* units here.  Inside a transaction time passes in gpioDelay only; being    *)
(* scheduled out makes a delay longer.  Between two of them any time passes, *)
(* so the clock is kept only while one runs and any reading starts the next. *)
(*****************************************************************************)
EXTENDS Naturals, FiniteSets, SequencesExt

CONSTANTS
  Block,       \* BLOCK_MAX_LENGTH, in words
  TickRange,   \* the width of gpioTick: 2^32 in the code
  MDB_TIMEOUT, TIMEOUT_CHAR, TIMEOUT_RECEIVE, TIMEOUT_SMALL,
  MaxDelay,    \* bound: units that pass in one gpioDelay, at least 1
  MaxTx,       \* bound: transactions asked for
  MaxFaults    \* bound: pigpio calls that fail

ASSUME GpioAssumption ==
  /\ Block \in Nat \ {0, 1}
  /\ MaxDelay \in Nat \ {0}
  /\ TickRange \in Nat /\ TickRange > MaxDelay
  /\ \A t \in {MDB_TIMEOUT, TIMEOUT_CHAR, TIMEOUT_RECEIVE, TIMEOUT_SMALL} :
       t \in 1..(TickRange - 1)
  /\ MaxTx \in Nat /\ MaxFaults \in Nat

VARIABLES
  build,       \* "debug": an overflow panics; "release": it wraps
  now,         \* gpioTick
  pc,          \* where exec is; "gone": the process has panicked
  mdb,         \* Server.mdb is Some
  buf,         \* the odd bytes of GpioMdb.buf: the ninth bits
  waves,       \* pigpio waves that exist
  serial,      \* pigpio reads the rx pin
  fifo,        \* words pigpio has received and the server has not read
  air,         \* waves queued for transmission, and the word marks of a request
  txPin,       \* the level gpioWrite left on the tx pin
  req,         \* the transaction: [id, len]
  response,    \* words received without the ninth bit
  sent,        \* the wave mdb_wave_send_wait waits for
  start,       \* its start, in ticks
  deadline,    \* of the wait in progress
  heard,       \* the first words of the answer have been read
  owed,        \* peripheral: words of its answer not yet on the line
  told,        \* history: the peripheral's whole answer to the newest request
  elapsed,     \* history: time since the deadline was set, at most its bound
  tidy,        \* history: nothing was pending when the transaction began
  zeroed,      \* history: buf started as zeros and no read gave several words
  broken,      \* history: what failed half way
  result,      \* history: what the newest MDB_TX was answered
  faults       \* failed pigpio calls so far

txVars == <<now, response, sent, start, deadline, heard, elapsed>>
driverVars == <<mdb, buf, waves, req>>
busVars == <<serial, fifo, air, txPin, owed, told>>
historyVars == <<tidy, zeroed, broken, result>>
vars == <<build, pc, faults, txVars, driverVars, busVars, historyVars>>

-----------------------------------------------------------------------------
(* Words and answers. *)

Ids == 1..MaxTx

\* of: the transaction the peripheral answers; ix: the place of a data word, the
\* number of data words before a checksum.  "bad" is a checksum garbled on the
\* line.  Every word but "data" has the ninth bit, which ends an answer.
Word == [of : Ids, val : {"data", "chk", "bad", "ack", "nak"}, ix : 0..Block]
Ends(w) == w.val # "data"
NinthBit(w) == IF Ends(w) THEN 1 ELSE 0

\* What a peripheral may answer; silence is one of it.
Answers(id) ==
  LET word(v, i) == [of |-> id, val |-> v, ix |-> i]
      data(n) == [i \in 1..n |-> word("data", i)]
  IN {<<>>, <<word("ack", 0)>>, <<word("nak", 0)>>}
       \cup {Append(data(n), word(v, n)) : n \in 1..(Block - 1), v \in {"chk", "bad"}}

NoChecksum(words, end) == TRUE   \* mutant: end_byte is not compared
\* checksum(response) == end_byte.  Words of different answers do not add up.
ChecksumHolds(words, end) ==
  /\ end.val = "chk" /\ end.ix = Len(words)
  /\ \A i \in DOMAIN words : words[i].of = end.of /\ words[i].ix = i

\* What an answer reads as when it is taken whole.
Reading(answer) ==
  IF Len(answer) = 1 THEN [ack |-> "OK", nak |-> "MdbNak"][answer[1].val]
  ELSE IF Last(answer).val = "chk" THEN "OK" ELSE "MdbChecksum"

MaxElapsed ==
  1 + (IF MDB_TIMEOUT > TIMEOUT_RECEIVE THEN MDB_TIMEOUT ELSE TIMEOUT_RECEIVE)
NoReq == [id |-> 0, len |-> 0]
Marks == [0..(Block - 1) -> {0, 1}]
Statuses == {"OK", "MdbNak", "MdbInvalidResponse", "MdbChecksum",
             "recv timeout", "send timeout", "pigpio"}
NoResult == [of |-> 0, status |-> "OK", words |-> <<>>]

TypeOK ==
  /\ build \in {"debug", "release"}
  /\ now \in 0..(TickRange - 1)
  /\ start \in 0..(TickRange - 1)
  /\ deadline \in 0..(TickRange - 1)
  /\ elapsed \in 0..MaxElapsed
  /\ pc \in {"idle", "new", "sending", "read", "check", "break", "gone"}
  /\ mdb \in BOOLEAN /\ serial \in BOOLEAN /\ heard \in BOOLEAN
  /\ buf \in Marks
  /\ waves \subseteq {"ack", "nak", "request"}
  /\ fifo \in Seq(Word) /\ response \in Seq(Word)
  /\ owed \in Seq(Word) /\ told \in Seq(Word)
  /\ air \in Seq([wave : {"ack", "nak", "request"}, of : 0..MaxTx, marks : Seq({0, 1})])
  /\ txPin \in {0, 1}
  /\ req \in [id : 0..MaxTx, len : 0..Block]
  /\ sent \in {"ack", "nak", "request"}
  /\ tidy \in BOOLEAN /\ zeroed \in BOOLEAN
  /\ broken \subseteq {"new", "close", "reset", "tx"}
  /\ result.of \in 0..MaxTx /\ result.status \in Statuses
  /\ result.words \in Seq(Word)
  /\ faults \in 0..MaxFaults

-----------------------------------------------------------------------------
(* The clock: pigpio::tick_since, u32 sums of mdb.rs. *)

tick_since(t, at) == (at + TickRange - t) % TickRange

CharDeadline(at, timeout) == (at + TIMEOUT_CHAR) % TickRange  \* mutant: the send deadline
\* start + timeout in u32: wraps in a release build, panics in a debug build.
Deadline(at, timeout) == (at + timeout) % TickRange
Overflows(at, timeout) == build = "debug" /\ at + timeout >= TickRange

NoWrap(d) == now + d             \* mutant: the clock is taken for unbounded
\* gpioDelay(wait_step), however late the process runs again: the clock after it.
AfterDelay(d) == (now + d) % TickRange

\* Another turn of a waiting loop, d units later.
WaitOn(d) ==
  /\ now' = AfterDelay(d)
  /\ elapsed' = IF elapsed + d > MaxElapsed THEN MaxElapsed ELSE elapsed + d

\* check() turns what a pigpio call returns into an error, which ? passes on; one
\* of the negative codes of the bindings is a fault, whichever it is.
MayFail == faults < MaxFaults
Fault == MayFail /\ faults' = faults + 1
NoFault == UNCHANGED faults

-----------------------------------------------------------------------------
(* Server::exec returns.  A transaction drops its wave on every path. *)

KeepsWave(status, words) ==      \* mutant: the wave is forgotten, not deleted
  /\ pc' = "idle"
  /\ result' = [of |-> req.id, status |-> status, words |-> words]
  /\ response' = <<>> /\ sent' = "request" /\ heard' = FALSE
  /\ now' = 0 /\ start' = 0 /\ deadline' = 0 /\ elapsed' = 0
  /\ UNCHANGED <<mdb, req, waves>>

Respond(status, words) ==
  /\ pc' = "idle"
  /\ result' = [of |-> req.id, status |-> status, words |-> words]
  /\ waves' = waves \ {"request"}
  /\ response' = <<>> /\ sent' = "request" /\ heard' = FALSE
  /\ now' = 0 /\ start' = 0 /\ deadline' = 0 /\ elapsed' = 0
  /\ UNCHANGED <<mdb, req>>

\* A transaction that ends before the answer was read to its end.
Abandon(status) ==
  /\ Respond(status, <<>>)
  /\ broken' = broken \cup {"tx"}

\* An assertion or an overflow: nothing below catches the panic.
Panic ==
  /\ pc' = "gone"
  /\ UNCHANGED <<txVars, mdb, waves, req, broken, result>>

\* A command other than MDB_TX, or one that is refused before it does anything:
\* the history of the last transaction ends.
Forget == result' = NoResult /\ tidy' = TRUE /\ told' = <<>>

Refuse ==
  /\ Forget
  /\ UNCHANGED <<build, pc, faults, txVars, driverVars, serial, fifo, air, txPin,
                 owed, zeroed, broken>>

-----------------------------------------------------------------------------
(* MDB_OPEN. *)

DropFieldsOnly ==                \* mutant: no impl Drop
  NoFault /\ UNCHANGED <<serial, fifo, air, broken>>

\* GpioMdb::drop closes and ignores what fails.  A failed TxStop returns before
\* SerialReadClose; if that fails, the waves have been stopped.
Drop ==
  \/ /\ NoFault
     /\ serial' = FALSE /\ fifo' = <<>> /\ air' = <<>>
     /\ UNCHANGED broken
  \/ /\ Fault
     /\ broken' = broken \cup {"close"}
     /\ air' \in {air, <<>>}
     /\ UNCHANGED <<serial, fifo>>

\* self.mdb = None comes first: the fields drop their waves too.
ExecOpen(valid) ==
  /\ pc = "idle"
  /\ mdb' = FALSE
  /\ waves' = {}
  /\ \/ ~mdb /\ NoFault /\ UNCHANGED <<serial, fifo, air, broken>>
     \/ mdb /\ Drop
  /\ pc' = IF valid THEN "new" ELSE "idle"
  /\ Forget
  /\ UNCHANGED <<build, txVars, buf, req, txPin, owed, zeroed>>

\* GpioMdb::new: pins, serial reader, TxStop, two waves, and a buffer nobody
\* initialises.  The reader is refused while an earlier one is open.
New ==
  /\ pc = "new"
  /\ pc' = "idle"
  /\ \/ /\ ~serial /\ NoFault
        /\ mdb' = TRUE /\ serial' = TRUE /\ fifo' = <<>> /\ air' = <<>>
        /\ waves' = {"ack", "nak"}
        /\ \E b \in Marks :
             /\ buf' = b
             /\ zeroed' = (\A i \in DOMAIN b : b[i] = 0)
        /\ UNCHANGED broken
     \/ /\ \/ serial /\ NoFault
           \/ Fault
        /\ UNCHANGED <<mdb, serial, fifo, air, waves, buf, zeroed, broken>>
     \/ /\ ~serial /\ Fault                 \* TxStop or a wave fails
        /\ serial' = TRUE /\ fifo' = <<>>
        /\ air' \in {air, <<>>}
        /\ broken' = broken \cup {"new"}
        /\ UNCHANGED <<mdb, waves, buf, zeroed>>
  /\ UNCHANGED <<build, txVars, req, txPin, owed, told, tidy, result>>

-----------------------------------------------------------------------------
(* MDB_RESET: GpioMdb::bus_reset. *)

\* long: the duration does not fit 32 bits of microseconds.
ExecReset(long) ==
  /\ pc = "idle"
  /\ \/ ~mdb /\ Refuse
     \/ /\ mdb
        /\ \/ /\ \/ long /\ NoFault
                 \/ ~long /\ Fault
              /\ UNCHANGED <<pc, txPin>>
           \/ /\ ~long /\ NoFault
              /\ txPin' = 1 /\ pc' = "break"
        /\ Forget
        /\ UNCHANGED <<build, txVars, driverVars, serial, fifo, air, owed,
                       zeroed, broken>>

Break ==
  /\ pc = "break"
  /\ pc' = "idle"
  /\ \/ NoFault /\ txPin' = 0 /\ UNCHANGED broken
     \/ Fault /\ broken' = broken \cup {"reset"} /\ UNCHANGED txPin
  /\ UNCHANGED <<build, txVars, driverVars, serial, fifo, air, owed, told, tidy,
                 zeroed, result>>

-----------------------------------------------------------------------------
(* MDB_TX: GpioMdb::tx. *)

Pending == fifo # <<>> \/ owed # <<>> \/ air # <<>>

MarkSecond(b) == [b EXCEPT ![1] = 1]   \* mutant: the index counts words
MarkAddress(b) == [b EXCEPT ![0] = 1]

\* The request is written over buf, byte by byte; of the ninth bits only the
\* first is written.  ONE_SHOT_SYNC queues the wave behind one that still runs.
ExecTx(len) ==
  /\ pc = "idle"
  /\ req.id < MaxTx
  /\ \/ ~mdb /\ Refuse
     \/ /\ mdb
        /\ req' = [id |-> req.id + 1, len |-> len]
        /\ tidy' = ~Pending /\ told' = <<>>
        /\ \E at \in 0..(TickRange - 1) :
           \/ /\ \/ len >= Block                           \* assert!
                 \/ Overflows(at, MDB_TIMEOUT) \/ Overflows(at, TIMEOUT_CHAR * len)
              /\ pc' = "gone" /\ NoFault
              /\ result' = NoResult
              /\ UNCHANGED <<txVars, buf, waves, air>>
           \/ /\ len < Block
              /\ Fault                               \* the wave, or its sending
              /\ buf' = MarkAddress(buf)
              /\ result' = [of |-> req.id + 1, status |-> "pigpio", words |-> <<>>]
              /\ UNCHANGED <<pc, txVars, waves, air>>
           \/ /\ len < Block
              /\ ~Overflows(at, MDB_TIMEOUT) /\ ~Overflows(at, TIMEOUT_CHAR * len)
              /\ NoFault
              /\ buf' = MarkAddress(buf)
              /\ deadline' = Deadline(at, MDB_TIMEOUT)
              /\ now' = at /\ start' = at
              /\ waves' = waves \cup {"request"}
              /\ air' = Append(air, [wave |-> "request", of |-> req.id + 1,
                                marks |-> [i \in 1..(len + 1) |-> buf'[i - 1]]])
              /\ pc' = "sending"
              /\ result' = NoResult
              /\ UNCHANGED <<response, sent, heard, elapsed>>
        /\ UNCHANGED <<build, mdb, serial, fifo, txPin, owed, zeroed,
                       broken>>

SendDeadline ==
  CASE sent = "request" -> (start + TIMEOUT_CHAR * req.len) % TickRange
    [] OTHER -> (start + TIMEOUT_SMALL) % TickRange

\* After the wave: a request goes on to wait for the answer, ACK and NAK end it.
Sent(d) ==
  CASE sent = "request" ->
         /\ pc' = "read" /\ WaitOn(d) /\ start' = 0
         /\ UNCHANGED <<deadline, response, sent, heard, mdb, waves, req,
                        broken, result>>
    [] sent = "ack" -> Respond("OK", response) /\ UNCHANGED broken
    [] sent = "nak" -> Respond("MdbChecksum", <<>>) /\ UNCHANGED broken

\* One turn of the loop in mdb_wave_send_wait.  It compares the time that has
\* passed with a deadline that is a point in time.
SendWait ==
  /\ pc = "sending"
  /\ \E d \in 1..MaxDelay :
       \/ air = <<>> /\ NoFault /\ Sent(d)
       \/ /\ air # <<>> /\ NoFault
          /\ IF tick_since(start, AfterDelay(d)) > SendDeadline
             THEN Abandon("send timeout")
             ELSE /\ WaitOn(d)
                  /\ UNCHANGED <<pc, start, deadline, response, sent, heard, mdb,
                                 waves, req, broken, result>>
       \/ Fault /\ Abandon("pigpio")
  /\ UNCHANGED <<build, buf, busVars, tidy, zeroed>>

\* The end of an answer: one word alone is an acknowledgement, otherwise it is a
\* checksum, which is answered.  What follows it in the same read is forgotten.
Finish(words, end) ==
  IF words = <<>>
  THEN /\ \/ end.val = "ack" /\ Respond("OK", <<>>)
          \/ end.val = "nak" /\ Respond("MdbNak", <<>>)
          \/ /\ end.val \in {"chk", "bad"}             \* a byte of any value
             /\ \E s \in {"OK", "MdbNak", "MdbInvalidResponse"} : Respond(s, <<>>)
       /\ NoFault
       /\ UNCHANGED <<air, broken>>
  ELSE \/ Overflows(now, TIMEOUT_SMALL) /\ NoFault /\ Panic /\ UNCHANGED air
       \/ /\ ~Overflows(now, TIMEOUT_SMALL) /\ NoFault
          /\ LET w == IF ChecksumHolds(words, end) THEN "ack" ELSE "nak" IN
             /\ sent' = w
             /\ air' = Append(air, [wave |-> w, of |-> req.id, marks |-> <<0>>])
          /\ start' = now /\ elapsed' = 0 /\ deadline' = 0 /\ heard' = TRUE
          /\ UNCHANGED now
          /\ response' = words
          /\ pc' = "sending"
          /\ UNCHANGED <<mdb, waves, req, broken, result>>
       \/ ~Overflows(now, TIMEOUT_SMALL) /\ Fault /\ Abandon("pigpio") /\ UNCHANGED air

\* wait_receive reads whatever has arrived into buf, and the loop of tx looks for
\* the ninth bit.  The first words set the deadline of the rest.
Read ==
  /\ pc = "read"
  /\ \/ /\ Fault /\ Abandon("pigpio")
        /\ UNCHANGED <<buf, fifo, air, zeroed>>
     \/ /\ fifo = <<>> /\ NoFault
        /\ pc' = "check"
        /\ UNCHANGED <<txVars, driverVars, fifo, air, zeroed, broken, result>>
     \/ /\ fifo # <<>>
        /\ LET n == IF Len(fifo) < Block THEN Len(fifo) ELSE Block
               got == SubSeq(fifo, 1, n)
               ends == {i \in 1..n : Ends(got[i])}
               first == CHOOSE i \in ends : \A j \in ends : i <= j
           IN /\ fifo' = SubSeq(fifo, n + 1, Len(fifo))
              /\ buf' = [i \in DOMAIN buf |->
                           IF i < n THEN NinthBit(got[i + 1]) ELSE buf[i]]
              /\ zeroed' = (zeroed /\ n = 1)
              /\ \/ /\ ~heard /\ Overflows(now, TIMEOUT_RECEIVE)
                    /\ Panic /\ NoFault /\ UNCHANGED air
                 \/ /\ heard \/ ~Overflows(now, TIMEOUT_RECEIVE)
                    /\ ends # {}
                    /\ Finish(response \o SubSeq(got, 1, first - 1), got[first])
                 \/ /\ heard \/ ~Overflows(now, TIMEOUT_RECEIVE)
                    /\ ends = {}
                    /\ heard' = TRUE
                    /\ response' = response \o got
                    /\ deadline' = IF heard THEN deadline
                                   ELSE Deadline(now, TIMEOUT_RECEIVE)
                    /\ elapsed' = IF heard THEN elapsed ELSE 0
                    /\ NoFault
                    /\ UNCHANGED <<pc, now, mdb, waves, req, sent, start, air, broken,
                                   result>>
  /\ UNCHANGED <<build, serial, txPin, owed, told, tidy>>

ExpiredSinceNow == tick_since(now, now) > deadline  \* mutant: as mdb_wave_send_wait
Expired == tick_since(0, now) > deadline

\* Nothing had arrived when it read; by now it may have.
Check ==
  /\ pc = "check"
  /\ NoFault
  /\ \/ /\ Expired
        /\ Abandon("recv timeout")
     \/ /\ ~Expired
        /\ \E d \in 1..MaxDelay : WaitOn(d)
        /\ pc' = "read"
        /\ UNCHANGED <<response, sent, start, deadline, heard, mdb, waves, req,
                       broken, result>>
  /\ UNCHANGED <<build, buf, busVars, tidy, zeroed>>

-----------------------------------------------------------------------------
(* External: the wire and the peripheral. *)

\* The wave at the head of the queue has left.  A peripheral that has heard a
\* request forgets what it still owed and answers or does not.
WaveLeaves ==
  /\ air # <<>>
  /\ air' = Tail(air)
  /\ IF air[1].wave = "request"
     THEN \E a \in Answers(air[1].of) : owed' = a /\ told' = a
     ELSE UNCHANGED <<owed, told>>
  /\ UNCHANGED <<build, pc, faults, txVars, driverVars, serial, fifo, txPin,
                 historyVars>>

WordArrives ==
  /\ owed # <<>>
  /\ owed' = Tail(owed)
  /\ fifo' = IF serial THEN Append(fifo, owed[1]) ELSE fifo
  /\ UNCHANGED <<build, pc, faults, txVars, driverVars, serial, air, txPin,
                 told, historyVars>>

-----------------------------------------------------------------------------
Init ==
  /\ build \in {"debug", "release"}
  /\ now = 0 /\ start = 0 /\ deadline = 0 /\ elapsed = 0
  /\ pc = "idle" /\ faults = 0
  /\ mdb = FALSE /\ waves = {} /\ buf = [i \in 0..(Block - 1) |-> 0]
  /\ serial = FALSE /\ fifo = <<>> /\ air = <<>> /\ txPin = 0
  /\ owed = <<>> /\ told = <<>>
  /\ req = NoReq /\ response = <<>> /\ sent = "request" /\ heard = FALSE
  /\ tidy = TRUE /\ zeroed = TRUE /\ broken = {} /\ result = NoResult

Command ==
  \/ \E valid \in BOOLEAN : ExecOpen(valid)
  \/ \E long \in BOOLEAN : ExecReset(long)
  \/ \E len \in 1..Block : ExecTx(len)

Serve == New \/ Break \/ SendWait \/ Read \/ Check

Next == Command \/ Serve \/ WaveLeaves \/ WordArrives

Spec == Init /\ [][Next]_vars
\* The server's loops run on, and a started wave ends; nothing makes the client
\* send a command or the peripheral speak.
FairSpec == Spec /\ WF_vars(Serve) /\ WF_vars(WaveLeaves)
================================================================================
