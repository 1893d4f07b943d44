-------------------------------- MODULE MegaLink -------------------------------
(*****************************************************************************)
(* The masters of the gate: the client (hardware/mega-client), whose Do      *)
(* writes a command, sleeps, and reads what there is, and whose goroutine    *)
(* run reads what there is on each rising edge of the pin, and a keyboard,   *)
(* which writes single bytes.  The client's transfers take turns (the mutex  *)
(* of hardware/i2c); the write and the read of one Do are two transfers.     *)
(*****************************************************************************)
EXTENDS TwiSlave, SequencesExt

CONSTANTS
  MaxRequests,  \* bound: calls of Do
  MaxOutside    \* bound: keys pressed and errors on the bus

ASSUME MegaAssumption ==
  MaxRequests \in Nat /\ MaxOutside \in Nat

VARIABLES
  bus,       \* [by, op, n, on]: the transfer, its bytes so far, the gate's part
  rs,        \* the bytes the reader has got, up to the length they begin with
  doPc, request, requests,
  runPc, runBuf,  \* the goroutine run; the packets in the buffer it keeps
  taken,     \* history: the numbers of the packets ParseResponse found
  outside    \* keys pressed and errors on the bus so far

clientVars == <<doPc, request, requests, runPc, runBuf, taken>>
busVars == <<bus, rs>>
vars == <<gateVars, clientVars, busVars, outside>>

Free == [by |-> "none", op |-> "none", n |-> 0, on |-> FALSE]
BusFree == bus = Free

--------------------------------------------------------------------------------
(* ParseResponse *)

\* Bytes 1..m of b are whole packets.  A torn packet is told by its CRC.
Whole(b, m) ==
  \A o \in 1..m :
    LET id == b[o][1]  first == o - b[o][2] IN
    /\ id # 0 /\ first >= 0 /\ first + made[id] <= m
    /\ \A j \in 1..made[id] : b[first + j] = <<id, j>>

\* The packets up to the first that is not whole.
Parsed(response) ==
  LET total == response[1][2]
      b == SubSeq(response, 2, Len(response))
      m == CHOOSE k \in 0..Len(b) :
             Whole(b, k) /\ \A l \in (k + 1)..Len(b) : ~Whole(b, l)
  IN  IF response = <<>> \/ Head(response)[1] # 0 \/ total = 0 THEN <<>>
      ELSE [i \in 1..Cardinality({o \in 1..m : b[o][2] = 1}) |->
              b[CHOOSE o \in 1..m :
                  b[o][2] = 1 /\ Cardinality({l \in 1..o : b[l][2] = 1}) = i][1]]

--------------------------------------------------------------------------------
(* Writing *)

Do(r) ==
  /\ doPc = "idle" /\ requests < MaxRequests
  /\ doPc' = "write" /\ request' = r /\ requests' = requests + 1
  /\ executed' = FALSE
  /\ UNCHANGED <<pc, master_out, due, pin, edges, made, sendVars, twi_idle, twi_in,
                 burst, mishaps, runPc, runBuf, taken, busVars, outside>>

Begins(who, op) ==
  /\ BusFree
  /\ bus' = [by |-> who, op |-> op, n |-> 0, on |-> TRUE]

WriteUntilHeard(who) ==          \* mutant: a write without an answer is tried again
  /\ \/ who = "do" /\ doPc = "write" /\ UNCHANGED outside
     \/ who = "key" /\ outside < MaxOutside /\ outside' = outside + 1
  /\ TWEA /\ Begins(who, "write") /\ SR_SLA_ACK
  /\ UNCHANGED <<rs, clientVars>>

\* An address nobody acknowledges is the end of the transfer.
StartWrite(who) ==
  /\ \/ who = "do" /\ doPc = "write" /\ UNCHANGED outside
     \/ who = "key" /\ outside < MaxOutside /\ outside' = outside + 1
  /\ \/ TWEA /\ Begins(who, "write") /\ SR_SLA_ACK /\ UNCHANGED doPc
     \/ /\ ~TWEA /\ BusFree
        /\ doPc' = IF who = "do" THEN "idle" ELSE doPc
        /\ UNCHANGED <<bus, gateVars>>
  /\ UNCHANGED <<rs, request, requests, runPc, runBuf, taken>>

Message == IF bus.by = "do" THEN Bytes(request, 3) ELSE Bytes("key", 1)

WriteByte ==
  /\ bus.op = "write" /\ bus.on /\ bus.n < Len(Message)
  /\ SR_DATA_ACK(Message[bus.n + 1])
  /\ bus' = [bus EXCEPT !.n = @ + 1]
  /\ UNCHANGED <<rs, clientVars, outside>>

\* After an error on the bus the rest of the message is not acknowledged; behind
\* the last byte the master need not have seen it.
WriteEnds ==
  /\ bus.op = "write"
  /\ \/ /\ bus.on /\ bus.n = Len(Message)
        /\ SR_STOP
        /\ doPc' = IF bus.by = "do" THEN "sleep" ELSE doPc
     \/ /\ ~bus.on
        /\ \/ doPc' = IF bus.by = "do" THEN "idle" ELSE doPc
           \/ /\ bus.by = "do" /\ bus.n = Len(Message)
              /\ doPc' = "sleep"
        /\ UNCHANGED gateVars
  /\ bus' = Free
  /\ request' = IF bus.by = "do" THEN "Config" ELSE request
  /\ UNCHANGED <<rs, requests, runPc, runBuf, taken, outside>>

\* 100 ms: the gate has looked at the command long before.
Wake ==
  /\ doPc = "sleep" /\ doPc' = "read"
  /\ twi_in = <<>> /\ ~InStep
  /\ UNCHANGED <<gateVars, request, requests, runPc, runBuf, taken,
                 busVars, outside>>

--------------------------------------------------------------------------------
(* Reading: always RESPONSE_MAX_LENGTH + 1 bytes *)

Wants(who) ==
  \/ who = "do" /\ doPc = "read"
  \/ who = "run" /\ runPc = "read"

\* The reader goes on with these packets.
Takes(who, packets) ==
  /\ taken' = taken \o packets
  /\ IF who = "do" THEN doPc' = "idle" /\ UNCHANGED <<runPc, runBuf>>
     ELSE runPc' = "watch" /\ runBuf' = packets /\ UNCHANGED doPc

StartRead(who) ==
  /\ Wants(who) /\ TWEA
  /\ Begins(who, "read") /\ ST_SLA_ACK
  /\ rs' = <<>>
  /\ UNCHANGED <<clientVars, outside>>

\* ReadBytesAt drops the error of a read that failed: Do parses a buffer of zeros,
\* run parses what is still in its buffer.
OldBuffer(who) == IF who = "do" THEN <<>> ELSE runBuf

ReadFails(who) ==
  /\ Wants(who) /\ ~TWEA /\ BusFree
  /\ Takes(who, OldBuffer(who))
  /\ UNCHANGED <<gateVars, request, requests, busVars, outside>>

LastByte == bus.n = RESPONSE_MAX_LENGTH

\* The reader acknowledges all bytes but its last.
ReadByte ==
  /\ bus.op = "read" /\ bus.on
  /\ rs' = IF rs = <<>> \/ Len(rs) <= rs[1][2] THEN Append(rs, TWDR) ELSE rs
  /\ \/ LastByte /\ ST_DATA_NACK
     \/ ~LastByte /\ TWEA /\ ST_DATA_ACK
     \/ ~LastByte /\ ~TWEA /\ ST_LAST_DATA
  /\ bus' = [bus EXCEPT !.n = @ + 1, !.on = TWEA /\ ~LastByte]
  /\ UNCHANGED <<clientVars, outside>>

\* An error on the bus, before the last byte.
Broken == bus.op = "read" /\ ~bus.on /\ ~TWEA /\ bus.n <= RESPONSE_MAX_LENGTH

\* The gate has let go of the line: the rest reads as 0xff, or the read fails if it
\* was an error that the master has seen.
ReadEnds ==
  /\ bus.op = "read" /\ ~bus.on
  /\ \/ Takes(bus.by, Parsed(rs))
     \/ Broken /\ Takes(bus.by, OldBuffer(bus.by))
  /\ bus' = Free /\ rs' = <<>>
  /\ UNCHANGED <<gateVars, request, requests, outside>>

--------------------------------------------------------------------------------
(* run; what the line brings *)

Notified ==
  /\ runPc = "watch" /\ edges > 0
  /\ edges' = edges - 1
  /\ runPc' = "read"
  /\ UNCHANGED <<pc, master_out, due, pin, made, executed, sendVars, twi_idle,
                 twi_in, burst, mishaps, doPc, request, requests, runBuf,
                 taken, busVars, outside>>

BusError ==
  /\ bus.on /\ outside < MaxOutside
  /\ BUS_ERROR
  /\ bus' = [bus EXCEPT !.on = FALSE]
  /\ outside' = outside + 1
  /\ UNCHANGED <<rs, clientVars>>

Gate == MainLoop /\ UNCHANGED <<clientVars, busVars, outside>>
Bus == WriteByte \/ WriteEnds \/ ReadByte \/ ReadEnds
DoTransfers == StartWrite("do") \/ StartRead("do") \/ ReadFails("do")
RunTransfers == StartRead("run") \/ ReadFails("run")

--------------------------------------------------------------------------------
Init ==
  /\ GateInit
  /\ bus = Free /\ rs = <<>>
  /\ doPc = "idle" /\ request = "Config" /\ requests = 0
  /\ runPc = "watch" /\ runBuf = <<>>
  /\ taken = <<>> /\ outside = 0

Next ==
  \/ Gate \/ Bus \/ DoTransfers \/ RunTransfers
  \/ \E r \in Requests : Do(r)
  \/ StartWrite("key") \/ Wake
  \/ Notified \/ BusError

Spec == Init /\ [][Next]_vars

\* The bus goes on; twi_step is finished, and begun when the bus is idle for the
\* length of a pass again and again; the mutex and the arbitration of the bus let
\* each transfer of Do begin in the end.
Fairness ==
  /\ WF_vars(Bus)
  /\ SF_vars((twi_idle \/ InStep) /\ Gate)
  /\ SF_vars(DoTransfers \/ Wake)

FairSpec == Spec /\ Fairness
================================================================================
