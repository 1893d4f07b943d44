-------------------------------- MODULE MdbGate --------------------------------
(*****************************************************************************)
(* The firmware hardware/i2c-mdb-atmega-gate as an MDB master: the main loop *)
(* (main.c) takes a command that arrived over TWI and runs mdb_step; four    *)
(* interrupt handlers (mdb.c, main.c) move the bytes and watch the time.     *)
(* They share the state with the main loop without any lock, so the main     *)
(* loop is cut wherever a handler can change what it does next.              *)
(*                                                                           *)
(* The TWI slave is reduced to whole transfers: a command arrives, twi_out   *)
(* is read to its end.  The buffers of answers are counted in packets.       *)
(*****************************************************************************)
EXTENDS MdbWire, SequencesExt

CONSTANTS
  Commands,     \* what the master may ask for: a set of Command
  Packets,      \* what it sends in one transfer: sequences of Commands
  MaxPackets,   \* bound: packets sent
  MaxAnswers,   \* RESPONSE_MAX_LENGTH, in answers
  PacketSize    \* MDB_PACKET_SIZE

MDB_ACK == 0
MDB_NAK == 255

States == {"Idle", "Error", "Send", "Recv", "Recv_End", "Bus_Reset"}
Errors == {"MDB_Timeout", "MDB_Receive_Overflow", "MDB_Send_Overflow",
           "UART_Read_Unexpected", "UART_Read_Error"}
Finals == Errors \cup {"MDB_Success", "MDB_NAK", "MDB_Invalid_End",
                       "MDB_Invalid_CHK", "UART_Send_Busy"}

\* length: the data bytes of MDB_Transaction_Simple.  "Other" stands for the
\* commands and broken packets that are answered without touching MDB; a Poll
\* is not answered.
Command == [kind : {"Transaction", "Bus_Reset", "Reset", "Poll", "Other"},
            length : Nat]

Packet == [header : Finals \cup {"Debug", "Other", "MDB_Busy", "MDB_Started",
                                 "Buffer_Overflow"},
           data : Seq(0..255)]

ASSUME GateAssumption ==
  /\ Commands \subseteq Command
  /\ Packets \subseteq Seq(Commands)
  /\ MaxPackets \in Nat
  /\ MaxAnswers \in Nat \ {0}
  /\ PacketSize \in Nat \ {0}

VARIABLES
  pc,                   \* where the main loop is
  twi_in,               \* the commands that have arrived and are not yet taken
  packets,              \* packets sent so far
  master_out, twi_out,  \* answers: to be handed over, being read by the master
  said,                 \* history: the newest answer
  owed,                 \* history: transactions started and not yet answered,
                        \* not counted beyond 2 or below -1
  mdb_state, mdb_state_retry,
  mdb_fast_error_code,  \* None or an element of Errors
  mdb_in, mdb_in_last_byte,
  mdb_out,              \* [used, length]
  timer,                \* timer 0 counts and may interrupt
  udrie, txcie,         \* transmit interrupts enabled
  cut                   \* history: the last break of the bus was left while
                        \* the line was held down

hostVars == <<twi_in, packets>>
answerVars == <<master_out, twi_out, said, owed>>
mainVars == <<pc, hostVars, answerVars>>
stateVars == <<mdb_state, mdb_state_retry>>
inVars == <<mdb_in, mdb_in_last_byte>>
txVars == <<udrie, txcie, cut>>
mdbVars == <<stateVars, mdb_fast_error_code, inVars, mdb_out, timer, txVars>>
vars == <<mainVars, mdbVars, wireVars>>

Answer(header) == [header |-> header, data |-> <<>>]
EmptyOut == [used |-> 0, length |-> 0]

Init ==
  /\ pc = "twi" /\ twi_in = <<>> /\ packets = 0
  /\ master_out = <<Answer("Debug")>> /\ twi_out = <<>>
  /\ said = Answer("Debug") /\ owed = 0
  /\ mdb_state = "Idle" /\ mdb_state_retry = FALSE
  /\ mdb_fast_error_code = None
  /\ mdb_in = <<>> /\ mdb_in_last_byte = 0 /\ mdb_out = EmptyOut
  /\ timer = FALSE /\ udrie = FALSE /\ txcie = FALSE /\ cut = FALSE
  /\ WireInit

\* A packet that finds no room is lost, and with it what the master was about
\* to read.
master_out_n(packet) ==
  /\ IF Len(master_out) < MaxAnswers
       THEN master_out' = Append(master_out, packet) /\ UNCHANGED twi_out
       ELSE twi_out' = <<Answer("Buffer_Overflow")>> /\ UNCHANGED master_out
  /\ said' = packet
  /\ owed' = CASE packet.header = "MDB_Started" /\ owed < 2 -> owed + 1
               [] packet.header \in Finals /\ owed > -1 -> owed - 1
               [] OTHER -> owed

timer0_set == timer' = TRUE
timer0_stop == timer' = FALSE

\* mdb_reset that forgets the error.
ErrorKept ==
  /\ timer0_stop /\ UNCHANGED mdb_fast_error_code
  /\ mdb_in' = <<>> /\ mdb_in_last_byte' = 0 /\ mdb_out' = EmptyOut

\* mdb_reset without its last two assignments.
MdbReset ==
  /\ timer0_stop
  /\ mdb_fast_error_code' = None
  /\ mdb_in' = <<>> /\ mdb_in_last_byte' = 0 /\ mdb_out' = EmptyOut

\* An error without a code.
ErrorUnnamed(code) == mdb_state' = "Error" /\ UNCHANGED mdb_fast_error_code

mdb_fast_error(code) == mdb_state' = "Error" /\ mdb_fast_error_code' = code

\* The sum of bytes in a uint8_t.
memsum(src) == FoldLeft(LAMBDA sum, b : (sum + b) % 256, 0, src)

mdb_in_checksum == memsum(mdb_in)

\* Waiting without a timer.
ReceiveUntimed == mdb_in' = <<>> /\ mdb_in_last_byte' = 0 /\ timer0_stop

mdb_start_receive == mdb_in' = <<>> /\ mdb_in_last_byte' = 0 /\ timer0_set

\* Buffer_Append without its bound.
LoadedUnbounded(n) == n + 1

\* What Buffer_AppendN and Buffer_Append leave in mdb_out: a request that does
\* not fit is dropped, and so is a checksum that does not.
Loaded(n) ==
  LET data == IF n > PacketSize THEN 0 ELSE n
  IN  IF data + 1 > PacketSize THEN data ELSE data + 1

--------------------------------------------------------------------------------
(* The master *)

\* A packet is complete in twi_in and the TWI is idle again.  One that arrives
\* while the loop over the last is at work is the matter of TwiSlave.
MasterSends ==
  /\ twi_in = <<>> /\ packets < MaxPackets
  /\ pc \in {"twi", "swap", "mdb", "reset", "idle"}
  /\ twi_in' \in Packets
  /\ packets' = packets + 1
  /\ UNCHANGED <<pc, answerVars, mdbVars, wireVars>>

MasterReads ==
  /\ twi_out # <<>>
  /\ twi_out' = <<>>
  /\ UNCHANGED <<pc, hostVars, master_out, said, owed, mdbVars, wireVars>>

--------------------------------------------------------------------------------
(* The main loop: twi_step with master_command, then mdb_step *)

SendOverflow == mdb_out.used >= mdb_out.length

Raised == (timer /\ tov) \/ (txcie /\ txc) \/ (udrie /\ uart_send_ready)

OverflowKnown ==
  /\ udrie /\ SendOverflow /\ ~timer /\ ~(txcie /\ txc)
  /\ mdb_state = "Error" /\ mdb_fast_error_code = "MDB_Send_Overflow"

\* A handler runs as soon as its flag is set, and the main loop gets an
\* instruction in between: it goes on when no handler has anything to change.
At(label) == pc = label /\ (Raised => OverflowKnown)

\* twi_step is left out while a transfer is on (twi_idle).
TwiBusy ==
  /\ At("twi")
  /\ pc' = "mdb"
  /\ UNCHANGED <<hostVars, answerVars, mdbVars, wireVars>>

NoCommand ==
  /\ At("twi") /\ twi_in = <<>>
  /\ pc' = "swap"
  /\ UNCHANGED <<hostVars, answerVars, mdbVars, wireVars>>

\* Command_Reset: the watchdog restarts the firmware; the line lives on.
Reset ==
  /\ mdb_state' = "Idle" /\ mdb_state_retry' = FALSE
  /\ mdb_fast_error_code' = None
  /\ mdb_in' = <<>> /\ mdb_in_last_byte' = 0 /\ mdb_out' = EmptyOut
  /\ timer0_stop /\ udrie' = FALSE /\ txcie' = FALSE /\ cut' = FALSE
  /\ udr' = None /\ shift' = None /\ txc' = FALSE /\ txen' = TRUE /\ tov' = FALSE
  /\ master_out' = <<Answer("Debug")>> /\ twi_out' = <<>>
  /\ said' = Answer("Debug") /\ owed' = 0
  /\ twi_in' = <<>>
  /\ pc' = "twi"
  /\ UNCHANGED lineVars

\* The loop over the commands of a packet goes on, or is at its end.
NextCommand(rest) == pc' = IF rest = <<>> THEN "swap" ELSE "commands"

\* master_command; of an MDB command up to where it has found MDB idle.
TakeCommand ==
  /\ At("twi") \/ At("commands")
  /\ twi_in # <<>> /\ UNCHANGED packets
  /\ LET kind == Head(twi_in).kind IN
     \/ kind = "Reset" /\ Reset
     \/ /\ twi_in' = Tail(twi_in) /\ NextCommand(twi_in')
        /\ \/ kind = "Poll" /\ UNCHANGED answerVars
           \/ kind = "Other" /\ master_out_n(Answer("Other"))
           \/ /\ kind \in {"Transaction", "Bus_Reset"} /\ mdb_state # "Idle"
              /\ master_out_n(Answer("MDB_Busy"))
        /\ UNCHANGED <<mdbVars, wireVars>>
     \/ /\ kind = "Bus_Reset" /\ mdb_state = "Idle"
        /\ twi_in' = Tail(twi_in)
        /\ pc' = "break"
        /\ UNCHANGED <<answerVars, mdbVars, wireVars>>
     \/ /\ kind = "Transaction" /\ mdb_state = "Idle"
        /\ twi_in' = Tail(twi_in)
        /\ mdb_out' = [used |-> 0, length |-> Loaded(Head(twi_in).length)]
        /\ pc' = "load"
        /\ UNCHANGED <<answerVars, stateVars, mdb_fast_error_code, inVars,
                       timer, txVars, wireVars>>

BreakBegins ==
  /\ At("break")
  /\ mdb_state' = "Bus_Reset" /\ txen' = FALSE /\ cut' = FALSE
  /\ pc' = "break timer"
  /\ UNCHANGED <<hostVars, answerVars, mdb_state_retry, mdb_fast_error_code,
                 inVars, mdb_out, timer, udrie, txcie, udr, shift, txc,
                 lineVars, tov>>

\* A break that nobody ends.
BreakUntimed ==
  /\ At("break timer") /\ pc' = "started"
  /\ UNCHANGED <<hostVars, answerVars, mdbVars, wireVars>>

BreakTimer ==
  /\ At("break timer")
  /\ timer0_set
  /\ pc' = "started"
  /\ UNCHANGED <<hostVars, answerVars, stateVars, mdb_fast_error_code, inVars,
                 mdb_out, txVars, wireVars>>

\* mdb_start_send gives up while the transmit register is full;
\* master_command says MDB_Started all the same.
SendBusy ==
  /\ At("load") /\ ~uart_send_ready
  /\ master_out_n(Answer("UART_Send_Busy"))
  /\ MdbReset /\ mdb_state' = "Idle" /\ mdb_state_retry' = FALSE
  /\ pc' = "started"
  /\ UNCHANGED <<hostVars, txVars, wireVars>>

SendTimer ==
  /\ At("load") /\ uart_send_ready
  /\ timer0_set
  /\ pc' = "send"
  /\ UNCHANGED <<hostVars, answerVars, stateVars, mdb_fast_error_code, inVars,
                 mdb_out, txVars, wireVars>>

SendFirst ==
  /\ At("send")
  /\ mdb_state' = "Send" /\ mdb_state_retry' = FALSE
  /\ Transmit("addr")
  /\ mdb_out' = [mdb_out EXCEPT !.used = 1]
  /\ udrie' = TRUE
  /\ pc' = "started"
  /\ UNCHANGED <<hostVars, answerVars, mdb_fast_error_code, inVars, timer,
                 txcie, cut, txc, txen, lineVars, tov>>

Started ==
  /\ At("started")
  /\ master_out_n(Answer("MDB_Started"))
  /\ NextCommand(twi_in)
  /\ UNCHANGED <<hostVars, mdbVars, wireVars>>

\* The end of twi_step: new answers for the master when it has read the last.
Swap ==
  /\ At("swap")
  /\ IF twi_out = <<>>
       THEN twi_out' = master_out /\ master_out' = <<>>
       ELSE UNCHANGED <<master_out, twi_out>>
  /\ pc' = "mdb"
  /\ UNCHANGED <<hostVars, said, owed, mdbVars, wireVars>>

\* mdb_finish_*: answer now, mdb_reset in the next two steps.
Finish(packet) == master_out_n(packet) /\ pc' = "reset"

\* mdb_step finds nothing to do: no error, no end of an answer.
NothingToDo ==
  /\ At("mdb")
  /\ \/ mdb_state = "Idle"
     \/ mdb_fast_error_code = None /\ mdb_state # "Recv_End"
  /\ pc' = "twi"
  /\ UNCHANGED <<hostVars, answerVars, mdbVars, wireVars>>

ReportError ==
  /\ At("mdb") /\ mdb_state # "Idle"
  /\ mdb_fast_error_code # None
  /\ Finish(Answer(mdb_fast_error_code))
  /\ UNCHANGED <<hostVars, mdbVars, wireVars>>

Received == At("mdb") /\ mdb_fast_error_code = None /\ mdb_state = "Recv_End"

\* A block of one byte.
ReportStatus ==
  /\ Received /\ mdb_in = <<>>
  /\ Finish(Answer(CASE mdb_in_last_byte = MDB_ACK -> "MDB_Success"
                     [] mdb_in_last_byte = MDB_NAK -> "MDB_NAK"
                     [] OTHER -> "MDB_Invalid_End"))
  /\ UNCHANGED <<hostVars, mdbVars, wireVars>>

\* A checksum that nobody looks at.
DataUnchecked ==
  /\ Received /\ mdb_in # <<>>
  /\ Signal("ACK")
  /\ Finish([header |-> "MDB_Success", data |-> mdb_in])
  /\ UNCHANGED <<hostVars, mdbVars, txc, txen, line, told, noise, tov>>

ReportData ==
  /\ Received /\ mdb_in # <<>> /\ mdb_in_last_byte = mdb_in_checksum
  /\ Signal("ACK")
  /\ Finish([header |-> "MDB_Success", data |-> mdb_in])
  /\ UNCHANGED <<hostVars, mdbVars, txc, txen, line, told, noise, tov>>

\* A wrong checksum: ask again, once.  RET leaves mdb_state at Recv_End.
BadChecksum ==
  /\ Received /\ mdb_in # <<>> /\ mdb_in_last_byte # mdb_in_checksum
  /\ IF mdb_state_retry
       THEN /\ Signal("NAK") /\ Finish(Answer("MDB_Invalid_CHK"))
            /\ UNCHANGED <<mdb_state_retry, inVars, timer>>
       ELSE /\ Signal("RET") /\ mdb_state_retry' = TRUE
            /\ mdb_start_receive
            /\ pc' = "twi"
            /\ UNCHANGED answerVars
  /\ UNCHANGED <<hostVars, mdb_state, mdb_fast_error_code, mdb_out, txVars, txc,
                 txen, line, told, noise, tov>>

\* History: does this step leave a break that the timer has not ended.
NotesCut ==
  cut' = (cut \/ (mdb_state = "Bus_Reset" /\ ~txen /\ mdb_state' # "Bus_Reset"))

\* mdb_reset up to, and from, the assignment of mdb_state: an error that an
\* interrupt reports in between keeps its code and loses its state.
ResetBegins ==
  /\ At("reset")
  /\ MdbReset
  /\ pc' = "idle"
  /\ UNCHANGED <<hostVars, answerVars, stateVars, txVars, wireVars>>

\* mdb_reset that leaves the state.
StateKept ==
  /\ At("idle") /\ pc' = "twi" /\ mdb_state_retry' = FALSE
  /\ UNCHANGED <<hostVars, answerVars, mdb_state, mdb_fast_error_code, inVars,
                 mdb_out, timer, txVars, wireVars>>

ResetEnds ==
  /\ At("idle")
  /\ mdb_state' = "Idle" /\ mdb_state_retry' = FALSE
  /\ NotesCut
  /\ pc' = "twi"
  /\ UNCHANGED <<hostVars, answerVars, mdb_fast_error_code, inVars, mdb_out,
                 timer, udrie, txcie, wireVars>>

--------------------------------------------------------------------------------
(* The interrupt handlers *)

TIMER0_OVF ==
  /\ timer /\ tov
  /\ tov' = FALSE
  /\ timer0_stop
  /\ \/ mdb_state = "Idle" /\ UNCHANGED <<mdb_state, mdb_fast_error_code, txen>>
     \/ /\ mdb_state = "Bus_Reset"
        /\ txen' = TRUE
        /\ UNCHANGED <<mdb_state, mdb_fast_error_code>>
     \/ /\ mdb_state \notin {"Idle", "Bus_Reset"}
        /\ mdb_fast_error("MDB_Timeout")
        /\ UNCHANGED txen
  /\ UNCHANGED <<mainVars, mdb_state_retry, inVars, mdb_out, txVars, udr, shift,
                 txc, lineVars>>

\* The frame goes where the state allows it.
Accept(f) ==
  \/ /\ f.broken
     /\ mdb_fast_error("UART_Read_Error") /\ timer0_stop
     /\ UNCHANGED inVars
  \/ /\ ~f.broken /\ mdb_state # "Recv"
     /\ mdb_fast_error("UART_Read_Unexpected") /\ timer0_stop
     /\ UNCHANGED inVars
  \/ /\ ~f.broken /\ mdb_state = "Recv" /\ f.last
     /\ mdb_in_last_byte' = f.byte /\ mdb_state' = "Recv_End" /\ timer0_stop
     /\ UNCHANGED <<mdb_fast_error_code, mdb_in>>
  \/ /\ ~f.broken /\ mdb_state = "Recv" /\ ~f.last
     /\ Len(mdb_in) < PacketSize
     /\ mdb_in' = Append(mdb_in, f.byte) /\ timer0_set
     /\ UNCHANGED <<mdb_state, mdb_fast_error_code, mdb_in_last_byte>>
  \/ /\ ~f.broken /\ mdb_state = "Recv" /\ ~f.last
     /\ Len(mdb_in) = PacketSize
     /\ mdb_fast_error("MDB_Receive_Overflow") /\ timer0_stop
     /\ UNCHANGED inVars

\* A pass of the main loop is shorter than a frame: it has dealt with the frame
\* before, and the handler of the transmitter has run, when the next arrives.
CaughtUp ==
  /\ ~(txcie /\ txc)
  /\ pc \notin {"reset", "idle"}
  /\ mdb_fast_error_code = None /\ mdb_state # "Recv_End"

USART_RX ==
  /\ line # <<>>
  /\ CaughtUp \/ Head(line).stray
  /\ Accept(Head(line))
  /\ line' = Tail(line)
  /\ NotesCut
  /\ UNCHANGED <<mainVars, mdb_state_retry, mdb_out, udrie, txcie, udr, shift,
                 txc, txen, told, tov, noise, signals>>

USART_UDRE ==
  /\ udrie /\ uart_send_ready
  /\ \/ /\ SendOverflow
        /\ mdb_fast_error("MDB_Send_Overflow") /\ timer0_stop
        /\ UNCHANGED <<mdb_out, udrie, txcie, udr, shift>>
     \/ /\ ~SendOverflow
        /\ mdb_out' = [mdb_out EXCEPT !.used = @ + 1]
        /\ LET isLast == mdb_out.used + 1 = mdb_out.length IN
           /\ Transmit(IF isLast THEN "last" ELSE "byte")
           /\ udrie' = ~isLast
           /\ txcie' = (txcie \/ isLast)
        /\ timer0_set
        /\ UNCHANGED <<mdb_state, mdb_fast_error_code>>
  /\ NotesCut
  /\ UNCHANGED <<mainVars, mdb_state_retry, inVars, txc, txen, lineVars, tov>>

USART_TX ==
  /\ txcie /\ txc
  /\ txc' = FALSE /\ txcie' = FALSE
  /\ mdb_start_receive
  /\ mdb_state' = "Recv"
  /\ NotesCut
  /\ UNCHANGED <<mainVars, mdb_state_retry, mdb_fast_error_code, mdb_out, udrie,
                 udr, shift, txen, lineVars, tov>>

Interrupt == TIMER0_OVF \/ USART_RX \/ USART_UDRE \/ USART_TX

--------------------------------------------------------------------------------
MainLoop ==
  \/ TwiBusy \/ NoCommand \/ TakeCommand \/ Swap
  \/ BreakBegins \/ BreakTimer \/ SendBusy \/ SendTimer \/ SendFirst \/ Started
  \/ NothingToDo \/ ReportError \/ ReportStatus \/ ReportData \/ BadChecksum
  \/ ResetBegins \/ ResetEnds

\* Milliseconds pass: transmit interrupts are served by then, and the main
\* loop has come round to its pause since it set the timer.
ShiftsOut ==
  /\ FrameSent
  /\ ~(udrie /\ uart_send_ready)
  /\ UNCHANGED <<mainVars, mdbVars>>

TimeIsUp ==
  /\ timer /\ pc = "twi" /\ ~Raised
  /\ Overflow
  /\ UNCHANGED <<mainVars, mdbVars>>

Disturbed == Noise /\ UNCHANGED <<mainVars, mdbVars>>

Outside == ShiftsOut \/ TimeIsUp \/ Disturbed

Next == MasterSends \/ MasterReads \/ MainLoop \/ Interrupt \/ Outside

Spec == Init /\ [][Next]_vars

\* The main loop runs forever, handlers are not held off, and the hardware
\* goes on.  Nothing is promised of the master and of noise.
Fairness ==
  /\ WF_vars(MainLoop)
  /\ WF_vars(Interrupt)
  /\ WF_vars(ShiftsOut) /\ SF_vars(TimeIsUp)

FairSpec == Spec /\ Fairness
================================================================================
