-------------------------------- MODULE TwiSlave -------------------------------
(*****************************************************************************)
(* The gate as a TWI slave (twi.c): the interrupt handler that moves the     *)
(* bytes of commands and answers, twi_step, which executes a command and     *)
(* hands collected answers over, and the notification pin (main.c).  The MDB *)
(* side, a module of its own, is here only what brings another answer later. *)
(*                                                                           *)
(* The main loop looks at twi_idle once and then works on the buffers; the   *)
(* handler may run in between.                                               *)
(*****************************************************************************)
EXTENDS Naturals, Sequences, FiniteSets

CONSTANTS
  RESPONSE_MAX_LENGTH,
  Hello,     \* length of the greeting
  Results,   \* lengths of the answers mdb_step may bring
  Burst      \* TWI interrupts during one twi_step: 130 us, a byte takes 90 us

ASSUME TwiAssumption ==
  /\ RESPONSE_MAX_LENGTH \in Nat /\ RESPONSE_MAX_LENGTH > 3
  /\ Hello \in 3..RESPONSE_MAX_LENGTH
  /\ Results \subseteq 3..RESPONSE_MAX_LENGTH
  /\ Burst \in Nat

VARIABLES
  pc,          \* of the main loop
  twi_idle, twi_in,
  master_out,  \* the bytes collected
  twi_out,     \* [data, used]: the bytes being read
  TWEA, TWDR,  \* acknowledge the next byte or address; the byte going out
  due,         \* an MDB transaction has still to be answered
  pin, edges,  \* the notification, and its rising edges not yet taken
  burst,       \* TWI interrupts since twi_step began, up to Burst
  made,        \* history: the lengths of the answers made, by number
  executed,    \* history: the newest command of the client has been executed
  mishaps      \* history: what can lose something

sendVars == <<twi_out, TWEA, TWDR>>
mainVars == <<pc, master_out, due, pin, edges, made, executed>>
gateVars == <<mainVars, sendVars, twi_idle, twi_in, burst, mishaps>>

\* Commands of three bytes: one answer, or one now and one later.
Requests == {"Config", "Transaction"}
Bytes(what, n) == [i \in 1..n |-> <<what, i>>]
\* A byte of no packet: the length of a response, or padding.
Plain(n) == <<0, n>>
EmptyOut == [data |-> <<>>, used |-> 0]

--------------------------------------------------------------------------------
(* Answers *)

SayUnbounded(n) ==               \* mutant: the size of the buffer is not looked at
  /\ made' = Append(made, n)
  /\ master_out' = master_out \o Bytes(Len(made) + 1, n)
  /\ UNCHANGED <<twi_out, mishaps>>

\* master_out_1, _2 and _n: a packet that finds no room is not made, and
\* Buffer_Overflow takes the place of what the master was about to read.  used
\* is left as it is.
Say(n) ==
  IF Len(master_out) + n <= RESPONSE_MAX_LENGTH
    THEN /\ made' = Append(made, n)
         /\ master_out' = master_out \o Bytes(Len(made) + 1, n)
         /\ UNCHANGED <<twi_out, mishaps>>
    ELSE /\ made' = Append(made, 4)
         /\ twi_out' = [twi_out EXCEPT !.data = Bytes(Len(made) + 1, 4)]
         /\ mishaps' = mishaps \cup {"overflow"}
         /\ UNCHANGED master_out

--------------------------------------------------------------------------------
(* The main loop *)

InStep == pc \in {"command", "clear", "swap"}

LookAnyway ==                    \* mutant: twi_step during transfers
  /\ pc = "pass"
  /\ pc' = "command"
  /\ UNCHANGED <<master_out, due, pin, edges, made, executed, sendVars, twi_idle,
                 twi_in, burst, mishaps>>

\* twi_step; it is left out while a transfer is on.
LookAtIdle ==
  /\ pc = "pass" /\ twi_idle
  /\ pc' = "command"
  /\ UNCHANGED <<master_out, due, pin, edges, made, executed, sendVars, twi_idle,
                 twi_in, burst, mishaps>>

ReadOut == twi_out.used >= Len(twi_out.data)

HandoverAlways ==                \* mutant: used is not compared with length
  IF master_out # <<>> THEN "swap" ELSE "mdb"

\* The test at the end of twi_step.
Handover == IF ReadOut /\ master_out # <<>> THEN "swap" ELSE "mdb"

NoCommand ==
  /\ pc = "command" /\ twi_in = <<>>
  /\ pc' = Handover
  /\ UNCHANGED <<master_out, due, pin, edges, made, executed, sendVars, twi_idle,
                 twi_in, burst, mishaps>>

\* master_command: Transaction is answered MDB_Started or MDB_Busy.
Answered(r) ==
  \/ r = "Config" /\ Say(3) /\ UNCHANGED due
  \/ r = "Transaction" /\ Say(3) /\ due' = TRUE

\* One byte is a key of the keyboard; what is left of a torn command is a
\* Bad_Packet, or looks like a key.
Command ==
  /\ pc = "command" /\ twi_in # <<>>
  /\ \/ \E r \in Requests :
          twi_in = Bytes(r, 3) /\ executed' = TRUE /\ Answered(r)
     \/ /\ \A r \in Requests : twi_in # Bytes(r, 3)
        /\ Say(4)
        /\ UNCHANGED <<executed, due>>
  /\ pc' = "clear"
  /\ UNCHANGED <<edges, pin, TWEA, TWDR, twi_idle, twi_in, burst>>

Clear ==
  /\ pc = "clear"
  /\ twi_in' = <<>>
  /\ pc' = Handover
  /\ UNCHANGED <<master_out, due, pin, edges, made, executed, sendVars, twi_idle,
                 burst, mishaps>>

SwapKeeps ==                     \* mutant: master_out is copied, not swapped
  /\ pc = "swap"
  /\ twi_out' = [data |-> master_out, used |-> 0]
  /\ pc' = "mdb"
  /\ UNCHANGED <<master_out, due, pin, edges, made, executed, TWEA, TWDR, twi_idle,
                 twi_in, burst, mishaps>>

\* Buffer_Swap with what follows it.
Swap ==
  /\ pc = "swap"
  /\ twi_out' = [data |-> master_out, used |-> 0]
  /\ master_out' = <<>>
  /\ pc' = "mdb"
  /\ UNCHANGED <<due, pin, edges, made, executed, TWEA, TWDR, twi_idle, twi_in,
                 burst, mishaps>>

\* mdb_step, whether the TWI is idle or not, and master_notify_set.
MdbStep ==
  /\ pc = "mdb" \/ (pc = "pass" /\ ~twi_idle)
  /\ \/ due /\ due' = FALSE /\ \E n \in Results : Say(n)
     \/ UNCHANGED <<due, made, master_out, twi_out, mishaps>>
  /\ pin' = (~twi_idle \/ ~ReadOut' \/ master_out' # <<>>)
  /\ edges' = IF pin' /\ ~pin THEN edges + 1 ELSE edges
  /\ pc' = "pass"
  /\ burst' = 0
  /\ UNCHANGED <<executed, TWEA, TWDR, twi_idle, twi_in>>

MainLoop ==
  \/ LookAtIdle \/ NoCommand \/ Command \/ Clear \/ Swap \/ MdbStep

--------------------------------------------------------------------------------
(* The interrupt handler, by status; between transfers TWDR is of no use *)

Interrupt ==
  /\ InStep => burst < Burst
  /\ burst' = IF InStep THEN burst + 1 ELSE burst
  /\ UNCHANGED mainVars

SR_SLA_ACK ==
  /\ Interrupt
  /\ twi_idle' = FALSE /\ twi_in' = <<>> /\ TWEA' = TRUE
  /\ mishaps' = mishaps \cup {m \in {"overwritten", "write in twi_step"} :
                               \/ m = "overwritten" /\ twi_in # <<>>
                               \/ /\ m = "write in twi_step"
                                  /\ pc \in {"command", "clear"}}
  /\ UNCHANGED <<twi_out, TWDR>>

SR_DATA_ACK(b) ==
  /\ Interrupt
  /\ twi_in' = Append(twi_in, b) /\ TWEA' = TRUE
  /\ UNCHANGED <<twi_idle, twi_out, TWDR, mishaps>>

StopStaysBusy ==                 \* mutant: twi_idle is not set at a stop
  /\ Interrupt
  /\ TWEA' = TRUE
  /\ UNCHANGED <<twi_idle, twi_in, twi_out, TWDR, mishaps>>

SR_STOP ==
  /\ Interrupt
  /\ twi_idle' = TRUE /\ TWEA' = TRUE
  /\ UNCHANGED <<twi_in, twi_out, TWDR, mishaps>>

ST_SLA_ACK ==
  /\ Interrupt
  /\ twi_idle' = FALSE
  /\ TWDR' = Plain(Len(twi_out.data))
  /\ TWEA' = (twi_out.data # <<>>)
  /\ twi_out' = [twi_out EXCEPT !.used = 0]
  /\ mishaps' = mishaps \cup (IF InStep THEN {"read in twi_step"} ELSE {})
  /\ UNCHANGED twi_in

ST_DATA_ACK ==
  /\ Interrupt
  /\ twi_idle' = FALSE
  /\ TWEA' = ~ReadOut
  /\ IF ReadOut THEN TWDR' = Plain(0) /\ UNCHANGED twi_out
     ELSE /\ TWDR' = twi_out.data[twi_out.used + 1]
          /\ twi_out' = [twi_out EXCEPT !.used = @ + 1]
  /\ UNCHANGED <<twi_in, mishaps>>

LastByteDeafens ==               \* mutant: no ack = true after the last byte
  /\ Interrupt
  /\ twi_idle' = TRUE /\ twi_out' = EmptyOut /\ TWEA' = FALSE
  /\ TWDR' = Plain(0)
  /\ UNCHANGED <<twi_in, mishaps>>

ST_LAST_DATA ==
  /\ Interrupt
  /\ twi_idle' = TRUE /\ twi_out' = EmptyOut /\ TWEA' = TRUE
  /\ TWDR' = Plain(0)
  /\ UNCHANGED <<twi_in, mishaps>>

\* TWEA stays off: the gate does not know its address any more.
ST_DATA_NACK ==
  /\ Interrupt
  /\ twi_idle' = TRUE /\ TWEA' = FALSE
  /\ twi_out' = [twi_out EXCEPT !.used = 0]
  /\ TWDR' = Plain(0)
  /\ UNCHANGED <<twi_in, mishaps>>

BUS_ERROR ==
  /\ Interrupt
  /\ twi_in' = <<>> /\ twi_out' = EmptyOut /\ TWEA' = FALSE
  /\ mishaps' = mishaps \cup {"bus error"}
  /\ TWDR' = Plain(0)
  /\ UNCHANGED twi_idle

\* twi_init_slave and the greeting.
GateInit ==
  /\ pc = "pass" /\ twi_idle = TRUE /\ twi_in = <<>>
  /\ made = <<Hello>> /\ master_out = Bytes(1, Hello)
  /\ twi_out = EmptyOut /\ TWEA = TRUE /\ TWDR = Plain(0)
  /\ due = FALSE /\ pin = FALSE /\ edges = 0 /\ burst = 0
  /\ executed = FALSE /\ mishaps = {}
================================================================================
