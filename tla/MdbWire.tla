-------------------------------- MODULE MdbWire --------------------------------
(*****************************************************************************)
(* What the firmware of the MDB gate runs on and talks to: the transmitter   *)
(* of the AVR's UART, the receive line, the overflow flag of timer 0 and the *)
(* MDB peripheral at the other end.  None of it is code of the repository;   *)
(* it is modelled from how mdb.c and main.c use the registers UDR0, UCSR0A,  *)
(* UCSR0B, TCNT0 and TIMSK0.                                                 *)
(*                                                                           *)
(* A frame has nine bits: a byte and the mark that ends a block.  An         *)
(* interrupt handler runs within microseconds, a frame takes 1.1 ms at 9600  *)
(* baud: a pending transmit interrupt is served before the frame on the line *)
(* ends, except by a stray frame, which may end at any moment.               *)
(*****************************************************************************)
EXTENDS Integers, Sequences

CONSTANTS
  Blocks,      \* what the peripheral may answer: sequences of bytes, each
               \* followed by its checksum; <<>> is silence
  Late,        \* may the peripheral answer after the firmware's timeout
  MaxNoise     \* bound: frames that nobody asked for

ASSUME WireAssumption ==
  Blocks \subseteq Seq(0..255) /\ Late \in BOOLEAN /\ MaxNoise \in Nat

None == "none"                       \* an empty transmit register
Sent == {"addr", "byte", "last", "ACK", "RET", "NAK"}

Frame == [byte : 0..255, last : BOOLEAN, broken : BOOLEAN, stray : BOOLEAN]

VARIABLES
  udr,      \* UDR0 on the transmit side
  shift,    \* the frame on its way out
  txc,      \* TXC0: all was sent; only the handler clears it
  txen,     \* TXEN0
  line,     \* frames that will arrive, the next one first
  told,     \* history: the block the peripheral answered the last command
  tov,      \* TOV0: timer 0 has overflowed; only the handler clears it
  noise,    \* frames of noise so far
  signals   \* history: which of ACK, RET and NAK the firmware has sent

lineVars == <<line, told, noise, signals>>
wireVars == <<udr, shift, txc, txen, tov, lineVars>>

WireInit ==
  /\ udr = None /\ shift = None /\ txc = FALSE /\ txen = TRUE
  /\ line = <<>> /\ told = <<>> /\ tov = FALSE /\ noise = 0
  /\ signals = {}

uart_send_ready == udr = None

\* UDR0 = f.  A byte written while the register is full is lost.
Transmit(f) ==
  IF shift = None /\ txen /\ uart_send_ready
    THEN shift' = f /\ UNCHANGED udr
    ELSE /\ udr' = IF uart_send_ready THEN f ELSE udr
         /\ UNCHANGED shift

\* UDR0 = f for an ACK, RET or NAK.
Signal(f) == Transmit(f) /\ signals' = signals \cup {f}

\* The block as frames: the last one carries the ninth bit.
Frames(block) ==
  [i \in 1..Len(block) |-> [byte |-> block[i], last |-> i = Len(block),
                            broken |-> FALSE, stray |-> FALSE]]

\* A frame has left.  The peripheral answers the end of a command, and says
\* the same again after RET.
FrameSent ==
  /\ shift # None
  /\ shift' = IF txen THEN udr ELSE None
  /\ udr' = IF txen THEN None ELSE udr
  /\ txc' = (txc \/ udr = None)
  /\ \/ shift = "last" /\ \E block \in Blocks :
          told' = block /\ line' = line \o Frames(block)
     \/ shift = "RET" /\ line' = line \o Frames(told) /\ UNCHANGED told
     \/ shift \notin {"last", "RET"} /\ UNCHANGED <<told, line>>
  /\ UNCHANGED <<txen, tov, noise, signals>>

\* The timer runs for 5.76 ms, longer than two frames take to leave.  It only
\* overflows when nothing is being sent; frames that come later are stray.
Overflow ==
  /\ ~tov
  /\ txen => (shift = None /\ udr = None)
  /\ Late \/ \A i \in DOMAIN line : line[i].stray
  /\ tov' = TRUE
  /\ line' = [i \in DOMAIN line |-> [line[i] EXCEPT !.stray = TRUE]]
  /\ UNCHANGED <<udr, shift, txc, txen, told, noise, signals>>

Noise ==
  /\ noise < MaxNoise
  /\ noise' = noise + 1
  /\ \E broken \in BOOLEAN :
       line' = Append(line, [byte |-> 1, last |-> FALSE, broken |-> broken,
                             stray |-> TRUE])
  /\ UNCHANGED <<udr, shift, txc, txen, told, tov, signals>>
================================================================================
