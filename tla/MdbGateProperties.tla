--------------------------- MODULE MdbGateProperties ---------------------------
(* What the MDB gate promises its master. *)
EXTENDS MdbGate

\* The variables have their types; the buffers of mdb.c and twi.c stay within
\* their storage, whatever length the master asks for.
GateTypeOK ==
  /\ pc \in {"twi", "break", "break timer", "load", "send", "started",
             "commands", "swap", "mdb", "reset", "idle"}
  /\ twi_in \in Seq(Commands) /\ packets \in 0..MaxPackets
  /\ master_out \in Seq(Packet) /\ Len(master_out) <= MaxAnswers
  /\ twi_out \in Seq(Packet) /\ Len(twi_out) <= MaxAnswers
  /\ said \in Packet /\ owed \in -1..2
  /\ mdb_state \in States /\ mdb_state_retry \in BOOLEAN
  /\ mdb_fast_error_code \in Errors \cup {None}
  /\ mdb_in \in Seq(0..255) /\ Len(mdb_in) <= PacketSize
  /\ mdb_in_last_byte \in 0..255
  /\ mdb_out \in [used : 0..PacketSize, length : 0..PacketSize]
  /\ timer \in BOOLEAN /\ udrie \in BOOLEAN /\ txcie \in BOOLEAN
  /\ cut \in BOOLEAN /\ signals \subseteq {"ACK", "RET", "NAK"}
  /\ udr \in Sent \cup {None} /\ shift \in Sent \cup {None}
  /\ txc \in BOOLEAN /\ txen \in BOOLEAN /\ tov \in BOOLEAN
  /\ line \in Seq(Frame) /\ told \in Seq(0..255) /\ noise \in 0..MaxNoise

\* The gate has asked for an answer again (mdb.c:153).
Repeats == "RET" \in signals

\* MDB_Started and the answer of that transaction take turns: none is answered
\* twice or before it was started, and none is forgotten when the gate rests
\* (master_command, mdb_step), as long as the gate has not sent RET.
AnswersTakeTurns ==
  ~Repeats =>
    /\ owed \in {0, 1}
    /\ (mdb_state = "Idle" /\ pc = "twi") => owed = 0

\* When the gate rests, and has not sent RET, of the last transaction there is
\* left: no interrupt enabled or due, no error, nothing received, nothing on the
\* line or to be sent but an ACK on its way; and TXC0 only behind an ACK, which
\* waits for it with its interrupt off (mdb_reset, the handlers that disable
\* themselves, mdb.c:162).  That TXC0 is what the next transaction meets.
RestIsClean ==
  (mdb_state = "Idle" /\ pc = "twi" /\ ~Repeats) =>
    /\ ~udrie /\ ~txcie /\ ~timer /\ ~tov
    /\ mdb_fast_error_code = None /\ mdb_in = <<>> /\ ~mdb_state_retry
    /\ line = <<>> /\ udr = None /\ shift \in {None, "ACK"} /\ txen
    /\ txc => "ACK" \in signals

\* What is reported is what the peripheral answered to this command: its data
\* when the checksum is right, nothing when it is an ACK.
TellsTheAnswer ==
  /\ told # <<>>
  /\ said.data = Front(told)
  /\ Last(told) = IF Len(told) = 1 THEN MDB_ACK ELSE memsum(Front(told))

ReportsSuccess == pc = "reset" /\ said.header = "MDB_Success"

\* MDB_Success tells the master what the peripheral answered to this command, as
\* long as no checksum was wrong: then see RetryIsHeard (mdb_step).
SuccessIsWhatWasTold == ReportsSuccess /\ ~Repeats => TellsTheAnswer

\* After a wrong checksum the gate sends RET, and MDB_Success then tells of a
\* repeated answer with the right one: mdb.c:151-152 draws a second answer of the
\* peripheral behind RET and the gate's ACK behind that.
RetryIsHeard == ReportsSuccess /\ Repeats => TellsTheAnswer

\* Every transaction ends and the gate can take the next command, when the
\* peripheral answers in time or not at all, wrong checksums included.
GateBecomesIdle == mdb_state # "Idle" ~> mdb_state = "Idle"

\* Whatever the line brings, a transaction does not hang, unless a handler has
\* cut a break short and the line is held down ever since: the gate leaves every
\* state but idle and the break of the bus.
TransactionsEnd ==
  mdb_state \notin {"Idle", "Bus_Reset"} ~>
    mdb_state \in {"Idle", "Bus_Reset"} \/ cut

\* Who waits for the line is woken by the timer, and so is who holds it down: a
\* step that stops the timer ends the wait or starts the timer again.  The
\* exception is named: a frame or a transmit interrupt during a break, or the
\* report of an error from before it, takes the state away and stops the timer
\* (mdb.c:58, 170, 205, 228), and the line stays down.
WaitsUnderTimer ==
  /\ (mdb_state = "Recv" /\ mdb_fast_error_code = None /\ pc # "idle") => timer
  /\ (~txen /\ pc \notin {"break timer", "idle"}) => timer \/ cut
================================================================================
