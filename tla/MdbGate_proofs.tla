----------------------------- MODULE MdbGate_proofs -----------------------------
(*****************************************************************************)
(* Proofs about the firmware of the MDB gate.  What its buffers hold and who *)
(* is woken by the timer is proved for every line, however disturbed.  What  *)
(* it answers is proved for a clean line and for requests that fit, over any *)
(* commands, any answers and any interleaving of the main loop with the      *)
(* interrupt handlers.                                                       *)
(*****************************************************************************)
EXTENDS MdbGateProperties, SequenceTheorems, TLAPS

-----------------------------------------------------------------------------
(***************************************************************************)
(* The inductive invariant of a clean line.                                *)
(***************************************************************************)
\* Peripherals answer in time, with blocks that fit; nothing else makes noise.  The
\* master asks for what fits and does not restart the gate in the middle of a
\* transaction.
CleanLine ==
  /\ Late = FALSE /\ MaxNoise = 0
  /\ PacketSize > 1
  /\ \A c \in Commands :
       c.kind # "Reset" /\ (c.kind = "Transaction" => c.length \in 1..PacketSize)
  /\ \A block \in Blocks : Len(block) <= PacketSize + 1

\* The main loop between two commands, after it has said that it started one.
Looping == {"twi", "commands", "swap", "mdb"}

\* No interrupt is on its way.
Quiet == line = <<>> /\ ~tov /\ ~udrie /\ ~txcie /\ udr = None

\* The end of the command is on its way out, and nothing behind it.
LastOut ==
  /\ \/ shift = "last" /\ udr = None
     \/ udr = "last" /\ shift \in {"ACK", "addr", "byte"}
  /\ line = <<>>

\* The command has left: what the peripheral answered has arrived or is on the line.
Answering ==
  /\ shift = None /\ udr = None /\ told \in Blocks
  /\ Len(line) = Len(told) - Len(mdb_in)
  /\ told # <<>> => Len(mdb_in) < Len(told)
  /\ \A i \in 1..Len(mdb_in) : mdb_in[i] = told[i]
  /\ \A i \in 1..Len(line) : line[i] = Frames(told)[Len(mdb_in) + i]

\* The gate rests, or prepares a transaction.
Idle ==
  /\ pc \in Looping \cup {"break", "load", "send"}
  /\ owed = 0
  /\ mdb_fast_error_code = None /\ mdb_in = <<>>
  /\ timer <=> pc = "send"
  /\ Quiet /\ shift \in {None, "ACK"} /\ txen
  /\ pc \in {"load", "send"} => mdb_out.used = 0 /\ mdb_out.length > 1

\* MDB_Started is said late: the transaction may be over before.
Owing == owed = IF pc = "started" THEN 0 ELSE 1
Active == pc \in Looping \cup {"started"} /\ Owing

Sending ==
  /\ Active /\ timer /\ ~tov /\ txen
  /\ mdb_fast_error_code = None /\ mdb_in = <<>>
  /\ mdb_out.used \in 1..mdb_out.length
  /\ \/ /\ udrie /\ ~txcie /\ mdb_out.used < mdb_out.length
        /\ shift \in {"ACK", "addr", "byte"} /\ udr \in {None, "addr", "byte"}
        /\ line = <<>>
     \/ ~udrie /\ txcie /\ LastOut
     \/ ~udrie /\ txcie /\ txc /\ Answering

Receiving ==
  /\ Active /\ timer /\ txen /\ ~udrie /\ ~txcie
  /\ mdb_fast_error_code = None
  /\ \/ LastOut /\ mdb_in = <<>> /\ ~tov
     \/ Answering /\ (tov => pc = "twi" /\ line = <<>>)

\* The block is complete, and then reported: MDB_Success with what was told.
Complete ==
  /\ Quiet /\ ~timer /\ txen /\ mdb_fast_error_code = None
  /\ pc \in Looping \cup {"started", "reset", "idle"}
  /\ pc \notin {"reset", "idle"} =>
       /\ Owing /\ shift = None
       /\ told # <<>> /\ told \in Blocks
       /\ mdb_in = Front(told) /\ mdb_in_last_byte = Last(told)
  /\ pc \in {"reset", "idle"} => owed = 0 /\ shift \in {None, "ACK"}
  /\ pc = "idle" => mdb_in = <<>>

\* The peripheral was silent.
TimedOut ==
  /\ Quiet /\ ~timer /\ txen /\ shift = None
  /\ pc \in Looping \cup {"reset", "idle"}
  /\ owed = IF pc \in {"reset", "idle"} THEN 0 ELSE 1
  /\ mdb_fast_error_code = IF pc = "idle" THEN None ELSE "MDB_Timeout"
  /\ pc = "idle" => mdb_in = <<>>

\* A break of the bus is never answered; the gate stays in it.
Breaking ==
  /\ pc \in Looping \cup {"break timer", "started"}
  /\ owed = IF pc \in {"break timer", "started"} THEN 0 ELSE 1
  /\ mdb_fast_error_code = None
  /\ line = <<>> /\ ~udrie /\ ~txcie /\ udr = None /\ shift \in {None, "ACK"}
  /\ tov => timer /\ pc = "twi"

Phases ==
  /\ mdb_state = "Idle" => Idle
  /\ mdb_state = "Send" => Sending
  /\ mdb_state = "Recv" => Receiving
  /\ mdb_state = "Recv_End" => Complete
  /\ mdb_state = "Error" => TimedOut
  /\ mdb_state = "Bus_Reset" => Breaking

\* Nothing of a disturbed line is there.
Undisturbed ==
  /\ ~mdb_state_retry /\ noise = 0
  /\ \A i \in 1..Len(line) : ~line[i].stray /\ ~line[i].broken

Reported == ReportsSuccess => TellsTheAnswer

CleanInv == GateTypeOK /\ Undisturbed /\ Phases /\ Reported

\* Before the first ACK the flag TXC0 is set by the end of a command alone.
NoAck ==
  /\ shift # "ACK"
  /\ txc => mdb_state = "Send" /\ shift = None /\ udr = None
  /\ mdb_state = "Recv" => shift = None /\ udr = None

AckOrNone == "ACK" \in signals \/ NoAck

-----------------------------------------------------------------------------
(***************************************************************************)
(* Types.                                                                  *)
(***************************************************************************)
\* Packets without data.
LEMMA AnswerIsPacket ==
  ASSUME NEW h \in Finals \cup {"Debug", "Other", "MDB_Busy", "MDB_Started", "Buffer_Overflow"}
  PROVE  Answer(h) \in Packet
  <1>1. <<>> \in Seq(0..255)
    BY EmptySeq
  <1> QED
    BY <1>1 DEF Answer, Packet

\* What the buffers of answers can hold.
AnswersOK ==
  /\ master_out \in Seq(Packet) /\ Len(master_out) <= MaxAnswers
  /\ twi_out \in Seq(Packet) /\ Len(twi_out) <= MaxAnswers
  /\ said \in Packet /\ owed \in -1..2

LEMMA AnswerType ==
  ASSUME AnswersOK, NEW p \in Packet, master_out_n(p)
  PROVE  AnswersOK'
  <1>0. MaxAnswers \in Nat /\ MaxAnswers >= 1
    BY GateAssumption
  <1>1. master_out' \in Seq(Packet) /\ Len(master_out') <= MaxAnswers
    <2>1. CASE Len(master_out) < MaxAnswers
      <3>1. master_out' = Append(master_out, p) /\ master_out \in Seq(Packet)
        BY <2>1 DEF master_out_n, AnswersOK
      <3>2. master_out' \in Seq(Packet) /\ Len(master_out') = Len(master_out) + 1
        BY <3>1, AppendProperties
      <3>3. Len(master_out) \in Nat
        BY <3>1, LenProperties
      <3> QED
        BY <1>0, <2>1, <3>2, <3>3
    <2>2. CASE ~(Len(master_out) < MaxAnswers)
      BY <2>2 DEF master_out_n, AnswersOK
    <2> QED
      BY <2>1, <2>2
  <1>2. twi_out' \in Seq(Packet) /\ Len(twi_out') <= MaxAnswers
    <2>1. Answer("Buffer_Overflow") \in Packet
      BY AnswerIsPacket
    <2>2. <<Answer("Buffer_Overflow")>> \in Seq(Packet) /\ Len(<<Answer("Buffer_Overflow")>>) = 1
      BY <2>1
    <2> QED
      BY <1>0, <2>2 DEF master_out_n, AnswersOK
  <1>3. said' \in Packet
    BY DEF master_out_n
  <1>4. owed' \in -1..2
    BY DEF master_out_n, AnswersOK
  <1> QED
    BY <1>1, <1>2, <1>3, <1>4 DEF AnswersOK

LEMMA TransmitType ==
  ASSUME GateTypeOK, NEW f \in Sent, Transmit(f)
  PROVE  udr' \in Sent \cup {None} /\ shift' \in Sent \cup {None}
  BY DEF Transmit, GateTypeOK

\* A block on the line.
LEMMA FramesShape ==
  ASSUME NEW block \in Seq(0..255)
  PROVE  /\ Frames(block) \in Seq(Frame) /\ Len(Frames(block)) = Len(block)
         /\ \A i \in 1..Len(block) :
              /\ Frames(block)[i].byte = block[i]
              /\ Frames(block)[i].last <=> i = Len(block)
              /\ ~Frames(block)[i].broken /\ ~Frames(block)[i].stray
  <1>1. Len(block) \in Nat /\ \A i \in 1..Len(block) : block[i] \in 0..255
    <2>1. Len(block) \in Nat
      BY LenProperties
    <2>2. \A i \in 1..Len(block) : block[i] \in 0..255
      BY ElementOfSeq
    <2> QED
      BY <2>1, <2>2
  <1> DEFINE frame(i) == [byte |-> block[i], last |-> i = Len(block),
                          broken |-> FALSE, stray |-> FALSE]
  <1>2. \A i \in 1..Len(block) : frame(i) \in Frame
    BY <1>1 DEF Frame
  <1>3. /\ Frames(block) = [i \in 1..Len(block) |-> frame(i)]
        /\ \A i \in 1..Len(block) : /\ frame(i).byte = block[i]
                                    /\ frame(i).last <=> i = Len(block)
                                    /\ ~frame(i).broken /\ ~frame(i).stray
    BY DEF Frames
  <1> HIDE DEF frame
  <1>4. Frames(block) \in Seq(Frame) /\ Len(Frames(block)) = Len(block)
        /\ \A i \in 1..Len(block) : Frames(block)[i] = frame(i)
    BY <1>1, <1>2, <1>3
  <1> QED
    BY <1>3, <1>4

\* The rest of the main loop's state, of the handlers' and of the line.
HostOK ==
  /\ pc \in {"twi", "break", "break timer", "load", "send", "started",
             "commands", "swap", "mdb", "reset", "idle"}
  /\ twi_in \in Seq(Commands) /\ packets \in 0..MaxPackets

StateOK ==
  /\ mdb_state \in States /\ mdb_state_retry \in BOOLEAN
  /\ mdb_fast_error_code \in Errors \cup {None}
  /\ timer \in BOOLEAN /\ udrie \in BOOLEAN /\ txcie \in BOOLEAN /\ cut \in BOOLEAN

BuffersOK ==
  /\ mdb_in \in Seq(0..255) /\ Len(mdb_in) <= PacketSize
  /\ mdb_in_last_byte \in 0..255
  /\ mdb_out \in [used : 0..PacketSize, length : 0..PacketSize]

WireOK ==
  /\ udr \in Sent \cup {None} /\ shift \in Sent \cup {None}
  /\ txc \in BOOLEAN /\ txen \in BOOLEAN /\ tov \in BOOLEAN
  /\ line \in Seq(Frame) /\ told \in Seq(0..255) /\ noise \in 0..MaxNoise
  /\ signals \subseteq {"ACK", "RET", "NAK"}

LEMMA Parts == GateTypeOK <=> HostOK /\ AnswersOK /\ StateOK /\ BuffersOK /\ WireOK
  BY DEF GateTypeOK, HostOK, AnswersOK, StateOK, BuffersOK, WireOK

LEMMA PartsNext == GateTypeOK' <=> HostOK' /\ AnswersOK' /\ StateOK' /\ BuffersOK' /\ WireOK'
  BY DEF GateTypeOK, HostOK, AnswersOK, StateOK, BuffersOK, WireOK

\* What a step leaves alone keeps its type.
LEMMA SameAnswers == ASSUME AnswersOK, UNCHANGED answerVars PROVE AnswersOK'
  <1>1. UNCHANGED <<master_out, twi_out, said, owed>>
    BY DEF answerVars
  <1> QED
    BY <1>1 DEF AnswersOK

LEMMA SameState ==
  ASSUME StateOK, UNCHANGED <<stateVars, mdb_fast_error_code, timer, txVars>> PROVE StateOK'
  <1>1. UNCHANGED <<mdb_state, mdb_state_retry, mdb_fast_error_code, timer, udrie, txcie, cut>>
    BY DEF stateVars, txVars
  <1> QED
    BY <1>1 DEF StateOK

LEMMA SameBuffers == ASSUME BuffersOK, UNCHANGED <<inVars, mdb_out>> PROVE BuffersOK'
  <1>1. UNCHANGED <<mdb_in, mdb_in_last_byte, mdb_out>>
    BY DEF inVars
  <1> QED
    BY <1>1 DEF BuffersOK

LEMMA SameWire == ASSUME WireOK, UNCHANGED wireVars PROVE WireOK'
  <1>1. UNCHANGED <<udr, shift, txc, txen, tov, line, told, noise, signals>>
    BY DEF wireVars, lineVars
  <1> QED
    BY <1>1 DEF WireOK

LEMMA SameMdb ==
  ASSUME StateOK, BuffersOK, UNCHANGED mdbVars PROVE StateOK' /\ BuffersOK'
  <1>1. UNCHANGED <<stateVars, mdb_fast_error_code, timer, txVars>>
    BY DEF mdbVars
  <1>2. UNCHANGED <<inVars, mdb_out>>
    BY DEF mdbVars
  <1> QED
    BY <1>1, <1>2, SameState, SameBuffers

LEMMA InitType == Init => GateTypeOK
  <1> SUFFICES ASSUME Init PROVE GateTypeOK
    OBVIOUS
  <1>0. /\ MaxPackets \in Nat /\ MaxAnswers \in Nat \ {0} /\ PacketSize \in Nat \ {0}
        /\ MaxNoise \in Nat
    BY GateAssumption, WireAssumption
  <1>1. HostOK
    BY <1>0, EmptySeq DEF Init, HostOK
  <1>2. AnswersOK
    <2>1. Answer("Debug") \in Packet
      BY AnswerIsPacket
    <2>2. <<Answer("Debug")>> \in Seq(Packet) /\ Len(<<Answer("Debug")>>) = 1
      BY <2>1
    <2> QED
      BY <1>0, <2>1, <2>2, EmptySeq DEF Init, AnswersOK
  <1>3. StateOK
    BY DEF Init, StateOK, States
  <1>4. BuffersOK
    BY <1>0, EmptySeq DEF Init, BuffersOK, EmptyOut
  <1>5. WireOK
    <2>1. <<>> \in Seq(Frame) /\ <<>> \in Seq(0..255)
      BY EmptySeq
    <2>2. None \in Sent \cup {None} /\ 0 \in 0..MaxNoise
      BY <1>0
    <2> QED
      BY <2>1, <2>2 DEF Init, WireInit, WireOK
  <1> QED
    BY <1>1, <1>2, <1>3, <1>4, <1>5, Parts

\* mdb_reset empties the buffers.
LEMMA EmptyType ==
  ASSUME mdb_in' = <<>>, mdb_in_last_byte' = 0, mdb_out' \in {EmptyOut, mdb_out}, BuffersOK
  PROVE  BuffersOK'
  <1>1. PacketSize \in Nat
    BY GateAssumption
  <1>2. EmptyOut \in [used : 0..PacketSize, length : 0..PacketSize]
    BY <1>1 DEF EmptyOut
  <1> QED
    BY <1>1, <1>2, EmptySeq DEF BuffersOK

\* A command has been taken.
LEMMA HostTakes ==
  ASSUME HostOK, twi_in # <<>>, twi_in' \in {<<>>, Tail(twi_in)}, UNCHANGED packets,
         pc' \in {"twi", "swap", "commands", "break", "load"}
  PROVE  HostOK'
  <1>1. twi_in' \in Seq(Commands)
    BY EmptySeq, HeadTailProperties DEF HostOK
  <1>2. packets' \in 0..MaxPackets
    BY DEF HostOK
  <1> QED
    BY <1>1, <1>2, Zenon DEF HostOK

LEMMA ResetType ==
  ASSUME GateTypeOK, Reset, UNCHANGED packets, twi_in # <<>>
  PROVE  GateTypeOK'
  <1>0. MaxAnswers \in Nat \ {0}
    BY GateAssumption
  <1>1. HostOK'
    BY Parts, HostTakes DEF Reset
  <1>2. AnswersOK'
    <2>1. Answer("Debug") \in Packet
      BY AnswerIsPacket
    <2>2. <<Answer("Debug")>> \in Seq(Packet) /\ Len(<<Answer("Debug")>>) = 1
      BY <2>1
    <2> QED
      BY <1>0, <2>1, <2>2, EmptySeq DEF Reset, AnswersOK
  <1>3. StateOK'
    BY DEF Reset, StateOK, States, timer0_stop
  <1>4. BuffersOK'
    BY EmptyType, Parts DEF Reset
  <1>5. WireOK'
    <2>1. UNCHANGED <<line, told, noise, signals>>
      BY DEF Reset, lineVars
    <2> QED
      BY <2>1, Parts DEF Reset, WireOK
  <1> QED
    BY <1>1, <1>2, <1>3, <1>4, <1>5, PartsNext

\* A command fits the send buffer, or is dropped.
LEMMA LoadedType ==
  ASSUME NEW n \in Nat
  PROVE  /\ Loaded(n) \in 0..PacketSize
         /\ n \in 1..PacketSize /\ PacketSize > 1 => Loaded(n) > 1
  BY GateAssumption DEF Loaded

LEMMA TakeCommandType == ASSUME GateTypeOK, TakeCommand PROVE GateTypeOK'
  <1>0. /\ twi_in # <<>> /\ UNCHANGED packets
        /\ HostOK /\ AnswersOK /\ StateOK /\ BuffersOK /\ WireOK
    BY Parts DEF TakeCommand
  <1>1. Head(twi_in) \in Command
    <2>1. twi_in \in Seq(Commands) /\ twi_in # <<>>
      BY <1>0 DEF HostOK
    <2>2. Head(twi_in) \in Commands
      BY <2>1, HeadTailProperties
    <2> QED
      BY <2>2, GateAssumption
  <1>2. CASE Reset
    BY <1>0, <1>2, ResetType
  <1>3. ASSUME twi_in' = Tail(twi_in), pc' \in {"swap", "commands", "break", "load"}
        PROVE  HostOK'
    BY <1>0, <1>3, HostTakes
  <1>4. CASE /\ (UNCHANGED answerVars) \/ \E h \in {"Other", "MDB_Busy"} : master_out_n(Answer(h))
             /\ twi_in' = Tail(twi_in) /\ pc' \in {"swap", "commands"}
             /\ UNCHANGED <<mdbVars, wireVars>>
    <2>1. AnswersOK'
      BY <1>0, <1>4, AnswerType, AnswerIsPacket, SameAnswers
    <2> QED
      BY <1>0, <1>3, <1>4, <2>1, SameMdb, SameWire, PartsNext
  <1>5. CASE pc' = "break" /\ twi_in' = Tail(twi_in) /\ UNCHANGED <<answerVars, mdbVars, wireVars>>
    BY <1>0, <1>3, <1>5, SameAnswers, SameMdb, SameWire, PartsNext
  <1>6. CASE /\ mdb_out' = [used |-> 0, length |-> Loaded(Head(twi_in).length)]
             /\ twi_in' = Tail(twi_in) /\ pc' = "load"
             /\ UNCHANGED <<answerVars, stateVars, mdb_fast_error_code, inVars,
                            timer, txVars, wireVars>>
    <2>1. Loaded(Head(twi_in).length) \in 0..PacketSize /\ 0 \in 0..PacketSize
      <3>1. Head(twi_in).length \in Nat
        BY <1>1 DEF Command
      <3> QED
        BY <3>1, LoadedType, GateAssumption
    <2>2. BuffersOK'
      BY <1>0, <1>6, <2>1 DEF BuffersOK, inVars
    <2> QED
      BY <1>0, <1>3, <1>6, <2>2, SameAnswers, SameState, SameWire, PartsNext
  <1> QED
    BY <1>2, <1>4, <1>5, <1>6 DEF TakeCommand, NextCommand

\* The main loop goes on.
LEMMA HostMoves ==
  ASSUME HostOK, UNCHANGED hostVars,
         pc' \in {"twi", "break", "break timer", "load", "send", "started",
                  "commands", "swap", "mdb", "reset", "idle"}
  PROVE  HostOK'
  <1>1. UNCHANGED <<twi_in, packets>>
    BY DEF hostVars
  <1> QED
    BY <1>1 DEF HostOK

LEMMA HostStays == ASSUME HostOK, UNCHANGED <<pc, hostVars>> PROVE HostOK'
  <1>1. UNCHANGED <<pc, twi_in, packets>>
    BY DEF hostVars
  <1> QED
    BY <1>1 DEF HostOK

\* The main loop moves on and changes nothing of what the handlers share.
LEMMA PassType ==
  ASSUME GateTypeOK, TwiBusy \/ NoCommand \/ NothingToDo
  PROVE  GateTypeOK'
  <1>1. UNCHANGED <<hostVars, answerVars, mdbVars, wireVars>>
        /\ pc' \in {"twi", "mdb", "swap"}
    BY DEF TwiBusy, NoCommand, NothingToDo
  <1> QED
    BY <1>1, Parts, HostMoves, SameAnswers, SameMdb, SameWire, PartsNext

\* It gives an answer and does nothing else.
LEMMA SayType ==
  ASSUME GateTypeOK, Started \/ ReportError \/ ReportStatus
  PROVE  GateTypeOK'
  <1>1. UNCHANGED <<hostVars, mdbVars, wireVars>> /\ pc' \in {"swap", "commands", "reset"}
    BY DEF Started, NextCommand, ReportError, ReportStatus, Finish
  <1>2. AnswersOK'
    <2>1. CASE Started
      <3>1. Answer("MDB_Started") \in Packet
        BY AnswerIsPacket
      <3> QED
        BY <2>1, <3>1, Parts, AnswerType DEF Started
    <2>2. CASE ReportError
      <3>1. mdb_fast_error_code \in Finals
        BY <2>2 DEF ReportError, GateTypeOK, Finals
      <3>2. Answer(mdb_fast_error_code) \in Packet
        BY <3>1, AnswerIsPacket
      <3> QED
        BY <2>2, <3>2, Parts, AnswerType DEF ReportError, Finish
    <2>3. CASE ReportStatus
      <3>1. /\ Answer("MDB_Success") \in Packet /\ Answer("MDB_NAK") \in Packet
            /\ Answer("MDB_Invalid_End") \in Packet
        BY AnswerIsPacket DEF Finals
      <3>2. \E p \in Packet : master_out_n(p)
        BY <2>3, <3>1 DEF ReportStatus, Finish
      <3> QED
        BY <3>2, Parts, AnswerType
    <2> QED
      BY <1>1, <2>1, <2>2, <2>3
  <1> QED
    BY <1>1, <1>2, Parts, HostMoves, SameMdb, SameWire, PartsNext

LEMMA SwapType == ASSUME GateTypeOK, Swap PROVE GateTypeOK'
  <1>1. UNCHANGED <<hostVars, mdbVars, wireVars>> /\ pc' = "mdb"
    BY DEF Swap
  <1>2. AnswersOK'
    <2>1. MaxAnswers \in Nat /\ <<>> \in Seq(Packet) /\ Len(<<>>) = 0
      BY GateAssumption, EmptySeq
    <2>2. UNCHANGED <<said, owed>>
      BY DEF Swap
    <2>3. CASE twi_out = <<>>
      BY <2>1, <2>2, <2>3, Parts DEF Swap, AnswersOK
    <2>4. CASE twi_out # <<>>
      BY <2>1, <2>2, <2>4, Parts DEF Swap, AnswersOK
    <2> QED
      BY <2>3, <2>4
  <1> QED
    BY <1>1, <1>2, Parts, HostMoves, SameMdb, SameWire, PartsNext

LEMMA MasterType == ASSUME GateTypeOK, MasterSends \/ MasterReads PROVE GateTypeOK'
  <1>1. CASE MasterSends
    <2>1. UNCHANGED <<pc, answerVars, mdbVars, wireVars>>
      BY <1>1 DEF MasterSends
    <2>2. twi_in' \in Seq(Commands)
      BY <1>1, GateAssumption DEF MasterSends
    <2>3. packets' \in 0..MaxPackets
      <3>1. MaxPackets \in Nat
        BY GateAssumption
      <3>2. packets \in 0..MaxPackets
        BY DEF GateTypeOK
      <3>3. packets < MaxPackets /\ packets' = packets + 1
        BY <1>1 DEF MasterSends
      <3> QED
        BY <3>1, <3>2, <3>3
    <2>5. HostOK'
      BY <2>1, <2>2, <2>3, Parts DEF HostOK
    <2> QED
      BY <2>1, <2>5, Parts, SameAnswers, SameMdb, SameWire, PartsNext
  <1>2. CASE MasterReads
    <2>1. UNCHANGED <<pc, hostVars, mdbVars, wireVars>>
      BY <1>2 DEF MasterReads
    <2>2. MaxAnswers \in Nat /\ <<>> \in Seq(Packet) /\ Len(<<>>) = 0
      BY GateAssumption, EmptySeq
    <2>3. AnswersOK'
      BY <1>2, <2>2, Parts DEF MasterReads, AnswersOK
    <2> QED
      BY <2>1, <2>3, Parts, HostStays, SameMdb, SameWire, PartsNext
  <1> QED
    BY <1>1, <1>2

LEMMA BreakType == ASSUME GateTypeOK, BreakBegins \/ BreakTimer PROVE GateTypeOK'
  <1>1. CASE BreakBegins
    <2>1. /\ UNCHANGED <<hostVars, answerVars, mdb_state_retry, mdb_fast_error_code,
                         inVars, mdb_out, timer, udrie, txcie, udr, shift, txc, lineVars, tov>>
          /\ mdb_state' = "Bus_Reset" /\ txen' = FALSE /\ cut' = FALSE /\ pc' = "break timer"
      BY <1>1 DEF BreakBegins
    <2>2. StateOK'
      BY <2>1, Parts DEF StateOK, States
    <2>3. WireOK'
      BY <2>1, Parts DEF WireOK, lineVars
    <2> QED
      BY <2>1, <2>2, <2>3, Parts, HostMoves, SameAnswers, SameBuffers, PartsNext
  <1>2. CASE BreakTimer
    <2>1. /\ UNCHANGED <<hostVars, answerVars, stateVars, mdb_fast_error_code, inVars,
                         mdb_out, txVars, wireVars>>
          /\ timer' = TRUE /\ pc' = "started"
      BY <1>2 DEF BreakTimer, timer0_set
    <2>2. StateOK'
      BY <2>1, Parts DEF StateOK, stateVars, txVars
    <2> QED
      BY <2>1, <2>2, Parts, HostMoves, SameAnswers, SameBuffers, SameWire, PartsNext
  <1> QED
    BY <1>1, <1>2

LEMMA SendType ==
  ASSUME GateTypeOK, SendBusy \/ SendTimer \/ SendFirst
  PROVE  GateTypeOK'
  <1>0. HostOK /\ AnswersOK /\ StateOK /\ BuffersOK /\ WireOK
    BY Parts
  <1>1. CASE SendBusy
    <2>1. /\ UNCHANGED <<hostVars, txVars, wireVars>>
          /\ MdbReset /\ mdb_state' = "Idle" /\ mdb_state_retry' = FALSE
          /\ pc' = "started"
      BY <1>1 DEF SendBusy
    <2>2. AnswersOK'
      <3>1. Answer("UART_Send_Busy") \in Packet
        BY AnswerIsPacket DEF Finals
      <3> QED
        BY <1>0, <1>1, <3>1, AnswerType DEF SendBusy
    <2>3. StateOK'
      BY <1>0, <2>1 DEF StateOK, States, MdbReset, timer0_stop, txVars
    <2>4. BuffersOK'
      BY <1>0, <2>1, EmptyType DEF MdbReset
    <2> QED
      BY <1>0, <2>1, <2>2, <2>3, <2>4, HostMoves, SameWire, PartsNext
  <1>2. CASE SendTimer
    <2>1. /\ UNCHANGED <<hostVars, answerVars, stateVars, mdb_fast_error_code, inVars,
                         mdb_out, txVars, wireVars>>
          /\ timer' = TRUE /\ pc' = "send"
      BY <1>2 DEF SendTimer, timer0_set
    <2>2. StateOK'
      BY <1>0, <2>1 DEF StateOK, stateVars, txVars
    <2> QED
      BY <1>0, <2>1, <2>2, HostMoves, SameAnswers, SameBuffers, SameWire, PartsNext
  <1>3. CASE SendFirst
    <2>1. /\ UNCHANGED <<hostVars, answerVars, mdb_fast_error_code, inVars, timer,
                         txcie, cut, txc, txen, lineVars, tov>>
          /\ mdb_state' = "Send" /\ mdb_state_retry' = FALSE /\ udrie' = TRUE
          /\ pc' = "started" /\ mdb_out' = [mdb_out EXCEPT !.used = 1]
          /\ Transmit("addr")
      BY <1>3 DEF SendFirst
    <2>2. StateOK'
      BY <1>0, <2>1 DEF StateOK, States
    <2>3. BuffersOK'
      <3>1. 1 \in 0..PacketSize
        BY GateAssumption
      <3> QED
        BY <1>0, <2>1, <3>1 DEF BuffersOK, inVars
    <2>4. WireOK'
      <3>1. udr' \in Sent \cup {None} /\ shift' \in Sent \cup {None}
        BY <2>1, TransmitType DEF Sent
      <3> QED
        BY <1>0, <2>1, <3>1 DEF WireOK, lineVars
    <2> QED
      BY <1>0, <2>1, <2>2, <2>3, <2>4, HostMoves, SameAnswers, PartsNext
  <1> QED
    BY <1>1, <1>2, <1>3

LEMMA ReportType == ASSUME GateTypeOK, ReportData \/ BadChecksum PROVE GateTypeOK'
  <1>0. HostOK /\ AnswersOK /\ StateOK /\ BuffersOK /\ WireOK
    BY Parts
  <1>1. /\ \E f \in {"ACK", "RET", "NAK"} : Signal(f)
        /\ UNCHANGED <<hostVars, mdb_state, mdb_fast_error_code, mdb_out, txVars, txc,
                       txen, line, told, noise, tov>>
        /\ pc' \in {"reset", "twi"}
    BY DEF ReportData, BadChecksum, mdbVars, stateVars, Finish
  <1>2. WireOK'
    <2>1. PICK f \in {"ACK", "RET", "NAK"} : Signal(f)
      BY <1>1
    <2>2. f \in Sent /\ Transmit(f) /\ signals' = signals \cup {f}
      BY <2>1 DEF Signal, Sent
    <2>3. udr' \in Sent \cup {None} /\ shift' \in Sent \cup {None}
      BY <2>2, TransmitType
    <2> QED
      BY <1>0, <1>1, <2>2, <2>3 DEF WireOK
  <1>3. CASE ReportData
    <2>1. UNCHANGED mdbVars /\ master_out_n([header |-> "MDB_Success", data |-> mdb_in])
      BY <1>3 DEF ReportData, Finish
    <2>2. [header |-> "MDB_Success", data |-> mdb_in] \in Packet
      BY <1>0 DEF BuffersOK, Packet, Finals
    <2>3. AnswersOK'
      BY <1>0, <2>1, <2>2, AnswerType
    <2> QED
      BY <1>0, <1>1, <1>2, <2>1, <2>3, HostMoves, SameMdb, PartsNext
  <1>4. CASE BadChecksum /\ mdb_state_retry
    <2>1. /\ master_out_n(Answer("MDB_Invalid_CHK"))
          /\ UNCHANGED <<mdb_state_retry, inVars, timer>>
      BY <1>4 DEF BadChecksum, Finish
    <2>2. Answer("MDB_Invalid_CHK") \in Packet
      BY AnswerIsPacket DEF Finals
    <2>3. AnswersOK'
      BY <1>0, <2>1, <2>2, AnswerType
    <2>4. StateOK' /\ BuffersOK'
      BY <1>0, <1>1, <2>1, SameState, SameBuffers DEF stateVars
    <2> QED
      BY <1>0, <1>1, <1>2, <2>3, <2>4, HostMoves, PartsNext
  <1>5. CASE BadChecksum /\ ~mdb_state_retry
    <2>1. /\ mdb_state_retry' = TRUE /\ UNCHANGED answerVars
          /\ mdb_in' = <<>> /\ mdb_in_last_byte' = 0 /\ timer' = TRUE
      BY <1>5 DEF BadChecksum, mdb_start_receive, timer0_set
    <2>2. StateOK'
      BY <1>0, <1>1, <2>1 DEF StateOK, txVars
    <2>3. BuffersOK'
      BY <1>0, <1>1, <2>1, EmptyType
    <2> QED
      BY <1>0, <1>1, <1>2, <2>1, <2>2, <2>3, HostMoves, SameAnswers, PartsNext
  <1> QED
    BY <1>3, <1>4, <1>5

LEMMA MdbResetType == ASSUME GateTypeOK, ResetBegins \/ ResetEnds PROVE GateTypeOK'
  <1>0. HostOK /\ AnswersOK /\ StateOK /\ BuffersOK /\ WireOK
    BY Parts
  <1>1. UNCHANGED <<hostVars, answerVars, udrie, txcie, wireVars>> /\ pc' \in {"idle", "twi"}
    BY DEF ResetBegins, ResetEnds, txVars
  <1>2. CASE ResetBegins
    <2>1. StateOK'
      BY <1>0, <1>1, <1>2 DEF ResetBegins, MdbReset, timer0_stop, StateOK, stateVars, txVars
    <2>2. BuffersOK'
      BY <1>0, <1>2, EmptyType DEF ResetBegins, MdbReset
    <2> QED
      BY <1>0, <1>1, <2>1, <2>2, HostMoves, SameAnswers, SameWire, PartsNext
  <1>3. CASE ResetEnds
    <2>1. StateOK'
      BY <1>0, <1>1, <1>3 DEF ResetEnds, NotesCut, StateOK, States
    <2>2. BuffersOK'
      BY <1>0, <1>3, SameBuffers DEF ResetEnds
    <2> QED
      BY <1>0, <1>1, <2>1, <2>2, HostMoves, SameAnswers, SameWire, PartsNext
  <1> QED
    BY <1>2, <1>3

\* A handler leaves the main loop where it is.
LEMMA MainStays == ASSUME GateTypeOK, UNCHANGED mainVars PROVE HostOK' /\ AnswersOK'
  <1>1. UNCHANGED <<pc, hostVars>> /\ UNCHANGED answerVars
    BY DEF mainVars
  <1> QED
    BY <1>1, Parts, HostStays, SameAnswers

LEMMA TimeoutType == ASSUME GateTypeOK, TIMER0_OVF PROVE GateTypeOK'
  <1>1. /\ UNCHANGED <<mdb_state_retry, inVars, mdb_out, txVars, udr, shift, txc, lineVars>>
        /\ UNCHANGED mainVars
        /\ tov' = FALSE /\ timer' = FALSE
        /\ mdb_state' \in {mdb_state, "Error"}
        /\ mdb_fast_error_code' \in {mdb_fast_error_code, "MDB_Timeout"}
        /\ txen' \in {txen, TRUE}
    BY DEF TIMER0_OVF, timer0_stop, mdb_fast_error
  <1>2. StateOK'
    BY <1>1, Parts DEF StateOK, States, Errors, txVars
  <1>3. BuffersOK'
    BY <1>1, Parts, SameBuffers
  <1>4. WireOK'
    BY <1>1, Parts DEF WireOK, lineVars
  <1> QED
    BY <1>1, <1>2, <1>3, <1>4, MainStays, PartsNext

LEMMA AcceptType ==
  ASSUME GateTypeOK, NEW f \in Frame, Accept(f), NotesCut,
         UNCHANGED <<mdb_state_retry, mdb_out, udrie, txcie>>
  PROVE  StateOK' /\ BuffersOK'
  <1>0. /\ StateOK /\ BuffersOK
        /\ PacketSize \in Nat /\ f.byte \in 0..255
    BY Parts, GateAssumption DEF Frame
  <1>1. StateOK'
    <2>1. /\ timer' \in BOOLEAN
          /\ mdb_state' \in {mdb_state, "Error", "Recv_End"}
          /\ mdb_fast_error_code' \in {mdb_fast_error_code, "UART_Read_Error",
                                       "UART_Read_Unexpected", "MDB_Receive_Overflow"}
      BY DEF Accept, timer0_stop, timer0_set, mdb_fast_error
    <2> QED
      BY <1>0, <2>1 DEF StateOK, States, Errors, NotesCut
  <1>2. mdb_in' \in Seq(0..255) /\ Len(mdb_in') <= PacketSize
    <2>1. mdb_in \in Seq(0..255) /\ Len(mdb_in) <= PacketSize
      BY <1>0 DEF BuffersOK
    <2>2. CASE Len(mdb_in) < PacketSize /\ mdb_in' = Append(mdb_in, f.byte)
      <3>1. mdb_in' \in Seq(0..255) /\ Len(mdb_in') = Len(mdb_in) + 1
        BY <1>0, <2>1, <2>2, AppendProperties
      <3>2. Len(mdb_in) \in Nat
        BY <2>1, LenProperties
      <3> QED
        BY <1>0, <2>2, <3>1, <3>2
    <2>3. \/ UNCHANGED mdb_in
          \/ Len(mdb_in) < PacketSize /\ mdb_in' = Append(mdb_in, f.byte)
      BY DEF Accept, inVars
    <2> QED
      BY <2>1, <2>2, <2>3
  <1>3. mdb_in_last_byte' \in 0..255
    BY <1>0 DEF Accept, inVars, BuffersOK
  <1> QED
    BY <1>0, <1>1, <1>2, <1>3 DEF BuffersOK

LEMMA ReceiveType == ASSUME GateTypeOK, USART_RX PROVE GateTypeOK'
  <1>1. /\ UNCHANGED mainVars
        /\ UNCHANGED <<mdb_state_retry, mdb_out, udrie, txcie, udr, shift, txc, txen, told, tov,
                       noise, signals>>
        /\ line # <<>> /\ line' = Tail(line) /\ Accept(Head(line)) /\ NotesCut
    BY DEF USART_RX
  <1>2. line \in Seq(Frame)
    BY DEF GateTypeOK
  <1>3. Head(line) \in Frame /\ Tail(line) \in Seq(Frame)
    BY <1>1, <1>2, HeadTailProperties
  <1>4. StateOK' /\ BuffersOK'
    BY <1>1, <1>3, AcceptType
  <1>5. WireOK'
    BY <1>1, <1>3, Parts DEF WireOK
  <1> QED
    BY <1>1, <1>4, <1>5, MainStays, PartsNext

LEMMA NextByteType == ASSUME GateTypeOK, USART_UDRE PROVE GateTypeOK'
  <1>0. /\ StateOK /\ BuffersOK /\ WireOK /\ PacketSize \in Nat
    BY Parts, GateAssumption
  <1>1. /\ UNCHANGED mainVars
        /\ UNCHANGED <<mdb_state_retry, inVars, txc, txen, lineVars, tov>>
    BY DEF USART_UDRE
  <1>2. /\ udrie' \in BOOLEAN /\ txcie' \in BOOLEAN /\ timer' \in BOOLEAN /\ cut' \in BOOLEAN
        /\ mdb_state' \in {mdb_state, "Error"}
        /\ mdb_fast_error_code' \in {mdb_fast_error_code, "MDB_Send_Overflow"}
    BY <1>0 DEF USART_UDRE, mdb_fast_error, timer0_stop, timer0_set, NotesCut, StateOK
  <1>3. StateOK'
    BY <1>0, <1>1, <1>2 DEF StateOK, States, Errors
  <1>4. BuffersOK'
    <2>1. UNCHANGED <<mdb_in, mdb_in_last_byte>>
      BY <1>1 DEF inVars
    <2>2. mdb_out' \in [used : 0..PacketSize, length : 0..PacketSize]
      <3>1. /\ mdb_out \in [used : 0..PacketSize, length : 0..PacketSize]
            /\ mdb_out.used \in 0..PacketSize /\ mdb_out.length \in 0..PacketSize
        BY <1>0 DEF BuffersOK
      <3>2. \/ UNCHANGED mdb_out
            \/ /\ ~(mdb_out.used >= mdb_out.length)
               /\ mdb_out' = [mdb_out EXCEPT !.used = mdb_out.used + 1]
        BY DEF USART_UDRE, SendOverflow
      <3> QED
        BY <1>0, <3>1, <3>2
    <2> QED
      BY <1>0, <2>1, <2>2 DEF BuffersOK
  <1>5. WireOK'
    <2>1. (UNCHANGED <<udr, shift>>) \/ \E f \in Sent : Transmit(f)
      BY DEF USART_UDRE, Sent
    <2>2. udr' \in Sent \cup {None} /\ shift' \in Sent \cup {None}
      BY <1>0, <2>1, TransmitType DEF WireOK
    <2> QED
      BY <1>0, <1>1, <2>2 DEF WireOK, lineVars
  <1> QED
    BY <1>1, <1>3, <1>4, <1>5, MainStays, PartsNext

LEMMA SentType == ASSUME GateTypeOK, USART_TX PROVE GateTypeOK'
  <1>1. /\ UNCHANGED mainVars
        /\ UNCHANGED <<mdb_state_retry, mdb_fast_error_code, mdb_out, udrie,
                       udr, shift, txen, lineVars, tov>>
        /\ txc' = FALSE /\ txcie' = FALSE /\ timer' = TRUE /\ mdb_state' = "Recv"
        /\ mdb_in' = <<>> /\ mdb_in_last_byte' = 0 /\ NotesCut
    BY DEF USART_TX, mdb_start_receive, timer0_set
  <1>2. StateOK'
    BY <1>1, Parts DEF StateOK, States, NotesCut
  <1>3. BuffersOK'
    BY <1>1, Parts, EmptyType
  <1>4. WireOK'
    BY <1>1, Parts DEF WireOK, lineVars
  <1> QED
    BY <1>1, <1>2, <1>3, <1>4, MainStays, PartsNext

\* A frame has left, and may have been answered.
LEMMA FrameSentType == ASSUME GateTypeOK, FrameSent PROVE WireOK'
  <1>0. WireOK /\ line \in Seq(Frame) /\ told \in Seq(0..255)
    BY Parts DEF WireOK
  <1>1. /\ shift' \in {udr, None} /\ udr' \in {udr, None} /\ txc' \in BOOLEAN
        /\ UNCHANGED <<txen, tov, noise, signals>>
    BY <1>0 DEF FrameSent, WireOK
  <1>2. line' \in Seq(Frame) /\ told' \in Seq(0..255)
    <2>1. CASE \E block \in Blocks : told' = block /\ line' = line \o Frames(block)
      <3>1. PICK block \in Blocks : told' = block /\ line' = line \o Frames(block)
        BY <2>1
      <3>2. block \in Seq(0..255)
        BY WireAssumption
      <3>3. Frames(block) \in Seq(Frame)
        BY <3>2, FramesShape
      <3> QED
        BY <1>0, <3>1, <3>2, <3>3, ConcatProperties
    <2>2. CASE line' = line \o Frames(told) /\ UNCHANGED told
      <3>1. Frames(told) \in Seq(Frame)
        BY <1>0, FramesShape
      <3> QED
        BY <1>0, <2>2, <3>1, ConcatProperties
    <2>3. CASE UNCHANGED <<told, line>>
      BY <1>0, <2>3
    <2> QED
      BY <2>1, <2>2, <2>3 DEF FrameSent
  <1> QED
    BY <1>0, <1>1, <1>2 DEF WireOK

LEMMA OverflowType == ASSUME GateTypeOK, Overflow PROVE WireOK'
  <1>0. WireOK /\ line \in Seq(Frame)
    BY Parts DEF WireOK
  <1>1. /\ UNCHANGED <<udr, shift, txc, txen, told, noise, signals>> /\ tov' = TRUE
        /\ line' = [i \in DOMAIN line |-> [line[i] EXCEPT !.stray = TRUE]]
    BY DEF Overflow
  <1>2. line' \in Seq(Frame)
    <2>1. Len(line) \in Nat /\ DOMAIN line = 1..Len(line)
      BY <1>0, LenProperties
    <2>2. \A i \in 1..Len(line) : line[i] \in Frame
      BY <1>0, ElementOfSeq
    <2>3. ASSUME NEW i \in 1..Len(line) PROVE [line[i] EXCEPT !.stray = TRUE] \in Frame
      <3>1. line[i] \in Frame
        BY <2>2
      <3> QED
        BY <3>1 DEF Frame
    <2> QED
      BY <1>1, <2>1, <2>3
  <1> QED
    BY <1>0, <1>1, <1>2 DEF WireOK

LEMMA NoiseType == ASSUME GateTypeOK, Noise PROVE WireOK'
  <1>0. WireOK /\ line \in Seq(Frame) /\ noise \in 0..MaxNoise
    BY Parts DEF WireOK
  <1>1. UNCHANGED <<udr, shift, txc, txen, told, tov, signals>>
        /\ noise < MaxNoise /\ noise' = noise + 1
    BY DEF Noise
  <1>2. noise' \in 0..MaxNoise
    BY <1>0, <1>1, WireAssumption
  <1>3. line' \in Seq(Frame)
    <2>1. PICK b \in BOOLEAN :
            line' = Append(line, [byte |-> 1, last |-> FALSE, broken |-> b, stray |-> TRUE])
      BY DEF Noise
    <2>2. [byte |-> 1, last |-> FALSE, broken |-> b, stray |-> TRUE] \in Frame
      BY DEF Frame
    <2> QED
      BY <1>0, <2>1, <2>2, AppendProperties
  <1> QED
    BY <1>0, <1>1, <1>2, <1>3 DEF WireOK

LEMMA OutsideType == ASSUME GateTypeOK, Outside PROVE GateTypeOK'
  <1>1. UNCHANGED <<mainVars, mdbVars>>
    BY DEF Outside, ShiftsOut, TimeIsUp, Disturbed
  <1>2. WireOK'
    BY FrameSentType, OverflowType, NoiseType DEF Outside, ShiftsOut, TimeIsUp, Disturbed
  <1> QED
    BY <1>1, <1>2, Parts, MainStays, SameMdb, PartsNext

LEMMA IdleType == ASSUME GateTypeOK, UNCHANGED vars PROVE GateTypeOK'
  <1>1. UNCHANGED <<mainVars, mdbVars, wireVars>>
    BY DEF vars
  <1> QED
    BY <1>1, Parts, MainStays, SameMdb, SameWire, PartsNext

LEMMA TypeStep == ASSUME GateTypeOK, [Next]_vars PROVE GateTypeOK'
  <1>1. CASE MainLoop
    BY <1>1, PassType, SayType, SwapType, TakeCommandType, BreakType, SendType, ReportType,
       MdbResetType DEF MainLoop
  <1>2. CASE Interrupt
    BY <1>2, TimeoutType, ReceiveType, NextByteType, SentType DEF Interrupt
  <1> QED
    BY <1>1, <1>2, MasterType, OutsideType, IdleType DEF Next

\* The variables have their types: the buffers of mdb.c and twi.c stay within
\* their storage, whatever the master asks for and whatever is on the line.
THEOREM GateTypeCorrect == Spec => []GateTypeOK
  <1>1. Init => GateTypeOK
    BY InitType
  <1>2. GateTypeOK /\ [Next]_vars => GateTypeOK'
    BY TypeStep
  <1> QED
    BY <1>1, <1>2, PTL DEF Spec

-----------------------------------------------------------------------------
(***************************************************************************)
(* Who waits is woken.                                                     *)
(***************************************************************************)
\* Who waits for the line has its timer.
WaiterTimed ==
  (mdb_state = "Recv" /\ mdb_fast_error_code = None /\ pc # "idle") => timer

\* The line is held down in a break with its timer, or the break was cut short.
HolderTimed ==
  ~txen => \/ mdb_state = "Bus_Reset" /\ (timer \/ pc \in {"break timer", "idle"})
           \/ cut

\* A transmission is prepared outside a break.
NotInBreak == pc \in {"load", "send"} => mdb_state # "Bus_Reset"

Timed == WaiterTimed /\ HolderTimed /\ NotInBreak

LEMMA TimedSame ==
  ASSUME Timed, UNCHANGED <<mdb_fast_error_code, mdb_state, txen, timer, cut>>,
         pc' \in {pc, "twi", "commands", "swap", "mdb", "reset"},
         pc \notin {"idle", "break timer"} \/ UNCHANGED pc
  PROVE  Timed'
  BY DEF Timed, WaiterTimed, HolderTimed, NotInBreak

LEMMA TimedMain == ASSUME Timed, MainLoop PROVE Timed'
  <1>1. CASE TwiBusy \/ NoCommand \/ Swap \/ Started \/ NothingToDo \/ ReportError \/ ReportStatus
    <2>1. /\ UNCHANGED <<mdbVars, wireVars>>
          /\ pc \in {"twi", "swap", "started", "mdb"}
          /\ pc' \in {"twi", "commands", "swap", "mdb", "reset"}
      BY <1>1 DEF TwiBusy, NoCommand, Swap, Started, NextCommand, NothingToDo, ReportError,
         ReportStatus, Received, Finish, At
    <2>2. UNCHANGED <<mdb_fast_error_code, mdb_state, txen, timer, cut>>
      BY <2>1 DEF mdbVars, stateVars, txVars, wireVars
    <2> QED
      BY <2>1, <2>2, TimedSame
  <1>2. CASE TakeCommand
    <2>1. pc \in {"twi", "commands"}
      BY <1>2 DEF TakeCommand, At
    <2>2. CASE Reset
      BY <2>2 DEF Reset, Timed, WaiterTimed, HolderTimed, NotInBreak
    <2>3. CASE pc' \in {"swap", "commands"} /\ UNCHANGED <<mdbVars, wireVars>>
      <3>1. UNCHANGED <<mdb_fast_error_code, mdb_state, txen, timer, cut>>
        BY <2>3 DEF mdbVars, stateVars, txVars, wireVars
      <3> QED
        BY <2>1, <2>3, <3>1, TimedSame
    <2>4. CASE /\ mdb_state = "Idle" /\ pc' \in {"break", "load"}
               /\ UNCHANGED <<stateVars, mdb_fast_error_code, timer, txVars, wireVars>>
      <3>1. UNCHANGED <<mdb_fast_error_code, mdb_state, txen, timer, cut>>
        BY <2>4 DEF stateVars, txVars, wireVars
      <3> QED
        BY <2>1, <2>4, <3>1 DEF Timed, WaiterTimed, HolderTimed, NotInBreak
    <2> QED
      BY <1>2, <2>2, <2>3, <2>4 DEF TakeCommand, NextCommand, mdbVars
  <1>3. CASE BreakBegins \/ BreakTimer
    BY <1>3 DEF BreakBegins, BreakTimer, At, timer0_set, stateVars, txVars, wireVars, Timed,
       WaiterTimed, HolderTimed, NotInBreak
  <1>4. CASE SendBusy \/ SendTimer \/ SendFirst
    BY <1>4 DEF SendBusy, SendTimer, SendFirst, At, MdbReset, timer0_set, stateVars, txVars,
       wireVars, Timed, WaiterTimed, HolderTimed, NotInBreak
  <1>5. CASE ReportData \/ BadChecksum
    <2>1. /\ mdb_state = "Recv_End" /\ pc = "mdb" /\ pc' \in {"reset", "twi"}
          /\ UNCHANGED <<mdb_state, txen, cut>>
      BY <1>5 DEF ReportData, BadChecksum, Received, At, Finish, mdbVars, stateVars, txVars
    <2> QED
      BY <2>1 DEF Timed, WaiterTimed, HolderTimed, NotInBreak
  <1>6. CASE ResetBegins
    <2>1. pc' = "idle" /\ UNCHANGED <<mdb_state, txen, cut>>
      BY <1>6 DEF ResetBegins, stateVars, txVars, wireVars
    <2> QED
      BY <2>1 DEF Timed, WaiterTimed, HolderTimed, NotInBreak
  <1>7. CASE ResetEnds
    <2>1. /\ pc' = "twi" /\ mdb_state' = "Idle" /\ UNCHANGED txen
          /\ cut' = (cut \/ (mdb_state = "Bus_Reset" /\ ~txen /\ mdb_state' # "Bus_Reset"))
      BY <1>7 DEF ResetEnds, NotesCut, wireVars
    <2> QED
      BY <2>1 DEF Timed, WaiterTimed, HolderTimed, NotInBreak
  <1> QED
    BY <1>1, <1>2, <1>3, <1>4, <1>5, <1>6, <1>7 DEF MainLoop

\* A handler may take the state from a break: then the break is cut short.
LEMMA TimedHandler == ASSUME Timed, Interrupt PROVE Timed'
  <1>1. CASE TIMER0_OVF
    <2>1. UNCHANGED <<pc, cut>>
      BY <1>1 DEF TIMER0_OVF, mainVars, txVars
    <2>2. CASE mdb_state = "Bus_Reset"
      <3>1. UNCHANGED mdb_state /\ txen' = TRUE
        BY <1>1, <2>2 DEF TIMER0_OVF
      <3> QED
        BY <2>1, <2>2, <3>1 DEF Timed, WaiterTimed, HolderTimed, NotInBreak
    <2>3. CASE mdb_state # "Bus_Reset"
      <3>1. mdb_state' \in {"Idle", "Error"} /\ UNCHANGED txen
        BY <1>1, <2>3 DEF TIMER0_OVF, mdb_fast_error
      <3> QED
        BY <2>1, <2>3, <3>1 DEF Timed, WaiterTimed, HolderTimed, NotInBreak
    <2> QED
      BY <2>2, <2>3
  <1>2. CASE USART_RX
    <2>1. /\ UNCHANGED <<pc, txen>> /\ Accept(Head(line))
          /\ cut' = (cut \/ (mdb_state = "Bus_Reset" /\ ~txen /\ mdb_state' # "Bus_Reset"))
      BY <1>2 DEF USART_RX, NotesCut, mainVars
    <2>2. mdb_state' # "Bus_Reset"
          /\ (mdb_state' = "Recv" => mdb_fast_error_code' = mdb_fast_error_code /\ timer')
      BY <2>1, <1>2 DEF Accept, mdb_fast_error, timer0_set
    <2> QED
      BY <2>1, <2>2 DEF Timed, WaiterTimed, HolderTimed, NotInBreak
  <1>3. CASE USART_UDRE
    <2>1. /\ UNCHANGED <<pc, txen>>
          /\ cut' = (cut \/ (mdb_state = "Bus_Reset" /\ ~txen /\ mdb_state' # "Bus_Reset"))
          /\ mdb_state' = "Error" \/ (mdb_state' = mdb_state /\ timer')
      BY <1>3 DEF USART_UDRE, NotesCut, mdb_fast_error, timer0_set, mainVars
    <2> QED
      BY <2>1 DEF Timed, WaiterTimed, HolderTimed, NotInBreak
  <1>4. CASE USART_TX
    <2>1. /\ UNCHANGED <<pc, txen>> /\ mdb_state' = "Recv" /\ timer'
          /\ cut' = (cut \/ (mdb_state = "Bus_Reset" /\ ~txen /\ mdb_state' # "Bus_Reset"))
      BY <1>4 DEF USART_TX, NotesCut, mdb_start_receive, timer0_set, mainVars
    <2> QED
      BY <2>1 DEF Timed, WaiterTimed, HolderTimed, NotInBreak
  <1> QED
    BY <1>1, <1>2, <1>3, <1>4 DEF Interrupt

LEMMA TimedStep == ASSUME Timed, [Next]_vars PROVE Timed'
  <1>1. CASE MasterSends \/ MasterReads
    <2>1. UNCHANGED <<pc, mdbVars, wireVars>>
      BY <1>1 DEF MasterSends, MasterReads
    <2> QED
      BY <2>1, TimedSame DEF mdbVars, stateVars, txVars, wireVars
  <1>2. CASE Outside
    <2>1. UNCHANGED <<mainVars, mdbVars, txen>>
      BY <1>2 DEF Outside, ShiftsOut, TimeIsUp, Disturbed, FrameSent, Overflow, Noise
    <2> QED
      BY <2>1, TimedSame DEF mainVars, mdbVars, stateVars, txVars
  <1>3. CASE UNCHANGED vars
    BY <1>3, TimedSame DEF vars, mainVars, mdbVars, stateVars, txVars, wireVars
  <1> QED
    BY <1>1, <1>2, <1>3, TimedMain, TimedHandler DEF Next

\* Who waits for the line is woken by the timer, and so is who holds it down unless
\* the break was cut short: a frame or a transmit interrupt during the break, or
\* the report of an older error, takes the state away (mdb.c:58, 170, 205, 228).
\* However the handlers and the main loop are interleaved, whatever the line brings.
THEOREM WaitersAreWoken == Spec => []WaitsUnderTimer
  <1>1. Init => Timed
    BY DEF Init, WireInit, Timed, WaiterTimed, HolderTimed, NotInBreak
  <1>2. Timed /\ [Next]_vars => Timed'
    BY TimedStep
  <1>3. Timed => WaitsUnderTimer
    BY DEF Timed, WaiterTimed, HolderTimed, WaitsUnderTimer
  <1> QED
    BY <1>1, <1>2, <1>3, PTL DEF Spec

-----------------------------------------------------------------------------
(***************************************************************************)
(* A clean line.                                                           *)
(***************************************************************************)
\* Exactly one phase at a time.
LEMMA OnePhase ==
  ASSUME CleanInv
  PROVE  \/ mdb_state = "Idle" /\ Idle
         \/ mdb_state = "Send" /\ Sending
         \/ mdb_state = "Recv" /\ Receiving
         \/ mdb_state = "Recv_End" /\ Complete
         \/ mdb_state = "Error" /\ TimedOut
         \/ mdb_state = "Bus_Reset" /\ Breaking
  BY DEF CleanInv, GateTypeOK, States, Phases

\* What must be shown of a step: the rest is TypeStep.
Kept == Undisturbed' /\ Phases' /\ Reported'

\* Handlers that are due come first.
LEMMA AtLabel == ASSUME CleanInv, NEW label, At(label) PROVE pc = label /\ ~Raised
  <1>1. ~OverflowKnown
    BY OnePhase DEF OverflowKnown, TimedOut, Quiet
  <1> QED
    BY <1>1 DEF At

\* What the phases speak of besides pc.
Seen == <<owed, mdbVars, wireVars>>

LEMMA SeenFlat ==
  ASSUME UNCHANGED Seen
  PROVE  UNCHANGED <<owed, mdb_state, mdb_state_retry, mdb_fast_error_code, mdb_in,
                     mdb_in_last_byte, mdb_out, timer, udrie, txcie, udr, shift, txc,
                     txen, tov, line, told, noise>>
  BY DEF Seen, mdbVars, stateVars, inVars, txVars, wireVars, lineVars

\* The main loop passes on.
LEMMA LoopMoves ==
  ASSUME CleanInv, UNCHANGED Seen, pc \in Looping, pc' \in Looping, ~Raised
  PROVE  Kept
  <1>0. UNCHANGED <<owed, mdb_state, mdb_state_retry, mdb_fast_error_code, mdb_in,
                    mdb_in_last_byte, mdb_out, timer, udrie, txcie, udr, shift, txc,
                    txen, tov, line, told, noise>>
    BY SeenFlat
  <1>1. Undisturbed'
    BY <1>0 DEF CleanInv, Undisturbed
  <1>2. Reported'
    BY DEF Reported, ReportsSuccess, TellsTheAnswer, Looping
  <1>3. /\ pc' # "started" /\ pc # "started" /\ pc' \notin {"reset", "idle", "load", "send"}
        /\ pc \notin {"reset", "idle", "load", "send"}
        /\ pc' # "break timer" /\ pc # "break timer"
    BY DEF Looping
  <1>4. CASE mdb_state = "Idle" /\ Idle
    <2>1. Idle'
      BY <1>0, <1>3, <1>4 DEF Idle, Quiet
    <2> QED
      BY <1>0, <1>1, <1>2, <1>4, <2>1 DEF Kept, Phases
  <1>5. CASE mdb_state = "Send" /\ Sending
    <2>1. Active'
      BY <1>0, <1>3, <1>5 DEF Sending, Active, Owing
    <2>2. Sending'
      BY <1>0, <1>5, <2>1 DEF Sending, LastOut, Answering
    <2> QED
      BY <1>0, <1>1, <1>2, <1>5, <2>2 DEF Kept, Phases
  <1>6. CASE mdb_state = "Recv" /\ Receiving
    <2>1. Active'
      BY <1>0, <1>3, <1>6 DEF Receiving, Active, Owing
    <2>2. ~tov
      BY <1>6 DEF Receiving, Raised
    <2>3. Receiving'
      BY <1>0, <1>6, <2>1, <2>2 DEF Receiving, LastOut, Answering
    <2> QED
      BY <1>0, <1>1, <1>2, <1>6, <2>3 DEF Kept, Phases
  <1>7. CASE mdb_state = "Recv_End" /\ Complete
    <2>1. Complete'
      BY <1>0, <1>3, <1>7 DEF Complete, Quiet, Owing
    <2> QED
      BY <1>0, <1>1, <1>2, <1>7, <2>1 DEF Kept, Phases
  <1>8. CASE mdb_state = "Error" /\ TimedOut
    <2>1. TimedOut'
      BY <1>0, <1>3, <1>8 DEF TimedOut, Quiet
    <2> QED
      BY <1>0, <1>1, <1>2, <1>8, <2>1 DEF Kept, Phases
  <1>9. CASE mdb_state = "Bus_Reset" /\ Breaking
    <2>1. Breaking'
      BY <1>0, <1>3, <1>9 DEF Breaking, Raised
    <2> QED
      BY <1>0, <1>1, <1>2, <1>9, <2>1 DEF Kept, Phases
  <1> QED
    BY <1>4, <1>5, <1>6, <1>7, <1>8, <1>9, OnePhase

\* Nothing changes that the phases speak of.
LEMMA NothingSeen == ASSUME CleanInv, UNCHANGED <<pc, said, Seen>> PROVE Kept
  <1>0. UNCHANGED <<pc, said, owed, mdb_state, mdb_state_retry, mdb_fast_error_code, mdb_in,
                    mdb_in_last_byte, mdb_out, timer, udrie, txcie, udr, shift, txc,
                    txen, tov, line, told, noise>>
    BY SeenFlat
  <1>1. Undisturbed'
    BY <1>0 DEF CleanInv, Undisturbed
  <1>2. Reported'
    BY <1>0 DEF CleanInv, Reported, ReportsSuccess, TellsTheAnswer
  <1>3. /\ Idle' <=> Idle
        /\ Complete' <=> Complete
        /\ TimedOut' <=> TimedOut
        /\ Breaking' <=> Breaking
    BY <1>0 DEF Idle, Complete, TimedOut, Breaking, Quiet, Owing
  <1>4. Sending' <=> Sending
    BY <1>0 DEF Sending, Active, Owing, LastOut, Answering
  <1>5. Receiving' <=> Receiving
    BY <1>0 DEF Receiving, Active, Owing, LastOut, Answering
  <1> QED
    BY <1>0, <1>1, <1>2, <1>3, <1>4, <1>5 DEF Kept, Phases, CleanInv

\* What an answer does to the count.
LEMMA CountsAnswer ==
  ASSUME NEW p, master_out_n(p), owed \in {0, 1}
  PROVE  /\ said' = p
         /\ p.header = "MDB_Started" => owed' = owed + 1
         /\ p.header \in Finals => owed' = owed - 1
         /\ p.header \in {"Other", "MDB_Busy"} => owed' = owed
  BY DEF master_out_n, Finals, Errors

LEMMA MasterKept == ASSUME CleanInv, MasterSends \/ MasterReads PROVE Kept
  <1>1. UNCHANGED <<pc, said, Seen>>
    BY DEF MasterSends, MasterReads, answerVars, Seen
  <1> QED
    BY <1>1, NothingSeen

LEMMA PassKept ==
  ASSUME CleanInv, TwiBusy \/ NoCommand \/ Swap \/ NothingToDo
  PROVE  Kept
  <1>1. UNCHANGED Seen /\ pc' \in Looping
    BY DEF TwiBusy, NoCommand, Swap, NothingToDo, answerVars, Seen, Looping
  <1>2. At("twi") \/ At("swap") \/ At("mdb")
    BY DEF TwiBusy, NoCommand, Swap, NothingToDo
  <1>3. pc \in Looping /\ ~Raised
    BY <1>2, AtLabel DEF Looping
  <1> QED
    BY <1>1, <1>3, LoopMoves

\* At most one transaction is owed an answer.
LEMMA OwedOne == ASSUME CleanInv PROVE owed \in {0, 1}
  BY OnePhase DEF Idle, Sending, Receiving, Active, Owing, Complete, TimedOut, Breaking,
     Looping

LEMMA TakeCommandKept == ASSUME CleanLine, CleanInv, TakeCommand PROVE Kept
  <1>0. pc \in {"twi", "commands"} /\ ~Raised
    BY AtLabel DEF TakeCommand
  <1>1. /\ Head(twi_in).kind # "Reset"
        /\ Head(twi_in).kind = "Transaction" => Head(twi_in).length \in 1..PacketSize
    <2>1. twi_in \in Seq(Commands) /\ twi_in # <<>>
      BY DEF CleanInv, GateTypeOK, TakeCommand
    <2>2. Head(twi_in) \in Commands
      BY <2>1, HeadTailProperties
    <2> QED
      BY <2>2 DEF CleanLine
  <1>2. ASSUME NEW h \in {"Other", "MDB_Busy"}, master_out_n(Answer(h)),
               pc' \in {"swap", "commands"}, UNCHANGED <<mdbVars, wireVars>>
        PROVE  Kept
    <2>1. Answer(h).header = h
      BY DEF Answer
    <2>2. UNCHANGED owed
      BY <1>2, <2>1, OwedOne, CountsAnswer
    <2>3. UNCHANGED Seen
      BY <1>2, <2>2 DEF Seen
    <2> QED
      BY <1>0, <1>2, <2>3, LoopMoves DEF Looping
  <1>5. CASE pc' \in {"swap", "commands"} /\ UNCHANGED <<answerVars, mdbVars, wireVars>>
    <2>1. UNCHANGED Seen
      BY <1>5 DEF Seen, answerVars
    <2> QED
      BY <1>0, <1>5, <2>1, LoopMoves DEF Looping
  <1>3. CASE mdb_state = "Idle" /\ pc' = "break" /\ UNCHANGED <<answerVars, mdbVars, wireVars>>
    <2>1. UNCHANGED Seen
      BY <1>3 DEF Seen, answerVars
    <2>2. UNCHANGED <<owed, mdb_state, mdb_state_retry, mdb_fast_error_code, mdb_in,
                      timer, udrie, txcie, udr, shift, txen, tov, line, noise>>
      BY <2>1, SeenFlat
    <2>3. Idle
      BY <1>3, OnePhase
    <2>4. Idle'
      BY <1>0, <1>3, <2>2, <2>3 DEF Idle, Quiet, Looping
    <2> QED
      BY <1>3, <2>2, <2>4 DEF Kept, Phases, CleanInv, Undisturbed,
         Reported, ReportsSuccess, TellsTheAnswer
  <1>4. CASE /\ Head(twi_in).kind = "Transaction" /\ mdb_state = "Idle"
             /\ mdb_out' = [used |-> 0, length |-> Loaded(Head(twi_in).length)]
             /\ pc' = "load"
             /\ UNCHANGED <<answerVars, stateVars, mdb_fast_error_code, inVars,
                            timer, txVars, wireVars>>
    <2>1. UNCHANGED <<owed, mdb_state, mdb_state_retry, mdb_fast_error_code, mdb_in,
                      timer, udrie, txcie, udr, shift, txen, tov, line, noise>>
      BY <1>4 DEF answerVars, stateVars, inVars, txVars, wireVars, lineVars
    <2>2. Idle
      BY <1>4, OnePhase
    <2>3. Loaded(Head(twi_in).length) > 1
      <3>1. PacketSize \in Nat /\ PacketSize > 1 /\ Head(twi_in).length \in 1..PacketSize
        BY <1>1, <1>4, GateAssumption DEF CleanLine
      <3> QED
        BY <3>1, LoadedType
    <2>4. mdb_out'.used = 0 /\ mdb_out'.length > 1
      BY <1>4, <2>3
    <2>5. Idle'
      BY <1>0, <1>4, <2>1, <2>2, <2>4 DEF Idle, Quiet, Looping
    <2> QED
      BY <1>4, <2>1, <2>5 DEF Kept, Phases, CleanInv, Undisturbed,
         Reported, ReportsSuccess, TellsTheAnswer
  <1> QED
    BY <1>1, <1>2, <1>3, <1>4, <1>5 DEF TakeCommand, NextCommand

LEMMA BreakKept == ASSUME CleanInv, BreakBegins \/ BreakTimer PROVE Kept
  <1>1. CASE BreakBegins
    <2>1. pc = "break"
      BY <1>1, AtLabel DEF BreakBegins
    <2>2. mdb_state = "Idle" /\ Idle
      BY <2>1, OnePhase DEF Sending, Receiving, Active, Complete, TimedOut, Breaking, Looping
    <2>3. /\ UNCHANGED <<owed, mdb_state_retry, mdb_fast_error_code, udrie, txcie, udr, shift,
                         tov, line, noise>>
          /\ mdb_state' = "Bus_Reset" /\ pc' = "break timer"
      BY <1>1 DEF BreakBegins, answerVars, txVars, lineVars
    <2>4. Breaking'
      BY <2>2, <2>3 DEF Breaking, Idle, Quiet
    <2> QED
      BY <2>3, <2>4 DEF Kept, Phases, CleanInv, Undisturbed,
         Reported, ReportsSuccess, TellsTheAnswer
  <1>2. CASE BreakTimer
    <2>1. pc = "break timer" /\ ~Raised
      BY <1>2, AtLabel DEF BreakTimer
    <2>2. mdb_state = "Bus_Reset" /\ Breaking
      BY <2>1, OnePhase DEF Idle, Sending, Receiving, Active, Complete, TimedOut, Looping
    <2>3. /\ UNCHANGED <<owed, mdb_state, mdb_state_retry, mdb_fast_error_code, udrie, txcie,
                         udr, shift, tov, line, noise>>
          /\ pc' = "started"
      BY <1>2 DEF BreakTimer, answerVars, stateVars, txVars, wireVars, lineVars
    <2>4. Breaking'
      BY <2>1, <2>2, <2>3 DEF Breaking
    <2> QED
      BY <2>2, <2>3, <2>4 DEF Kept, Phases, CleanInv, Undisturbed,
         Reported, ReportsSuccess, TellsTheAnswer
  <1> QED
    BY <1>1, <1>2

LEMMA SendKept == ASSUME CleanInv, SendBusy \/ SendTimer \/ SendFirst PROVE Kept
  <1>0. pc \in {"load", "send"}
    BY AtLabel DEF SendBusy, SendTimer, SendFirst
  <1>1. mdb_state = "Idle" /\ Idle
    BY <1>0, OnePhase DEF Sending, Receiving, Active, Complete, TimedOut, Breaking, Looping
  <1>2. ~SendBusy
    BY <1>1 DEF SendBusy, Idle, Quiet, uart_send_ready
  <1>3. CASE SendTimer
    <2>1. /\ UNCHANGED <<owed, mdb_state, mdb_state_retry, mdb_fast_error_code, mdb_in,
                         mdb_out, udrie, txcie, udr, shift, txen, tov, line, noise>>
          /\ timer' = TRUE /\ pc' = "send"
      BY <1>3 DEF SendTimer, timer0_set, answerVars, stateVars, inVars, txVars, wireVars, lineVars
    <2>2. pc = "load"
      BY <1>3, AtLabel DEF SendTimer
    <2>3. Idle'
      BY <1>1, <2>1, <2>2 DEF Idle, Quiet
    <2> QED
      BY <1>1, <2>1, <2>3 DEF Kept, Phases, CleanInv, Undisturbed,
         Reported, ReportsSuccess, TellsTheAnswer
  <1>4. CASE SendFirst
    <2>1. /\ UNCHANGED <<owed, mdb_fast_error_code, mdb_in, timer, txcie, txen, line, noise, tov>>
          /\ mdb_state' = "Send" /\ mdb_state_retry' = FALSE /\ udrie' = TRUE
          /\ pc' = "started" /\ mdb_out' = [mdb_out EXCEPT !.used = 1]
          /\ Transmit("addr")
      BY <1>4 DEF SendFirst, answerVars, inVars, lineVars
    <2>2. pc = "send"
      BY <1>4, AtLabel DEF SendFirst
    <2>3. shift' \in {"ACK", "addr", "byte"} /\ udr' \in {None, "addr", "byte"}
      BY <1>1, <2>1 DEF Transmit, Idle, Quiet, uart_send_ready
    <2>4. mdb_out'.used = 1 /\ mdb_out'.length = mdb_out.length
          /\ mdb_out.length \in Nat /\ mdb_out.length > 1
      <3>1. mdb_out \in [used : 0..PacketSize, length : 0..PacketSize] /\ PacketSize \in Nat
        BY GateAssumption DEF CleanInv, GateTypeOK
      <3> QED
        BY <1>1, <2>1, <2>2, <3>1 DEF Idle
    <2>5. Active'
      BY <1>1, <2>1 DEF Idle, Active, Owing
    <2>6. Sending'
      BY <1>1, <2>1, <2>2, <2>3, <2>4, <2>5 DEF Sending, Idle, Quiet
    <2> QED
      BY <2>1, <2>6 DEF Kept, Phases, CleanInv, Undisturbed,
         Reported, ReportsSuccess, TellsTheAnswer
  <1> QED
    BY <1>2, <1>3, <1>4

LEMMA StartedKept == ASSUME CleanInv, Started PROVE Kept
  <1>0. pc = "started" /\ ~Raised
    BY AtLabel DEF Started
  <1>1. /\ UNCHANGED <<mdb_state, mdb_state_retry, mdb_fast_error_code, mdb_in, mdb_in_last_byte,
                       mdb_out, timer, udrie, txcie, udr, shift, txc, txen, tov, line, told, noise>>
        /\ pc' \in {"swap", "commands"}
    BY DEF Started, NextCommand, mdbVars, stateVars, inVars, txVars, wireVars, lineVars
  <1>2. owed = 0 /\ mdb_state \in {"Send", "Recv", "Recv_End", "Bus_Reset"}
    BY <1>0, OnePhase DEF Idle, Sending, Receiving, Active, Owing, Complete, TimedOut, Breaking,
       Looping
  <1>3. owed' = 1
    <2>1. Answer("MDB_Started").header = "MDB_Started"
      BY DEF Answer
    <2>2. owed' = owed + 1
      BY <1>2, <2>1, CountsAnswer DEF Started
    <2> QED
      BY <1>2, <2>2
  <1>4. Owing' /\ Active'
    BY <1>1, <1>3 DEF Owing, Active, Looping
  <1>5. Undisturbed' /\ Reported'
    BY <1>1 DEF CleanInv, Undisturbed, Reported, ReportsSuccess, TellsTheAnswer
  <1>6. CASE mdb_state = "Send" /\ Sending
    <2>1. Sending'
      BY <1>1, <1>4, <1>6 DEF Sending, LastOut, Answering
    <2> QED
      BY <1>1, <1>5, <1>6, <2>1 DEF Kept, Phases
  <1>7. CASE mdb_state = "Recv" /\ Receiving
    <2>1. ~tov
      BY <1>0, <1>7 DEF Receiving
    <2>2. Receiving'
      BY <1>1, <1>4, <1>7, <2>1 DEF Receiving, LastOut, Answering
    <2> QED
      BY <1>1, <1>5, <1>7, <2>2 DEF Kept, Phases
  <1>8. CASE mdb_state = "Recv_End" /\ Complete
    <2>1. Complete'
      BY <1>0, <1>1, <1>4, <1>8 DEF Complete, Quiet, Looping
    <2> QED
      BY <1>1, <1>5, <1>8, <2>1 DEF Kept, Phases
  <1>9. CASE mdb_state = "Bus_Reset" /\ Breaking
    <2>1. Breaking'
      BY <1>0, <1>1, <1>3, <1>9 DEF Breaking, Looping
    <2> QED
      BY <1>1, <1>5, <1>9, <2>1 DEF Kept, Phases
  <1> QED
    BY <1>2, <1>6, <1>7, <1>8, <1>9, OnePhase

\* The end of mdb_step with an error: only a timeout.
LEMMA TimeoutReported == ASSUME CleanInv, ReportError PROVE Kept
  <1>0. pc = "mdb"
    BY AtLabel DEF ReportError
  <1>1. mdb_state = "Error" /\ TimedOut
    BY OnePhase DEF ReportError, Idle, Sending, Receiving, Complete, Breaking
  <1>2. mdb_fast_error_code = "MDB_Timeout" /\ owed = 1
    BY <1>0, <1>1 DEF TimedOut
  <1>3. /\ UNCHANGED <<mdb_state, mdb_state_retry, mdb_fast_error_code, mdb_in, mdb_in_last_byte,
                       mdb_out, timer, udrie, txcie, udr, shift, txc, txen, tov, line, told, noise>>
        /\ pc' = "reset" /\ master_out_n(Answer("MDB_Timeout"))
    BY <1>2 DEF ReportError, Finish, mdbVars, stateVars, inVars, txVars, wireVars, lineVars
  <1>4. owed' = 0 /\ said'.header = "MDB_Timeout"
    <2>1. Answer("MDB_Timeout").header = "MDB_Timeout" /\ "MDB_Timeout" \in Finals
      BY DEF Answer, Finals, Errors
    <2>2. owed' = owed - 1 /\ said' = Answer("MDB_Timeout")
      BY <1>2, <1>3, <2>1, CountsAnswer
    <2> QED
      BY <1>2, <2>1, <2>2
  <1>5. TimedOut'
    BY <1>1, <1>2, <1>3, <1>4 DEF TimedOut, Quiet
  <1> QED
    BY <1>1, <1>3, <1>4, <1>5 DEF Kept, Phases, CleanInv, Undisturbed,
       Reported, ReportsSuccess, TellsTheAnswer

\* What precedes the checksum, and the checksum.
LEMMA FrontLast ==
  ASSUME NEW S, NEW s \in Seq(S), s # <<>>
  PROVE  /\ Len(s) \in Nat \ {0}
         /\ Front(s) \in Seq(S) /\ Len(Front(s)) = Len(s) - 1
         /\ \A i \in 1..(Len(s) - 1) : Front(s)[i] = s[i]
         /\ Last(s) = s[Len(s)]
  <1>1. Len(s) \in Nat /\ Len(s) # 0
    BY LenProperties, EmptySeq
  <1>2. /\ 1 \in Int /\ Len(s) - 1 \in Int
        /\ \A i \in 1..(Len(s) - 1) : s[i] \in S
    BY <1>1
  <1>3. Front(s) = SubSeq(s, 1, Len(s) - 1)
    BY DEF Front
  <1>4. Front(s) \in Seq(S) /\ Len(Front(s)) = Len(s) - 1
    <2>1. /\ Front(s) \in Seq(S)
          /\ Len(Front(s)) = IF 1 <= Len(s) - 1 THEN (Len(s) - 1) - 1 + 1 ELSE 0
      BY <1>2, <1>3, SubSeqProperties
    <2>2. \A n \in Nat : n # 0 => (IF 1 <= n - 1 THEN (n - 1) - 1 + 1 ELSE 0) = n - 1
      OBVIOUS
    <2>3. (IF 1 <= Len(s) - 1 THEN (Len(s) - 1) - 1 + 1 ELSE 0) = Len(s) - 1
      BY <1>1, <2>2
    <2> QED
      BY <2>1, <2>3
  <1>5. \A i \in 1..(Len(s) - 1) : Front(s)[i] = s[i]
    BY <1>1, <1>3
  <1> QED
    BY <1>1, <1>4, <1>5 DEF Last

\* An empty rest means a block of one byte.
LEMMA OnlyLast ==
  ASSUME CleanInv, told # <<>>, mdb_in = Front(told)
  PROVE  mdb_in = <<>> <=> Len(told) = 1
  <1>1. told \in Seq(0..255) /\ mdb_in \in Seq(0..255)
    BY DEF CleanInv, GateTypeOK
  <1>2. Len(told) \in Nat /\ Len(mdb_in) = Len(told) - 1
    BY <1>1, FrontLast
  <1>3. mdb_in = <<>> <=> Len(mdb_in) = 0
    BY <1>1, EmptySeq
  <1> QED
    BY <1>2, <1>3

\* mdb_step after a complete block: what it knows.
LEMMA BlockComplete ==
  ASSUME CleanInv, Received
  PROVE  /\ pc = "mdb" /\ mdb_state = "Recv_End" /\ Complete
         /\ owed = 1 /\ shift = None /\ told # <<>> /\ told \in Blocks
         /\ mdb_in = Front(told) /\ mdb_in_last_byte = Last(told)
  <1>1. pc = "mdb" /\ mdb_state = "Recv_End"
    BY AtLabel DEF Received
  <1>2. Complete
    BY <1>1, OnePhase
  <1> QED
    BY <1>1, <1>2 DEF Complete, Owing

LEMMA StatusKept == ASSUME CleanInv, ReportStatus PROVE Kept
  <1>1. /\ pc = "mdb" /\ mdb_state = "Recv_End" /\ Complete
        /\ owed = 1 /\ shift = None /\ told # <<>> /\ told \in Blocks
        /\ mdb_in = Front(told) /\ mdb_in_last_byte = Last(told)
    BY BlockComplete DEF ReportStatus
  <1>2. mdb_in = <<>> /\ Len(told) = 1
    BY <1>1, OnlyLast DEF ReportStatus
  <1> DEFINE h == CASE mdb_in_last_byte = MDB_ACK -> "MDB_Success"
                    [] mdb_in_last_byte = MDB_NAK -> "MDB_NAK"
                    [] OTHER -> "MDB_Invalid_End"
  <1>3. /\ UNCHANGED <<mdb_state, mdb_state_retry, mdb_fast_error_code, mdb_in, mdb_in_last_byte,
                       mdb_out, timer, udrie, txcie, udr, shift, txc, txen, tov, line, told, noise>>
        /\ pc' = "reset" /\ master_out_n(Answer(h))
    BY DEF ReportStatus, Finish, mdbVars, stateVars, inVars, txVars, wireVars, lineVars
  <1>4. /\ h \in Finals /\ Answer(h).header = h /\ Answer(h).data = <<>>
        /\ h = "MDB_Success" => mdb_in_last_byte = MDB_ACK
    BY DEF Finals, Answer, MDB_ACK, MDB_NAK
  <1> HIDE DEF h
  <1>5. owed' = 0 /\ said' = Answer(h)
    <2>1. owed' = owed - 1 /\ said' = Answer(h)
      BY <1>1, <1>3, <1>4, CountsAnswer
    <2> QED
      BY <1>1, <2>1
  <1>6. Complete'
    BY <1>1, <1>3, <1>5 DEF Complete, Quiet
  <1>7. Reported'
    BY <1>1, <1>2, <1>3, <1>4, <1>5 DEF Reported, ReportsSuccess, TellsTheAnswer
  <1> QED
    BY <1>1, <1>3, <1>6, <1>7 DEF Kept, Phases, CleanInv, Undisturbed

LEMMA DataKept == ASSUME CleanInv, ReportData PROVE Kept
  <1>0. Received /\ mdb_in # <<>>
    BY DEF ReportData
  <1>1. /\ pc = "mdb" /\ mdb_state = "Recv_End" /\ Complete
        /\ owed = 1 /\ shift = None /\ told # <<>> /\ told \in Blocks
        /\ mdb_in = Front(told) /\ mdb_in_last_byte = Last(told)
    BY <1>0, BlockComplete
  <1>2. Len(told) # 1 /\ Last(told) = memsum(Front(told))
    <2>1. Len(told) # 1
      BY <1>0, <1>1, OnlyLast
    <2>2. mdb_in_last_byte = mdb_in_checksum
      BY DEF ReportData
    <2> QED
      BY <1>1, <2>1, <2>2 DEF mdb_in_checksum
  <1>3. /\ UNCHANGED <<mdb_state, mdb_state_retry, mdb_fast_error_code, mdb_in, mdb_in_last_byte,
                       mdb_out, timer, udrie, txcie, txc, txen, tov, line, told, noise>>
        /\ pc' = "reset" /\ master_out_n([header |-> "MDB_Success", data |-> mdb_in])
        /\ Transmit("ACK")
    BY DEF ReportData, Signal, Finish, mdbVars, stateVars, inVars, txVars
  <1>4. shift' = "ACK" /\ UNCHANGED udr
    BY <1>1, <1>3 DEF Complete, Quiet, Transmit, uart_send_ready
  <1>5. owed' = 0 /\ said' = [header |-> "MDB_Success", data |-> mdb_in]
    <2>1. "MDB_Success" \in Finals
      BY DEF Finals
    <2>2. owed' = owed - 1 /\ said' = [header |-> "MDB_Success", data |-> mdb_in]
      BY <1>1, <1>3, <2>1, CountsAnswer
    <2> QED
      BY <1>1, <2>2
  <1>6. Complete'
    BY <1>1, <1>3, <1>4, <1>5 DEF Complete, Quiet
  <1>7. Reported'
    BY <1>1, <1>2, <1>3, <1>5 DEF Reported, ReportsSuccess, TellsTheAnswer
  <1> QED
    BY <1>1, <1>3, <1>6, <1>7 DEF Kept, Phases, CleanInv, Undisturbed

\* A wrong checksum is the first one, and is answered by RET.
LEMMA AsksAgain == ASSUME CleanInv, BadChecksum PROVE Repeats'
  <1>1. ~mdb_state_retry
    BY DEF CleanInv, Undisturbed
  <1> QED
    BY <1>1 DEF BadChecksum, Signal, Repeats

LEMMA ResetKept == ASSUME CleanInv, ResetBegins \/ ResetEnds PROVE Kept
  <1>1. CASE ResetBegins
    <2>1. pc = "reset"
      BY <1>1, AtLabel DEF ResetBegins
    <2>2. /\ UNCHANGED <<owed, mdb_state, mdb_state_retry, udrie, txcie, udr, shift, txen, tov,
                         line, noise>>
          /\ pc' = "idle" /\ timer' = FALSE /\ mdb_fast_error_code' = None /\ mdb_in' = <<>>
      BY <1>1 DEF ResetBegins, MdbReset, timer0_stop, answerVars, stateVars, txVars, wireVars,
         lineVars
    <2>3. Undisturbed' /\ Reported'
      BY <2>2 DEF CleanInv, Undisturbed, Reported, ReportsSuccess, TellsTheAnswer
    <2>4. CASE mdb_state = "Recv_End" /\ Complete
      <3>1. Complete'
        BY <2>1, <2>2, <2>4 DEF Complete, Quiet
      <3> QED
        BY <2>2, <2>3, <2>4, <3>1 DEF Kept, Phases
    <2>5. CASE mdb_state = "Error" /\ TimedOut
      <3>1. TimedOut'
        BY <2>1, <2>2, <2>5 DEF TimedOut, Quiet
      <3> QED
        BY <2>2, <2>3, <2>5, <3>1 DEF Kept, Phases
    <2> QED
      BY <2>1, <2>4, <2>5, OnePhase DEF Idle, Sending, Receiving, Active, Breaking, Looping
  <1>2. CASE ResetEnds
    <2>1. pc = "idle"
      BY <1>2, AtLabel DEF ResetEnds
    <2>2. /\ UNCHANGED <<owed, mdb_fast_error_code, mdb_in, timer, udrie, txcie, udr, shift,
                         txen, tov, line, noise>>
          /\ pc' = "twi" /\ mdb_state' = "Idle" /\ mdb_state_retry' = FALSE
      BY <1>2 DEF ResetEnds, answerVars, inVars, txVars, wireVars, lineVars
    <2>3. /\ owed = 0 /\ mdb_fast_error_code = None /\ mdb_in = <<>> /\ ~timer
          /\ Quiet /\ shift \in {None, "ACK"} /\ txen
      BY <2>1, OnePhase DEF Idle, Sending, Receiving, Active, Complete, TimedOut, Breaking,
         Looping
    <2>4. Idle'
      BY <2>2, <2>3 DEF Idle, Quiet, Looping
    <2> QED
      BY <2>2, <2>4 DEF Kept, Phases, CleanInv, Undisturbed,
         Reported, ReportsSuccess, TellsTheAnswer
  <1> QED
    BY <1>1, <1>2

LEMMA TimerKept == ASSUME CleanInv, TIMER0_OVF PROVE Kept
  <1>0. timer /\ tov
    BY DEF TIMER0_OVF
  <1>1. /\ UNCHANGED <<pc, owed, said, mdb_state_retry, mdb_in, udrie, txcie, udr, shift,
                       line, noise, told>>
        /\ tov' = FALSE /\ timer' = FALSE
    BY DEF TIMER0_OVF, timer0_stop, mainVars, answerVars, inVars, txVars, lineVars
  <1>2. Undisturbed' /\ Reported'
    BY <1>1 DEF CleanInv, Undisturbed, Reported, ReportsSuccess, TellsTheAnswer
  <1>3. CASE mdb_state = "Recv" /\ Receiving
    <2>1. Active /\ pc = "twi" /\ line = <<>> /\ Answering /\ ~udrie /\ ~txcie /\ txen
      BY <1>0, <1>3 DEF Receiving
    <2>2. /\ mdb_state' = "Error" /\ mdb_fast_error_code' = "MDB_Timeout" /\ UNCHANGED txen
      BY <1>3 DEF TIMER0_OVF, mdb_fast_error
    <2>3. TimedOut'
      BY <1>1, <2>1, <2>2 DEF TimedOut, Quiet, Active, Owing, Answering, Looping
    <2> QED
      BY <1>2, <2>2, <2>3 DEF Kept, Phases
  <1>4. CASE mdb_state = "Bus_Reset" /\ Breaking
    <2>1. UNCHANGED <<mdb_state, mdb_fast_error_code>>
      BY <1>4 DEF TIMER0_OVF
    <2>2. Breaking'
      BY <1>1, <1>4, <2>1 DEF Breaking
    <2> QED
      BY <1>2, <1>4, <2>1, <2>2 DEF Kept, Phases
  <1> QED
    BY <1>0, <1>3, <1>4, OnePhase DEF Idle, Sending, Complete, TimedOut, Quiet

\* Nothing arrives but what the peripheral answered, and only when it is waited for.
LEMMA FrameArrives ==
  ASSUME CleanInv, line # <<>>, CaughtUp \/ Head(line).stray
  PROVE  /\ mdb_state = "Recv" /\ Receiving /\ Answering /\ ~tov
         /\ told \in Seq(0..255) /\ Len(told) \in Nat /\ mdb_in \in Seq(0..255)
         /\ Len(mdb_in) \in Nat /\ Len(mdb_in) < Len(told)
         /\ line \in Seq(Frame) /\ Len(line) = Len(told) - Len(mdb_in)
         /\ Head(line) = Frames(told)[Len(mdb_in) + 1]
  <1>1. /\ told \in Seq(0..255) /\ mdb_in \in Seq(0..255) /\ line \in Seq(Frame)
        /\ Len(told) \in Nat /\ Len(mdb_in) \in Nat /\ Len(line) \in Nat
    <2>1. told \in Seq(0..255) /\ mdb_in \in Seq(0..255) /\ line \in Seq(Frame)
      BY DEF CleanInv, GateTypeOK
    <2> QED
      BY <2>1, LenProperties
  <1>2. Len(line) # 0 /\ Head(line) = line[1]
    BY <1>1, EmptySeq
  <1>3. 1 \in 1..Len(line)
    BY <1>1, <1>2
  <1>4. ~Head(line).stray
    BY <1>2, <1>3 DEF CleanInv, Undisturbed
  <1>5. CaughtUp
    BY <1>4
  <1>6. mdb_state = "Recv" /\ Receiving /\ Answering /\ ~tov
    BY <1>5, OnePhase DEF CaughtUp, Idle, Sending, Receiving, LastOut, Complete, TimedOut, Quiet,
       Breaking
  <1>7. Len(line) = Len(told) - Len(mdb_in) /\ line[1] = Frames(told)[Len(mdb_in) + 1]
    BY <1>3, <1>6 DEF Answering
  <1>8. Len(mdb_in) < Len(told)
    BY <1>1, <1>2, <1>7
  <1> QED
    BY <1>1, <1>2, <1>6, <1>7, <1>8

LEMMA ReceiveKept == ASSUME CleanLine, CleanInv, USART_RX PROVE Kept
  <1>1. /\ mdb_state = "Recv" /\ Receiving /\ Answering /\ ~tov
        /\ told \in Seq(0..255) /\ Len(told) \in Nat /\ mdb_in \in Seq(0..255)
        /\ Len(mdb_in) \in Nat /\ Len(mdb_in) < Len(told)
        /\ line \in Seq(Frame) /\ Len(line) = Len(told) - Len(mdb_in)
        /\ Head(line) = Frames(told)[Len(mdb_in) + 1]
    BY FrameArrives DEF USART_RX
  <1>2. /\ UNCHANGED <<pc, owed, said, mdb_state_retry, udrie, txcie, udr, shift, txen, told,
                       tov, noise>>
        /\ line # <<>> /\ line' = Tail(line) /\ Accept(Head(line))
    BY DEF USART_RX, mainVars, answerVars, txVars
  <1>3. Len(mdb_in) + 1 \in 1..Len(told)
    BY <1>1
  <1>4. /\ ~Head(line).broken /\ Head(line).byte = told[Len(mdb_in) + 1]
        /\ Head(line).last <=> Len(mdb_in) + 1 = Len(told)
    BY <1>1, <1>3, FramesShape
  <1>5. Active /\ timer /\ txen /\ ~udrie /\ ~txcie /\ mdb_fast_error_code = None
    BY <1>1 DEF Receiving
  <1>6. /\ Len(line') = Len(told) - Len(mdb_in) - 1 /\ Len(line') \in Nat /\ Len(line) \in Nat
        /\ line' \in Seq(Frame)
        /\ \A i \in 1..Len(line') : i + 1 \in 1..Len(line) /\ line'[i] = line[i + 1]
    <2>1. Tail(line) \in Seq(Frame) /\ Len(Tail(line)) = Len(line) - 1
          /\ \A i \in 1..Len(Tail(line)) : Tail(line)[i] = line[i + 1]
      BY <1>1, <1>2, HeadTailProperties
    <2>2. Len(line) \in Nat /\ Len(Tail(line)) \in Nat
      BY <1>1, <2>1, LenProperties
    <2>3. \A m, n \in Nat : m = n - 1 => \A i \in 1..m : i + 1 \in 1..n
      OBVIOUS
    <2>4. \A i \in 1..Len(Tail(line)) : i + 1 \in 1..Len(line)
      BY <2>1, <2>2, <2>3
    <2> QED
      BY <1>1, <1>2, <2>1, <2>2, <2>4
  <1>7. Undisturbed'
    <2>1. ASSUME NEW i \in 1..Len(line') PROVE ~line'[i].stray /\ ~line'[i].broken
      <3>1. i + 1 \in 1..Len(line) /\ line'[i] = line[i + 1]
        BY <1>6
      <3> QED
        BY <3>1 DEF CleanInv, Undisturbed
    <2> QED
      BY <1>2, <2>1 DEF CleanInv, Undisturbed
  <1>8. Reported'
    BY <1>2 DEF CleanInv, Reported, ReportsSuccess, TellsTheAnswer
  <1>9. CASE Head(line).last
    <2>1. /\ mdb_in_last_byte' = told[Len(told)] /\ mdb_state' = "Recv_End" /\ timer' = FALSE
          /\ UNCHANGED <<mdb_fast_error_code, mdb_in>>
      BY <1>1, <1>2, <1>4, <1>9 DEF Accept, timer0_stop
    <2>2. line' = <<>>
      <3>1. Len(line') = 0
        BY <1>1, <1>4, <1>6, <1>9
      <3> QED
        BY <1>6, <3>1, EmptySeq
    <2>3. told # <<>> /\ mdb_in = Front(told) /\ told[Len(told)] = Last(told)
      <3>1. told # <<>>
        BY <1>1
      <3>2. Len(mdb_in) = Len(told) - 1
        BY <1>1, <1>4, <1>9
      <3>3. /\ Front(told) \in Seq(0..255) /\ Len(Front(told)) = Len(told) - 1
            /\ \A i \in 1..(Len(told) - 1) : Front(told)[i] = told[i]
            /\ Last(told) = told[Len(told)]
        BY <1>1, <3>1, FrontLast, ZenonT(40)
      <3>4. \A i \in 1..Len(mdb_in) : mdb_in[i] = Front(told)[i]
        BY <1>1, <3>2, <3>3 DEF Answering
      <3>5. mdb_in = Front(told)
        <4>1. mdb_in \in Seq(0..255) /\ Front(told) \in Seq(0..255)
          BY <1>1, <3>3
        <4>2. Len(mdb_in) = Len(Front(told))
          BY <3>2, <3>3
        <4> QED
          BY ONLY <3>4, <4>1, <4>2, SeqEqual
      <3> QED
        BY <3>1, <3>3, <3>5
    <2>4. pc \in Looping \cup {"started"} /\ Owing
      BY <1>5 DEF Active
    <2>5. /\ pc \notin {"reset", "idle"} /\ shift = None /\ udr = None /\ told \in Blocks
      BY <1>1, <2>4 DEF Answering, Looping
    <2>6. Complete'
      BY <1>1, <1>2, <1>5, <2>1, <2>2, <2>3, <2>4, <2>5 DEF Complete, Quiet, Owing
    <2> QED
      BY <1>7, <1>8, <2>1, <2>6 DEF Kept, Phases
  <1>10. CASE ~Head(line).last
    <2>1. Len(mdb_in) < PacketSize /\ Len(mdb_in) # PacketSize /\ Len(mdb_in) + 1 < Len(told)
      <3>1. Len(mdb_in) + 1 < Len(told)
        BY <1>1, <1>4, <1>10
      <3>2. told \in Blocks /\ Len(told) <= PacketSize + 1 /\ PacketSize \in Nat
        BY <1>1, GateAssumption DEF Answering, CleanLine
      <3> QED
        BY <1>1, <3>1, <3>2
    <2>2. /\ mdb_in' = Append(mdb_in, told[Len(mdb_in) + 1]) /\ timer' = TRUE
          /\ UNCHANGED <<mdb_state, mdb_fast_error_code>>
      BY <1>1, <1>2, <1>4, <1>10, <2>1 DEF Accept, timer0_set
    <2>3. /\ Len(mdb_in') = Len(mdb_in) + 1
          /\ \A i \in 1..Len(mdb_in') : mdb_in'[i] = told[i]
      <3>1. told[Len(mdb_in) + 1] \in 0..255
        BY <1>1, <1>3, ElementOfSeq
      <3>2. /\ Len(mdb_in') = Len(mdb_in) + 1 /\ mdb_in'[Len(mdb_in) + 1] = told[Len(mdb_in) + 1]
            /\ \A i \in 1..Len(mdb_in) : mdb_in'[i] = mdb_in[i]
        BY <1>1, <2>2, <3>1, AppendProperties
      <3>3. \A n \in Nat : \A i \in 1..(n + 1) : i \in 1..n \/ i = n + 1
        OBVIOUS
      <3>4. \A i \in 1..Len(mdb_in) : mdb_in[i] = told[i]
        BY <1>1 DEF Answering
      <3>5. \A i \in 1..(Len(mdb_in) + 1) : mdb_in'[i] = told[i]
        BY <1>1, <3>2, <3>3, <3>4
      <3> QED
        BY <3>2, <3>5
    <2>4. Answering'
      <3>1. ASSUME NEW i \in 1..Len(line') PROVE line'[i] = Frames(told)[Len(mdb_in') + i]
        <4>1. i + 1 \in 1..Len(line) /\ line'[i] = line[i + 1]
          BY <1>6
        <4>2. Len(mdb_in) + (i + 1) = Len(mdb_in') + i
          BY <1>1, <2>3
        <4> QED
          BY <1>1, <4>1, <4>2 DEF Answering
      <3>2. Len(line') = Len(told) - Len(mdb_in') /\ Len(mdb_in') < Len(told)
        BY <1>1, <1>6, <2>1, <2>3
      <3> QED
        BY <1>1, <1>2, <2>3, <3>1, <3>2 DEF Answering
    <2>5. Receiving'
      BY <1>1, <1>2, <1>5, <2>2, <2>4 DEF Receiving, Active, Owing
    <2> QED
      BY <1>1, <1>7, <1>8, <2>2, <2>5 DEF Kept, Phases
  <1> QED
    BY <1>9, <1>10

LEMMA NextByteKept == ASSUME CleanInv, USART_UDRE PROVE Kept
  <1>0. udrie /\ udr = None
    BY DEF USART_UDRE, uart_send_ready
  <1>1. mdb_state = "Send" /\ Sending
    BY <1>0, OnePhase DEF Idle, Receiving, Complete, TimedOut, Breaking, Quiet
  <1>2. /\ Active /\ timer /\ ~tov /\ txen /\ ~txcie
        /\ mdb_fast_error_code = None /\ mdb_in = <<>>
        /\ mdb_out.used \in 1..mdb_out.length /\ mdb_out.used < mdb_out.length
        /\ shift \in {"ACK", "addr", "byte"} /\ line = <<>>
    BY <1>0, <1>1 DEF Sending
  <1>3. mdb_out \in [used : 0..PacketSize, length : 0..PacketSize]
        /\ mdb_out.used \in Nat /\ mdb_out.length \in Nat
    <2>1. mdb_out \in [used : 0..PacketSize, length : 0..PacketSize] /\ PacketSize \in Nat
      BY GateAssumption DEF CleanInv, GateTypeOK
    <2> QED
      BY <2>1
  <1>4. ~SendOverflow
    BY <1>2, <1>3 DEF SendOverflow
  <1> DEFINE isLast == mdb_out.used + 1 = mdb_out.length
  <1>5. /\ UNCHANGED <<pc, owed, said, mdb_state, mdb_state_retry, mdb_fast_error_code, mdb_in,
                       txen, tov, line, told, noise>>
        /\ mdb_out' = [mdb_out EXCEPT !.used = mdb_out.used + 1] /\ timer' = TRUE
        /\ udrie' = ~isLast /\ txcie' = (txcie \/ isLast)
        /\ Transmit(IF isLast THEN "last" ELSE "byte")
    BY <1>4 DEF USART_UDRE, timer0_set, mainVars, answerVars, inVars, lineVars
  <1>6. shift' = shift /\ udr' = IF isLast THEN "last" ELSE "byte"
    BY <1>0, <1>2, <1>5 DEF Transmit, uart_send_ready, None
  <1>7. mdb_out'.length = mdb_out.length /\ mdb_out'.used = mdb_out.used + 1
    BY <1>3, <1>5
  <1>8. mdb_out'.used \in 1..mdb_out'.length /\ (~isLast => mdb_out'.used < mdb_out'.length)
    BY <1>2, <1>3, <1>7
  <1>9. Active'
    BY <1>2, <1>5 DEF Active, Owing
  <1>10. Sending'
    <2>1. CASE isLast
      <3>1. LastOut'
        BY <1>2, <1>5, <1>6, <2>1 DEF LastOut
      <3> QED
        BY <1>2, <1>5, <1>8, <1>9, <2>1, <3>1 DEF Sending
    <2>2. CASE ~isLast
      BY <1>2, <1>5, <1>6, <1>8, <1>9, <2>2 DEF Sending
    <2> QED
      BY <2>1, <2>2
  <1> QED
    BY <1>1, <1>5, <1>10 DEF Kept, Phases, CleanInv, Undisturbed,
       Reported, ReportsSuccess, TellsTheAnswer

LEMMA SentKept == ASSUME CleanInv, USART_TX PROVE Kept
  <1>0. txcie /\ txc
    BY DEF USART_TX
  <1>1. mdb_state = "Send" /\ Sending
    BY <1>0, OnePhase DEF Idle, Receiving, Complete, TimedOut, Breaking, Quiet
  <1>2. /\ Active /\ ~tov /\ txen /\ ~udrie
        /\ mdb_fast_error_code = None /\ mdb_in = <<>>
        /\ LastOut \/ Answering
    BY <1>0, <1>1 DEF Sending
  <1>3. /\ UNCHANGED <<pc, owed, said, mdb_state_retry, mdb_fast_error_code, udrie, udr, shift,
                       txen, tov, line, told, noise>>
        /\ txc' = FALSE /\ txcie' = FALSE /\ timer' = TRUE /\ mdb_state' = "Recv"
        /\ mdb_in' = <<>>
    BY DEF USART_TX, mdb_start_receive, timer0_set, mainVars, answerVars, lineVars
  <1>4. Active' /\ (LastOut' <=> LastOut)
    BY <1>2, <1>3 DEF Active, Owing, LastOut
  <1>5. Answering' <=> Answering
    <2>1. UNCHANGED mdb_in
      BY <1>2, <1>3
    <2> QED
      BY <1>3, <2>1 DEF Answering
  <1>6. Receiving'
    BY <1>2, <1>3, <1>4, <1>5 DEF Receiving
  <1> QED
    BY <1>3, <1>6 DEF Kept, Phases, CleanInv, Undisturbed, Reported, ReportsSuccess, TellsTheAnswer

\* The end of a command, and the answer to it.
LEMMA LastLeaves ==
  ASSUME CleanInv, LastOut, FrameSent, txen, mdb_in = <<>>, UNCHANGED mdb_in
  PROVE  /\ (LastOut' /\ line' = <<>>) \/ (Answering' /\ txc')
         /\ \A i \in 1..Len(line') : ~line'[i].stray /\ ~line'[i].broken
  <1>0. line = <<>> /\ Len(<<>>) = 0 /\ line \in Seq(Frame)
    BY DEF LastOut, CleanInv, GateTypeOK
  <1>1. CASE shift = "last" /\ udr = None
    <2>1. shift' = None /\ udr' = None /\ txc' = TRUE
      BY <1>1 DEF FrameSent
    <2>2. PICK block \in Blocks : told' = block /\ line' = line \o Frames(block)
      BY <1>1 DEF FrameSent
    <2>3. block \in Seq(0..255)
      BY WireAssumption
    <2>4. /\ Frames(block) \in Seq(Frame) /\ Len(Frames(block)) = Len(block)
          /\ \A i \in 1..Len(block) : ~Frames(block)[i].broken /\ ~Frames(block)[i].stray
      BY <2>3, FramesShape
    <2>5. line' = Frames(block)
      BY <1>0, <2>2, <2>4, ConcatEmptySeq
    <2>6. Len(block) \in Nat /\ (block # <<>> => Len(block) > 0)
      <3>1. Len(block) \in Nat /\ (block # <<>> => Len(block) # 0)
        BY <2>3, LenProperties, EmptySeq
      <3> QED
        BY <3>1
    <2>7. Len(mdb_in') = 0
      BY <1>0
    <2>8. Len(line') = Len(told') - Len(mdb_in') /\ (told' # <<>> => Len(mdb_in') < Len(told'))
      BY <2>2, <2>4, <2>5, <2>6, <2>7
    <2>9. /\ \A i \in 1..Len(mdb_in') : mdb_in'[i] = told'[i]
          /\ \A i \in 1..Len(line') : line'[i] = Frames(told')[Len(mdb_in') + i]
      <3>1. \A i \in 1..Len(line') : i = Len(mdb_in') + i
        BY <2>4, <2>5, <2>6, <2>7
      <3> QED
        BY <2>2, <2>5, <2>7, <3>1
    <2>10. Answering'
      BY <2>1, <2>2, <2>8, <2>9 DEF Answering
    <2> QED
      BY <2>1, <2>4, <2>5, <2>10
  <1>2. CASE udr = "last" /\ shift \in {"ACK", "addr", "byte"}
    <2>1. shift' = "last" /\ udr' = None /\ UNCHANGED <<told, line>>
      BY <1>2 DEF FrameSent, None
    <2>2. LastOut' /\ line' = <<>>
      BY <1>0, <2>1 DEF LastOut
    <2>3. \A i \in 1..Len(line') : ~line'[i].stray /\ ~line'[i].broken
      BY <1>0, <2>2
    <2> QED
      BY <2>2, <2>3
  <1> QED
    BY <1>1, <1>2 DEF LastOut

LEMMA ShiftsOutKept == ASSUME CleanInv, ShiftsOut PROVE Kept
  <1>0. FrameSent /\ shift # None /\ ~(udrie /\ udr = None)
    BY DEF ShiftsOut, FrameSent, uart_send_ready
  <1>1. /\ UNCHANGED <<pc, owed, said, mdb_state, mdb_state_retry, mdb_fast_error_code, mdb_in,
                       mdb_in_last_byte, mdb_out, timer, udrie, txcie, txen, tov, noise>>
    BY DEF ShiftsOut, FrameSent, mainVars, answerVars, mdbVars, stateVars, inVars, txVars
  <1>2. CASE shift = "ACK" /\ udr = None /\ UNCHANGED <<told, line>>
    <2>1. shift' = None /\ udr' = None
      BY <1>0, <1>2 DEF FrameSent
    <2>2. Undisturbed' /\ Reported'
      BY <1>1, <1>2 DEF CleanInv, Undisturbed, Reported, ReportsSuccess, TellsTheAnswer
    <2>3. CASE mdb_state = "Idle" /\ Idle
      <3>1. Idle'
        BY <1>1, <1>2, <2>1, <2>3 DEF Idle, Quiet
      <3> QED
        BY <1>1, <2>2, <2>3, <3>1 DEF Kept, Phases
    <2>4. CASE mdb_state = "Recv_End" /\ Complete
      <3>1. Complete'
        BY <1>1, <1>2, <2>1, <2>4 DEF Complete, Quiet, Owing
      <3> QED
        BY <1>1, <2>2, <2>4, <3>1 DEF Kept, Phases
    <2>5. CASE mdb_state = "Bus_Reset" /\ Breaking
      <3>1. Breaking'
        BY <1>1, <1>2, <2>1, <2>5 DEF Breaking
      <3> QED
        BY <1>1, <2>2, <2>5, <3>1 DEF Kept, Phases
    <2> QED
      BY <1>0, <1>2, <2>3, <2>4, <2>5, OnePhase DEF Sending, Receiving, LastOut, Answering,
         TimedOut, None
  <1>3. CASE mdb_state \in {"Send", "Recv"} /\ LastOut
    <2>1. /\ Active /\ timer /\ ~tov /\ txen /\ mdb_fast_error_code = None /\ mdb_in = <<>>
          /\ ~udrie
      BY <1>3, OnePhase DEF Sending, Receiving, LastOut, Answering, None
    <2>2. /\ (LastOut' /\ line' = <<>>) \/ (Answering' /\ txc')
          /\ \A i \in 1..Len(line') : ~line'[i].stray /\ ~line'[i].broken
      BY <1>0, <1>1, <1>3, <2>1, LastLeaves
    <2>3. Undisturbed'
      BY <1>1, <2>2 DEF CleanInv, Undisturbed
    <2>4. Reported' /\ Active'
      BY <1>1, <2>1 DEF Active, Owing, Reported, ReportsSuccess, TellsTheAnswer, Looping
    <2>5. CASE mdb_state = "Send"
      <3>1. txcie /\ mdb_out.used \in 1..mdb_out.length
        BY <1>3, <2>1, <2>5, OnePhase DEF Sending
      <3>2. Sending'
        BY <1>1, <2>1, <2>2, <2>4, <3>1 DEF Sending
      <3> QED
        BY <1>1, <2>3, <2>4, <2>5, <3>2 DEF Kept, Phases
    <2>6. CASE mdb_state = "Recv"
      <3>1. ~txcie
        BY <2>6, OnePhase DEF Receiving
      <3>2. Receiving'
        BY <1>1, <2>1, <2>2, <2>4, <3>1 DEF Receiving
      <3> QED
        BY <1>1, <2>3, <2>4, <2>6, <3>2 DEF Kept, Phases
    <2> QED
      BY <1>3, <2>5, <2>6
  <1>4. CASE mdb_state = "Send" /\ Sending /\ udrie
    <2>1. /\ Active /\ timer /\ ~tov /\ txen /\ ~txcie
          /\ mdb_fast_error_code = None /\ mdb_in = <<>>
          /\ mdb_out.used \in 1..mdb_out.length /\ mdb_out.used < mdb_out.length
          /\ shift \in {"ACK", "addr", "byte"} /\ udr \in {"addr", "byte"} /\ line = <<>>
      BY <1>0, <1>4 DEF Sending
    <2>2. shift' = udr /\ udr' = None /\ UNCHANGED <<told, line>>
      BY <1>0, <2>1 DEF FrameSent
    <2>3. Active'
      BY <1>1, <2>1 DEF Active, Owing
    <2>4. Sending'
      BY <1>1, <1>4, <2>1, <2>2, <2>3 DEF Sending
    <2> QED
      BY <1>1, <1>4, <2>2, <2>4 DEF Kept, Phases, CleanInv, Undisturbed,
         Reported, ReportsSuccess, TellsTheAnswer
  <1>5. /\ mdb_state = "Send" => LastOut \/ udrie
        /\ mdb_state = "Recv" => LastOut
        /\ mdb_state = "Error" => FALSE
        /\ mdb_state \in {"Idle", "Recv_End", "Bus_Reset"} => shift = "ACK" /\ udr = None
    BY <1>0, OnePhase DEF Idle, Sending, Receiving, Answering, Complete, TimedOut, Breaking, Quiet
  <1>6. shift = "ACK" => UNCHANGED <<told, line>>
    BY <1>0 DEF FrameSent
  <1> QED
    BY <1>2, <1>3, <1>4, <1>5, <1>6, OnePhase

LEMMA TimeIsUpKept == ASSUME CleanLine, CleanInv, TimeIsUp PROVE Kept
  <1>0. /\ timer /\ pc = "twi" /\ ~Raised /\ ~tov
        /\ txen => (shift = None /\ udr = None)
    BY DEF TimeIsUp, Overflow
  <1>1. UNCHANGED <<pc, owed, said, mdb_state, mdb_state_retry, mdb_fast_error_code, mdb_in,
                    mdb_out, timer, udrie, txcie, udr, shift, txc, txen, told, noise>>
        /\ tov' = TRUE
    BY DEF TimeIsUp, Overflow, mainVars, answerVars, mdbVars, stateVars, inVars, txVars
  <1>2. line = <<>> /\ line' = <<>>
    <2>1. line \in Seq(Frame) /\ Len(line) \in Nat
      <3>1. line \in Seq(Frame)
        BY DEF CleanInv, GateTypeOK
      <3> QED
        BY <3>1, LenProperties
    <2>2. \A i \in 1..Len(line) : line[i].stray /\ ~line[i].stray
      BY <2>1 DEF TimeIsUp, Overflow, CleanLine, CleanInv, Undisturbed
    <2>3. ~(Len(line) > 0)
      BY <2>1, <2>2
    <2>4. Len(line) = 0
      BY <2>1, <2>3
    <2>5. line = <<>>
      BY <2>1, <2>4, EmptySeq
    <2>6. line' = [i \in 1..0 |-> [line[i] EXCEPT !.stray = TRUE]]
      BY <2>1, <2>4 DEF TimeIsUp, Overflow
    <2>7. line' \in Seq(Frame) /\ Len(line') = 0
      BY <2>6
    <2> QED
      BY <2>5, <2>7, EmptySeq
  <1>3. Undisturbed' /\ Reported'
    BY <1>1, <1>2 DEF CleanInv, Undisturbed, Reported, ReportsSuccess, TellsTheAnswer
  <1>4. CASE mdb_state = "Recv" /\ Receiving
    <2>1. Active /\ txen /\ ~udrie /\ ~txcie /\ mdb_fast_error_code = None /\ Answering
      BY <1>0, <1>4 DEF Receiving, LastOut, None
    <2>2. Active' /\ Answering'
      BY <1>1, <1>2, <2>1 DEF Active, Owing, Answering
    <2>3. Receiving'
      BY <1>0, <1>1, <1>2, <2>1, <2>2 DEF Receiving
    <2> QED
      BY <1>1, <1>3, <1>4, <2>3 DEF Kept, Phases
  <1>5. CASE mdb_state = "Bus_Reset" /\ Breaking
    <2>1. Breaking'
      BY <1>0, <1>1, <1>2, <1>5 DEF Breaking
    <2> QED
      BY <1>1, <1>3, <1>5, <2>1 DEF Kept, Phases
  <1>6. ~(mdb_state = "Send" /\ Sending)
    BY <1>0 DEF Sending, LastOut, Raised, None
  <1>7. ~(mdb_state = "Idle" /\ Idle) /\ ~Complete /\ ~TimedOut
    BY <1>0 DEF Idle, Complete, TimedOut
  <1> QED
    BY <1>4, <1>5, <1>6, <1>7, OnePhase

LEMMA NoNoise == ASSUME CleanLine, CleanInv PROVE ~Disturbed
  BY DEF CleanLine, CleanInv, Undisturbed, Disturbed, Noise

LEMMA CleanStep == ASSUME CleanLine, CleanInv, [Next]_vars PROVE CleanInv' \/ Repeats'
  <1>1. ASSUME MainLoop PROVE Kept \/ Repeats'
    BY <1>1, PassKept, TakeCommandKept, BreakKept, SendKept, StartedKept, TimeoutReported,
       StatusKept, DataKept, AsksAgain, ResetKept DEF MainLoop
  <1>2. ASSUME Interrupt PROVE Kept
    BY <1>2, TimerKept, ReceiveKept, NextByteKept, SentKept DEF Interrupt
  <1>3. ASSUME Outside PROVE Kept
    BY <1>3, ShiftsOutKept, TimeIsUpKept, NoNoise DEF Outside
  <1>4. ASSUME UNCHANGED vars PROVE Kept
    <2>1. UNCHANGED <<pc, said, Seen>>
      BY <1>4 DEF vars, mainVars, answerVars, Seen
    <2> QED
      BY <2>1, NothingSeen
  <1>5. Kept \/ Repeats'
    BY <1>1, <1>2, <1>3, <1>4, MasterKept DEF Next
  <1>6. GateTypeOK'
    BY TypeStep DEF CleanInv
  <1> QED
    BY <1>5, <1>6 DEF Kept, CleanInv

LEMMA CleanInit == ASSUME CleanLine, Init PROVE CleanInv /\ AckOrNone
  <1>1. GateTypeOK
    BY InitType
  <1>2. Undisturbed
    BY DEF Init, WireInit, Undisturbed
  <1>3. Idle
    BY DEF Init, WireInit, Idle, Looping, Quiet
  <1>4. mdb_state = "Idle" /\ pc # "reset"
    BY DEF Init
  <1>5. AckOrNone
    BY <1>4 DEF Init, WireInit, AckOrNone, NoAck, None
  <1> QED
    BY <1>1, <1>2, <1>3, <1>4, <1>5 DEF CleanInv, Phases, Reported, ReportsSuccess

\* What the gate has said, it has said.
LEMMA SignalsGrow == ASSUME [Next]_vars PROVE signals \subseteq signals'
  <1>1. CASE MainLoop
    <2>1. CASE TakeCommand
      <3>1. CASE Reset
        BY <3>1 DEF Reset, lineVars
      <3> QED
        BY <2>1, <3>1 DEF TakeCommand, wireVars, lineVars
    <2>2. CASE ReportData \/ BadChecksum
      BY <2>2 DEF ReportData, BadChecksum, Signal
    <2>3. CASE BreakBegins \/ SendFirst
      BY <2>3 DEF BreakBegins, SendFirst, lineVars
    <2>4. CASE \/ TwiBusy \/ NoCommand \/ Swap \/ BreakTimer \/ SendBusy \/ SendTimer \/ Started
               \/ NothingToDo \/ ReportError \/ ReportStatus \/ ResetBegins \/ ResetEnds
      BY <2>4 DEF TwiBusy, NoCommand, Swap, BreakTimer, SendBusy, SendTimer, Started, NothingToDo,
         ReportError, ReportStatus, ResetBegins, ResetEnds, wireVars, lineVars
    <2> QED
      BY <1>1, <2>1, <2>2, <2>3, <2>4 DEF MainLoop
  <1>2. CASE Interrupt
    BY <1>2 DEF Interrupt, TIMER0_OVF, USART_RX, USART_UDRE, USART_TX, lineVars
  <1>3. CASE Outside
    BY <1>3 DEF Outside, ShiftsOut, TimeIsUp, Disturbed, FrameSent, Overflow, Noise
  <1>4. CASE MasterSends \/ MasterReads \/ UNCHANGED vars
    BY <1>4 DEF MasterSends, MasterReads, vars, wireVars, lineVars
  <1> QED
    BY <1>1, <1>2, <1>3, <1>4 DEF Next

\* Where TXC0 comes from: the end of a command, whose handler clears it, or an ACK.
LEMMA NoAckMain ==
  ASSUME CleanInv, NoAck, MainLoop, "ACK" \notin signals', ~Repeats'
  PROVE  NoAck'
  <1>1. CASE UNCHANGED <<shift, udr, txc, mdb_state>>
    BY <1>1 DEF NoAck
  <1>2. CASE TwiBusy \/ NoCommand \/ Swap \/ BreakTimer \/ SendTimer \/ Started \/ NothingToDo
             \/ ReportError \/ ReportStatus \/ ResetBegins
    BY <1>1, <1>2 DEF TwiBusy, NoCommand, Swap, BreakTimer, SendTimer, Started, NothingToDo,
       ReportError, ReportStatus, ResetBegins, mdbVars, stateVars, wireVars
  <1>3. CASE TakeCommand
    <2>1. CASE Reset
      BY <2>1 DEF Reset, NoAck, None
    <2> QED
      BY <1>1, <1>3, <2>1 DEF TakeCommand, mdbVars, stateVars, wireVars
  <1>4. CASE BreakBegins \/ SendBusy \/ ResetEnds
    <2>1. pc \in {"break", "load", "idle"}
      BY <1>4, AtLabel DEF BreakBegins, SendBusy, ResetEnds
    <2>2. mdb_state # "Send"
      BY <2>1, OnePhase DEF Sending, Active, Looping
    <2>3. mdb_state' \in {"Idle", "Bus_Reset"} /\ UNCHANGED <<shift, udr, txc>>
      BY <1>4 DEF BreakBegins, SendBusy, ResetEnds, wireVars
    <2> QED
      BY <2>2, <2>3 DEF NoAck
  <1>5. CASE SendFirst
    <2>1. pc = "send"
      BY <1>5, AtLabel DEF SendFirst
    <2>2. mdb_state = "Idle" /\ Idle
      BY <2>1, OnePhase DEF Sending, Receiving, Active, Complete, TimedOut, Breaking, Looping
    <2>3. mdb_state' = "Send" /\ UNCHANGED txc /\ Transmit("addr") /\ ~txc
      BY <1>5, <2>2 DEF SendFirst, NoAck
    <2>4. shift' # "ACK"
      BY <2>3 DEF Transmit, NoAck
    <2> QED
      BY <2>3, <2>4 DEF NoAck
  <1>6. ~ReportData /\ ~BadChecksum
    BY AsksAgain DEF ReportData, Signal
  <1> QED
    BY <1>2, <1>3, <1>4, <1>5, <1>6 DEF MainLoop

LEMMA NoAckElse ==
  ASSUME CleanLine, CleanInv, NoAck,
         Interrupt \/ Outside \/ MasterSends \/ MasterReads \/ UNCHANGED vars
  PROVE  NoAck'
  <1>1. CASE TIMER0_OVF
    <2>1. timer /\ tov /\ UNCHANGED <<shift, udr, txc>> /\ mdb_state' \in {mdb_state, "Error"}
      BY <1>1 DEF TIMER0_OVF, mdb_fast_error
    <2>2. mdb_state # "Send"
      BY <2>1, OnePhase DEF Sending
    <2> QED
      BY <2>1, <2>2 DEF NoAck
  <1>2. CASE USART_RX
    <2>1. mdb_state = "Recv"
      BY <1>2, FrameArrives DEF USART_RX
    <2>2. /\ UNCHANGED <<shift, udr, txc>>
          /\ mdb_state' \in {"Recv", "Recv_End", "Error"}
      BY <1>2, <2>1 DEF USART_RX, Accept, mdb_fast_error
    <2> QED
      BY <2>1, <2>2 DEF NoAck
  <1>3. CASE USART_UDRE
    <2>1. udrie /\ udr = None /\ UNCHANGED txc
      BY <1>3 DEF USART_UDRE, uart_send_ready
    <2>2. mdb_state = "Send" /\ Sending
      BY <2>1, OnePhase DEF Idle, Receiving, Complete, TimedOut, Breaking, Quiet
    <2>3. shift # None
      BY <2>1, <2>2 DEF Sending, None
    <2>4. mdb_state' \in {"Send", "Error"} /\ shift' = shift
      BY <1>3, <2>2, <2>3 DEF USART_UDRE, mdb_fast_error, Transmit
    <2> QED
      BY <2>1, <2>3, <2>4 DEF NoAck
  <1>4. CASE USART_TX
    <2>1. /\ txcie /\ txc /\ txc' = FALSE /\ mdb_state' = "Recv" /\ UNCHANGED <<shift, udr>>
      BY <1>4 DEF USART_TX
    <2> QED
      BY <2>1 DEF NoAck
  <1>5. CASE ShiftsOut
    <2>1. /\ shift # None /\ ~(udrie /\ udr = None) /\ UNCHANGED mdb_state
          /\ shift' = IF txen THEN udr ELSE None
          /\ udr' = IF txen THEN None ELSE udr
          /\ txc' = (txc \/ udr = None)
      BY <1>5 DEF ShiftsOut, FrameSent, uart_send_ready, mdbVars, stateVars
    <2>2. ~txc /\ mdb_state # "Recv" /\ shift # "ACK"
      BY <2>1 DEF NoAck
    <2>3. mdb_state = "Send" /\ Sending
      BY <2>1, <2>2, OnePhase DEF Idle, Complete, TimedOut, Breaking
    <2>4. txen /\ udr # "ACK"
      BY <2>3 DEF Sending, LastOut, Answering, None
    <2>5. udr = None => shift = "last"
      BY <2>1, <2>3 DEF Sending, LastOut, Answering, None
    <2> QED
      BY <2>1, <2>2, <2>3, <2>4 DEF NoAck, None
  <1>6. CASE TimeIsUp
    BY <1>6 DEF TimeIsUp, Overflow, mdbVars, stateVars, NoAck
  <1>7. CASE MasterSends \/ MasterReads \/ UNCHANGED vars
    BY <1>7 DEF MasterSends, MasterReads, vars, mdbVars, stateVars, wireVars, NoAck
  <1> QED
    BY <1>1, <1>2, <1>3, <1>4, <1>5, <1>6, <1>7, NoNoise DEF Interrupt, Outside

LEMMA AckStep ==
  ASSUME CleanLine, CleanInv, AckOrNone, [Next]_vars
  PROVE  AckOrNone' \/ Repeats'
  <1>1. CASE "ACK" \in signals
    BY <1>1, SignalsGrow DEF AckOrNone
  <1>2. CASE NoAck /\ MainLoop
    BY <1>2, NoAckMain DEF AckOrNone
  <1>3. CASE NoAck /\ ~MainLoop
    BY <1>3, NoAckElse DEF AckOrNone, Next
  <1> QED
    BY <1>1, <1>2, <1>3 DEF AckOrNone

\* What a clean line keeps until a checksum is wrong: its cleanliness is a matter of
\* constants.
LEMMA CleanAlways == CleanLine /\ Spec => []((CleanInv /\ AckOrNone) \/ Repeats)
  <1> DEFINE Kind == (CleanInv /\ AckOrNone) \/ Repeats
  <1>1. CleanLine /\ Init => CleanLine /\ Kind
    BY CleanInit
  <1>2. (CleanLine /\ Kind) /\ [Next]_vars => (CleanLine /\ Kind)'
    <2> SUFFICES ASSUME CleanLine, Kind, [Next]_vars PROVE (CleanLine /\ Kind)'
      OBVIOUS
    <2>1. CleanLine'
      BY DEF CleanLine
    <2>2. CASE Repeats
      <3>1. Repeats'
        BY <2>2, SignalsGrow DEF Repeats
      <3> QED
        BY <2>1, <3>1
    <2>3. CASE CleanInv /\ AckOrNone
      BY <2>1, <2>3, CleanStep, AckStep
    <2> QED
      BY <2>2, <2>3
  <1> HIDE DEF Kind
  <1>3. CleanLine /\ Spec => []Kind
    BY <1>1, <1>2, PTL DEF Spec
  <1> QED
    BY <1>3 DEF Kind

\* On a clean line MDB_Started and the answer of that transaction take turns:
\* none is answered twice or before it was started, and none is forgotten when
\* the gate rests (master_command, mdb_step), for any commands that fit, any
\* answers of the peripheral and any number of transactions, until a wrong
\* checksum makes the gate send RET.
THEOREM StartedThenAnswered == CleanLine /\ Spec => []AnswersTakeTurns
  <1>1. (CleanInv /\ AckOrNone) \/ Repeats => AnswersTakeTurns
    <2> SUFFICES ASSUME CleanInv PROVE AnswersTakeTurns
      BY DEF AnswersTakeTurns
    <2>1. mdb_state = "Idle" => owed = 0
      BY DEF CleanInv, Phases, Idle
    <2> QED
      BY <2>1, OwedOne DEF AnswersTakeTurns
  <1> QED
    BY <1>1, CleanAlways, PTL

\* When the gate rests, and has not sent RET, of the last transaction there is left
\* an ACK on its way or TXC0 behind an ACK, and nothing else: no interrupt enabled or
\* due, no error, no byte received, on the line or to be sent (mdb_reset, the
\* handlers that disable themselves, mdb.c:162).
THEOREM NothingElseIsLeft == CleanLine /\ Spec => []RestIsClean
  <1>1. (CleanInv /\ AckOrNone) \/ Repeats => RestIsClean
    BY DEF CleanInv, Undisturbed, Phases, Idle, Quiet, AckOrNone, NoAck, RestIsClean
  <1> QED
    BY <1>1, CleanAlways, PTL

\* MDB_Success tells the master what the peripheral answered to this command, right
\* checksum or wrong, until a wrong one makes the gate send RET (mdb_step,
\* mdb_finish_in).
THEOREM SuccessIsTrue == CleanLine /\ Spec => []SuccessIsWhatWasTold
  <1>1. (CleanInv /\ AckOrNone) \/ Repeats => SuccessIsWhatWasTold
    BY DEF CleanInv, Reported, SuccessIsWhatWasTold
  <1> QED
    BY <1>1, CleanAlways, PTL
=============================================================================
