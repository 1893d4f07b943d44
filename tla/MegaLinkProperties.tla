--------------------------- MODULE MegaLinkProperties --------------------------
(* What the gate and its client promise each other. *)
EXTENDS MegaLink

Numbers == DOMAIN made
PacketBytes == Numbers \X (1..RESPONSE_MAX_LENGTH)
PlainBytes == {0} \X (0..RESPONSE_MAX_LENGTH)

MegaTypeOK ==
  /\ pc \in {"pass", "command", "clear", "swap", "mdb"}
  /\ twi_idle \in BOOLEAN /\ TWEA \in BOOLEAN /\ due \in BOOLEAN
  /\ pin \in BOOLEAN 
  /\ Len(twi_in) <= 3 /\ \A b \in Range(twi_in) : b \in (Requests \cup {"key"}) \X (1..3)
  /\ Len(master_out) <= RESPONSE_MAX_LENGTH /\ Range(master_out) \subseteq PacketBytes
  /\ Len(twi_out.data) <= RESPONSE_MAX_LENGTH
  /\ Range(twi_out.data) \subseteq PacketBytes
  /\ twi_out.used \in 0..RESPONSE_MAX_LENGTH
  /\ TWDR \in PacketBytes \cup PlainBytes
  /\ edges \in Nat /\ burst \in 0..Burst
  /\ bus \in [by : {"none", "do", "run", "key"}, op : {"none", "write", "read"},
              n : 0..(RESPONSE_MAX_LENGTH + 1), on : BOOLEAN]
  /\ Range(rs) \subseteq PacketBytes \cup PlainBytes
  /\ doPc \in {"idle", "write", "sleep", "read"} /\ request \in Requests
  /\ runPc \in {"watch", "read"} /\ runBuf \in Seq(Numbers)
  /\ taken \in Seq(Numbers)

In(bytes) == {b[1] : b \in Range(bytes)} \ {0}
Taken == Range(taken)

\* An answer the gate has made is in one of its buffers, on the bus or with the
\* client, unless a buffer overflowed, a read began while twi_step was about to
\* swap the buffers, or the bus failed.
AnswersSurvive ==
  mishaps \cap {"overflow", "read in twi_step", "bus error"} = {} =>
    Numbers \subseteq In(master_out) \cup In(twi_out.data) \cup In(rs) \cup Taken

\* Whoever takes them, answers come in the order they were made and none comes
\* twice, unless Buffer_Overflow overtakes them or the gate has left the bus and
\* run looks at its old buffer again.
TakenInOrder ==
  (TWEA \/ ~BusFree) /\ "overflow" \notin mishaps =>
    \A i, j \in DOMAIN taken : i < j => taken[i] < taken[j]

\* Without an error on the bus or an overflow, which shortens a response while it
\* is read, the gate forgets its address only after a response of the maximum
\* length or one byte less, and then the response stays where nobody can read it.
DeafOnlyWhenFull ==
  BusFree /\ ~TWEA /\ mishaps \cap {"bus error", "overflow"} = {} =>
    Len(twi_out.data) >= RESPONSE_MAX_LENGTH - 1 /\ twi_out.used = 0

\* A command whose Do comes to read has been executed, unless a key was pressed
\* at the wrong moment.
CommandsExecuted ==
  doPc = "read" /\ mishaps \cap {"overwritten", "write in twi_step", "bus error"} = {} =>
    executed

\* Do returns, also from a gate that does not answer.
DoReturns == doPc # "idle" ~> doPc = "idle"

\* Every transfer ends for the gate too, or it would never execute a command
\* again; an error on the bus leaves it so.
TransfersEnd == ~twi_idle ~> twi_idle \/ "bus error" \in mishaps
================================================================================
