------------------------------- MODULE MCMdbGate -------------------------------
(* Values of the constants for the runs of MdbGate. *)
EXTENDS MdbGateProperties

Transaction(n) == [kind |-> "Transaction", length |-> n]
BusReset == [kind |-> "Bus_Reset", length |-> 2]
Restart == [kind |-> "Reset", length |-> 0]
Other == [kind |-> "Other", length |-> 0]

Ack == <<MDB_ACK>>
Nak == <<MDB_NAK>>
Silence == <<>>
Data == <<255, 2, 1>>                \* the checksum wraps
Corrupt == <<1, 2>>
Garbage == <<7>>
Full == <<1, 1, 2>>
TooLong == <<1, 1, 1, 3>>

Poll == [kind |-> "Poll", length |-> 0]

One(commands) == {<<c>> : c \in commands}

CleanCommands == {Transaction(1), Transaction(2), Poll, Other}
CleanPackets == One({Transaction(1), Transaction(2), Other})
                  \cup {<<Transaction(1), Poll, Transaction(1)>>}
CleanBlocks == {Ack, Nak, Silence, Data, Garbage, Corrupt}

RetryCommands == {Transaction(1)}
RetryPackets == One(RetryCommands)
RetryBlocks == {Corrupt}

DisturbedCommands == {Transaction(1), Transaction(3), BusReset, Restart}
DisturbedPackets == One(DisturbedCommands)
DisturbedBlocks == {Full}
================================================================================
