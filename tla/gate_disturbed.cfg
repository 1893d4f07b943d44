SPECIFICATION FairSpec
CONSTANTS
  Blocks <- DisturbedBlocks
  Late = TRUE
  MaxNoise = 1
  Commands <- DisturbedCommands
  Packets <- DisturbedPackets
  MaxPackets = 2
  MaxAnswers = 1
  PacketSize = 2
INVARIANTS GateTypeOK WaitsUnderTimer
PROPERTIES TransactionsEnd
