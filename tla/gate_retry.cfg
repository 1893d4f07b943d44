SPECIFICATION Spec
CONSTANTS
  Blocks <- RetryBlocks
  Late = FALSE
  MaxNoise = 0
  Commands <- RetryCommands
  Packets <- RetryPackets
  MaxPackets = 1
  MaxAnswers = 2
  PacketSize = 2
INVARIANTS RetryIsHeard
