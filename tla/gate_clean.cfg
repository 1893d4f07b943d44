SPECIFICATION FairSpec
CONSTANTS
  Blocks <- CleanBlocks
  Late = FALSE
  MaxNoise = 0
  Commands <- CleanCommands
  Packets <- CleanPackets
  MaxPackets = 2
  MaxAnswers = 2
  PacketSize = 2
INVARIANTS AnswersTakeTurns RestIsClean SuccessIsWhatWasTold
PROPERTIES GateBecomesIdle
