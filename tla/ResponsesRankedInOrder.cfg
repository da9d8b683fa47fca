SPECIFICATION ScoreSpec
CONSTANTS
  Rssis <- UsualRssis
  Counts = {0, 5, 13}
PROPERTY ResponsesRankedInOrder
