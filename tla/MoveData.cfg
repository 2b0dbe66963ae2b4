SPECIFICATION MoveSpec
CONSTANTS
  MaxPlies = 6
  Legal = {1, 2, 3, 4}
  Stray = {5}
  Pawns <- MCPawns
  MaxCandidates = 3
  TopExtra = 1
INVARIANTS
  RowsAreTheUsersMoves
  LabelIsThePlayedMove
  BotPlaysWhatItLikes
