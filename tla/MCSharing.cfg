SPECIFICATION AllSpec
CONSTANTS
  Name = {base, beam1, beam2}
  Token = {a, b}
  NumBlocks = 4
  BlockSize = 2
  EnableCow <- CowOn
  MaxTokens = 4
  NULL = NULL
  Thread = {t1, t2}
  Var = {"v", "w"}
  Block = {"b1", "b2", "b3"}
  First = "b1"
  NoHash = NoHash
  None = None
SYMMETRY Symmetry
INVARIANTS CountsAreExact TablesHoldTokens SharedExactlyUnderSamePrefix LivesWhileUsed
CHECK_DEADLOCK FALSE
