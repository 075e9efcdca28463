SPECIFICATION AllSpec
CONSTANTS
  Key = {apple, banana, grape}
  hashCount = 2
  Size = 3
  Node = {a, b, c}
  Front = front
  Back = back
  NULL = NULL
  Name = {A1, A2, B1}
  Job = {Meat, Garnish, Plating, Servce1}
INVARIANTS
  DecodeInvertsEncode FindsNearestDecoded NoKeyLost
  RunsInDependencyOrder AnswerIsRight
  ListsAreRight TreesAreRight SearchesAreRight GridsAreRight
PROPERTIES AnswersAreRight ImplementsRecencyCache RunsAllOnce
CHECK_DEADLOCK FALSE
