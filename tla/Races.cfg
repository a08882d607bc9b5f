CONSTANTS
  Sessions = {s1, s2, s3}
  Orders = {"A", "B"}
  Start = 2
  Items = {"rice", "crab"}
  Opening = 2
  Endpoints = {"add", "pay", "split", "merge"}
  MaxRequests = 3
  None = None
SPECIFICATION Spec
CHECK_DEADLOCK FALSE
INVARIANTS TypeOK TakenIsBilled
PROPERTIES DeskSpec EveryRequestEnds
