CONSTANTS
  Sessions = {s1, s2}
  Orders = {"A", "B"}
  Start = 2
  Items = {"rice", "crab"}
  Opening = 1
  Endpoints = {"add"}
  MaxRequests = 2
  None = None
SPECIFICATION Spec
CHECK_DEADLOCK FALSE
INVARIANT NeverOversold
