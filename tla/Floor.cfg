SPECIFICATION Spec
CONSTANTS
  o1 = o1  o2 = o2  i1 = i1  i2 = i2  i3 = i3  t1 = t1  t2 = t2
  pho = pho  tea = tea  beef = beef
  Orders = {o1, o2}
  Rows = {i1, i2, i3}
  Tickets = {}
  Menu = {pho}
  Ingredients = {}
  Recipe <- NoRecipe
  InitialStock <- EmptyStore
  MaxQty = 2
  QtyCap = 2
  Endpoints <- FloorEndpoints
  OrderTargets <- OrderStatus
  ItemTargets = {"PREPARING", "READY", "SERVED", "CANCELLED"}
  TicketTargets = {}
  NoRow = NoRow  NoTicket = NoTicket  NoItem = NoItem
SYMMETRY Symmetry
PROPERTIES ClosedStaysClosed ItemStatusSteps
CHECK_DEADLOCK FALSE
