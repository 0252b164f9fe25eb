SPECIFICATION Spec
CONSTANTS
  ann = ann
  bob = bob
  cy = cy
  street = street
  None = None
  Players = {ann, bob, cy}
  Blocks = {street}
  Wars = {1}
  Alliance <- Gangs
  StartCrew <- Crews
  StartHolder <- HeldByBob
  StartCorner <- OneThug
  Casts <- JustCorners
  CornerMin = 1
  BlockCap = 1
  Warning = 1
  Muster = 1
  WarLength = 3
  Resiege = 0
  Truce = 1
  Lockout = 2
  SiegeCall = 1
  Full = 1
  Pace = 1
  Speedup = 1
  BreakLoss = 1
  RoundEnd = 5
  MaxSend = 2
  MaxSquads = 3
  MaxWounds = 1
  MaxRequests = 1
  MaxLag <- Slow
  Horizon = 5
INVARIANT CrewAddsUp
CHECK_DEADLOCK FALSE
