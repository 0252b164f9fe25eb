SPECIFICATION Spec
CONSTANTS
  Players = {1, 2}
  Items = {"radio"}
  Bulky = {}
  Armory = {}
  ArmoryCap = 9
  OfferIds = {1, 2}
  Handlers = {h1, h2}
  ActionIds = {}
  MaxUnits = 0
  MaxAskItems = 1
  FeePercent = 1
  FeeMin = 1
  Minute = 1
  Retention = 1
  MaxClock = 1
  PauseTimes = {}
  SeasonEnd = 9
  None = None
  Closed = Closed
  Listings <- CrossListings
  OfferSlots <- OneSlot
  Book <- OneCent
  StartCash <- RaceCash
  StartHeld <- OneAndTwo
  StartTagged <- RaceTagged
INVARIANTS TypeOK EscrowReconciles TagsWithinEscrow CashAccounted NoLockCircle
PROPERTIES ClosedForGood ImplementsMarket
CHECK_DEADLOCK FALSE
