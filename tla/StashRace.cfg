SPECIFICATION Spec
CONSTANTS
  Parts = {"can", "wiring"}
  FuelCan = "can"
  Caches = {c1}
  Handlers = {h1, h2}
  CanCharges = 2
  BaseCapacity = 3
  CapacityStep = 1
  StartCash = 2
  Fee = 1
  MaxServed = 2
  MaxCans = 1
  MaxTurns = 1
  None = None
  Price <- YardPrice
  MaxLevel <- Levels
  UpgradeCash <- OneCent
  UpgradeParts <- OneWiring
  StartParts <- SomeParts
INVARIANTS Serialised
CHECK_DEADLOCK FALSE
