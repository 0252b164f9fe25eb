SPECIFICATION Spec
CONSTANTS
  ann = ann
  jacket = jacket
  frame = frame
  jacketOffer = jacketOffer
  outfitOffer = outfitOffer
  daily = daily
  weekly = weekly
  streetPass = streetPass
  small = small
  large = large
  Accounts = {ann}
  Items = {jacket, frame}
  Packs = {}
  Offers = {jacketOffer, outfitOffer}
  Discounts = {0, 50}
  ActionIds = {x, y}
  Awards = {daily, weekly, streetPass}
  Charges = {"refund_part", "refund_full", "dispute"}
  RoundCap = 3
  Adjustments = {small, large}
  Handlers = {h1, h2}
  MaxAborts = 1
  Owner <- OwnedByAnn
  Crowns <- TwoCrowns
  ListPrice <- OneCrownEach
  Keys <- MCKeys
  OfferPrice <- MCOfferPrice
  Award <- MCAward
  Adjustment <- MCAdjustment
  None = None
INVARIANTS NothingBoughtTwice ChargedOnce
PROPERTIES CapRespected
CHECK_DEADLOCK FALSE
