SPECIFICATION FairSpec
CONSTANTS
  ann = ann
  jacket = jacket
  frame = frame
  jacketOffer = jacketOffer
  outfitOffer = outfitOffer
  daily = daily
  weekly = weekly
  streetPass = streetPass
  small = small
  large = large
  Accounts = {ann}
  Items = {jacket, frame}
  Packs = {boss}
  Offers = {jacketOffer}
  Discounts = {0}
  ActionIds = {x}
  Awards = {}
  Charges = {"refund_full", "dispute"}
  RoundCap = 3
  Adjustments = {}
  Handlers = {h1, h2}
  MaxAborts = 1
  Owner <- OwnedByAnn
  Crowns <- TwoCrowns
  ListPrice <- OneCrownEach
  Keys <- MCKeys
  OfferPrice <- MCOfferPrice
  Award <- MCAward
  Adjustment <- MCAdjustment
  None = None
INVARIANTS TypeOK GrantedOnlyWhenPaid
PROPERTIES ImplementsBook HoldStopsSpending PaidIsCredited
CHECK_DEADLOCK FALSE
