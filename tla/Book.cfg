SPECIFICATION FairSpec
CONSTANTS
  ann = ann
  bob = bob
  g1 = g1
  g2 = g2
  a = a
  b = b
  c = c
  d = d
  Players = {ann, bob}
  Events = {g1, g2}
  Listed = {g1}
  Begun = {g2}
  Clients = {h1, h2}
  Poller = poller
  ActionIds = {a, b, c, d}
  Amounts = {2}
  Purse = 2
  Bankroll = 6
  MaxRequests = 2
  None = None
  Result <- HomeThenTie
  Odds <- Moneyline
  Slips <- MoreSlips
  Placed <- Held3
  Limits <- TightLimits
INVARIANTS TypeOK JudgedStands SideWithinLimit ChipsAccounted WagerNeverDeadlocks StrandedOnlyByFeed
PROPERTIES TicketsGraded
CHECK_DEADLOCK FALSE
