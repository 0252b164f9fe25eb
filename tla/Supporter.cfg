SPECIFICATION FairSpec
CONSTANTS
  ann = ann
  bob = bob
  s1 = s1
  s2 = s2
  s3 = s3
  Accounts = {ann, bob}
  Payers = {ann}
  Marks = {"refunded"}
  Subs = {s1, s2, s3}
  Handlers = {h1, h2}
  MonthLength = 1
  Bundles = {1}
  Tiers = {2}
  MaxClock = 1
  MaxEvents = 4
  MaxAborts = 1
  None = None
  Trying <- AnnOnTrial
  Pages <- AnnsPage
  Gifts <- AnnToBob
INVARIANTS TypeOK HandledWhole TenureEarned UnpaidDropOnlyByTrialInvoice
PROPERTIES OlderOnlyByRace PaymentsApplied TenureCatchesUp
CHECK_DEADLOCK FALSE
