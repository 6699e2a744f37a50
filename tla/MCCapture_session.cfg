SPECIFICATION Spec
CONSTANTS
  BuyTypes = {2}
  BoosterModes = {1}
  NormalTarget = 2
  ModeTarget = 1
  FeatureGoal = 1
  Setups <- AllSetups
  Histories <- SampleHistories
  Offers <- AllOffers
  FirstDraws <- BetDraws
  NextDraws <- FreeDraws
  Hints = {}
  Share = 1
  Affordable = {}
  Faults <- AllFaults
  MaxRetries = 3
  MaxNewRounds = 2
  MaxFrames = 2
  Leads <- AllLeads
  MaxLeases = 2
INVARIANTS
  FormsExplored
  CountsAgree
  CompleteIsAccepted
  InventoryCoversHistory
PROPERTIES
  RecordedIsWhole
  NothingReplayed
  QuietAfterSignal
  LeaseEnds
CHECK_DEADLOCK FALSE
