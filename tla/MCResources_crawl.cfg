SPECIFICATION Spec
CONSTANTS
  Games = {"g"}
  Jobs = {j1, j2}
  Urls <- MCUrls
  Site <- MCSite
  EntryOf <- MCEntryOf
  TextOf <- MCTextOf
  Locales = {"en"}
  Profiles = {"desktop", "phone"}
  Loads <- MCLoads
  Concurrency = 2
  MaxFaults = 1
  MaxRuns = 3
INVARIANTS
  CompleteServes
  RecordedIsServed
  EntriesFailHard
PROPERTIES
  TakenOnce
CHECK_DEADLOCK FALSE
