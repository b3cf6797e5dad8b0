SPECIFICATION Spec
CONSTANTS
  good = good
  fast = fast
  risky = risky
  costly = costly
  None = None
  Agents = {good, fast, risky, costly}
  Writers = {"run", "worker", "user"}
  Entries <- MCEntries
  Goals <- MCGoals
  Offers <- MCOffers
  Profiles <- MCProfiles
  Market <- MCMarket
  Ceiling = 5
  Fee = 2
  RoomFee = 1
  Memories <- MCMemories
  RoomAsks = {"data"}
  MaxKey = 3
  MaxRead = 2
  MaxLag = 1
  MaxFailures = 1
PROPERTIES
  HeadlineCoversCost
CHECK_DEADLOCK FALSE
