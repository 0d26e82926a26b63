SPECIFICATION FairSpec
CONSTANTS
  Ids <- MCIds
  Services = {s1, s2}
  Owners = {o1}
  Calls = {c1}
  Orders <- MCOrders
  Limit = 2
  MaxPage = 2
  None = None
INVARIANTS
  TypeOK
  PagesFollowOneAnother
  NextPageIsAnnounced
  ItemsShowTheirOwnService
  HoldersAreWitnessed
PROPERTY OnlyOthersKeepACallWaiting
