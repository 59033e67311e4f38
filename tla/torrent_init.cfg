CONSTANTS
  udp = udp
  http = http
  wss = wss
  other = other
  a1 = a1
  a2 = a2
  TrackerIds <- MCTrackerIds
  Scheme <- MCScheme
  Addresses <- MCAddresses
  DatagramBudget = 2
  DHTPeers <- MCDHTPeers
  MinPeers = 1
  MaxConnections = 1
  Bootstrap = 2
  Leftovers <- MCLeftovers
  NodeBudget = 1
  TrackerLists <- MCTrackerLists
SPECIFICATION FairSpec
INVARIANTS TypeOK  ReturnsAlone QueriesAccounted
PROPERTIES IntroductionsSpec 
CHECK_DEADLOCK FALSE
