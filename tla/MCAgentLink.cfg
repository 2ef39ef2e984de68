SPECIFICATION LinkFairSpec
CONSTANTS
  Sockets = {1, 2}
  MaxChanges = 1
  MaxLinkFaults = 2
INVARIANTS
  LinkIsKnown
  
PROPERTIES
  AgentGetsIn
