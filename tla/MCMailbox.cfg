CONSTANTS
  a1 = a1
  a2 = a2
  Agent <- MCAgent
  Ticket <- MCTicket
  PeerChoices <- MCPeerChoices
  DefaultLimit = 3
  AskLimit = 2
  MaxMsgs = 3
  MaxReaps = 1
SPECIFICATION Spec
INVARIANTS TypeOK HopStampsCount DeliveredOnce OpenIsUnanswered AskBudget
PROPERTIES SpentEdgeIsSilent BudgetSpec
