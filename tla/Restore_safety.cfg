\* Every layout, two kills or failing calls, one change by others.
CONSTANTS
  Count = 5
  Order <- Sequence
  States = {"state", "state2"}
  Layouts <- AllLayouts
  None = None
  Torn = Torn
  MaxKills = 2
  MaxChanges = 1
SPECIFICATION FairSpec
PROPERTIES
  DatabaseLast
  NeverOverwritten
  ReceiptHonest
  Completes
\* A torn journal, or a target that is refused, stops it.
CHECK_DEADLOCK FALSE
