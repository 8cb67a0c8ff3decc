SPECIFICATION FairSpec
CONSTANTS
  anna = anna
  User = {anna}
  Metered = {anna}
  Throttled = {anna}
  Protected = {anna}
  Limited = {anna}
  Billed = {}
  Mortal = {}
  Sampling = {TRUE, FALSE}
  Resettable = {TRUE}
  MaxPeriod = 0
  MaxFaults = 2
PROPERTIES
  PendingClears
  PenaltyEnds
