SPECIFICATION Spec
CONSTANTS
  anna = anna
  ben = ben
  User = {anna, ben}
  Metered = {anna}
  Throttled = {anna}
  Protected = {anna}
  Limited = {ben}
  Billed = {ben}
  Mortal = {anna}
  Sampling = {TRUE, FALSE}
  Resettable = {TRUE}
  MaxPeriod = 1
  MaxFaults = 1
INVARIANTS
  TypeOK
  EligibilityRetried
  RatesRetried
