\* Months of 6 hours, integers of 16 bits, 100 nanos to the unit and 10 to the micro-unit.
SPECIFICATION Spec
CONSTANTS
  Catalogues <- PriceLists
  Configs <- Wanted
  WIDTH = 16
  FRACTION = 8
  HOURS = 6
  NANOS = 100
  MICRO = 10
  Invalid = Invalid
INVARIANTS TypeOK QuoteIsExact QuotedWhenRegular AcceptedByPlan OrderIndependent
CHECK_DEADLOCK FALSE
