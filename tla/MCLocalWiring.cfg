\* Four faults at most: runs that end early, power losses, another Agent on PATH.
SPECIFICATION FairSpec
CONSTANTS
  MaxExchange = 5
  MaxFaults <- WiringFaults
  MaxInAll = 4
INVARIANTS PairIsOfOneExchange RecordedWiringServes
PROPERTIES WiringRecordsAreTrue WiredEventually
CHECK_DEADLOCK FALSE
