CONSTANTS
  Pages = {"p1"}
  Threshold = 0
  MaxWrites = 2
  MaxFaults = 1
  Faults = {"link"}
SPECIFICATION FairSpec
PROPERTY BlackoutEnds
CHECK_DEADLOCK FALSE
