CONSTANTS
  Pages = {"p1", "p2"}
  Threshold = 0
  MaxWrites = 3
  MaxFaults = 2
  Faults = {"api", "ctrl", "refuse", "link", "silent"}
SPECIFICATION FairSpec
INVARIANTS TypeOK OneSideRuns WritesArrive NeverNowhere
PROPERTY EndsUnlessSilent
\* a migration ends
CHECK_DEADLOCK FALSE
