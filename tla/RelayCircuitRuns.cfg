SPECIFICATION FairSpec
CONSTANTS
  Processors = {p1, p2}
  Subscriptions = {s1}
  BatchSize = 2
  MaxAttempts = 2
  MaxEvents = 2
  MaxFaults = 2
  Workers = {w1, w2}
  Threshold = 2
  MaxFailures = 3
  MaxLoad = 3
INVARIANTS CountsUnlessRaced StrandedByFault
PROPERTIES AnnouncedUnlessRaced FanoutContract EventEnds FinallyClosed

