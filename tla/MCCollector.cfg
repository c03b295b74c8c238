SPECIFICATION FairSpec
CONSTANTS
  w1 = w1
  w2 = w2
  Workers <- MCWorkers
  NoThread = NoThread
  MaxRequests = 2
INVARIANTS
  OneCollection
  RequestKeepsWake
PROPERTIES
  NeverGoesBack
  ImplementsService
  RequestAnswered
  RevisionPainted
  StopEndsWorkers
