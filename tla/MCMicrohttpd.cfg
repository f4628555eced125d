CONSTANTS
  t1 = t1
  t2 = t2
  Garbage = Garbage
  Threads <- MCThreads
  Processes <- MCProcesses
  Reserved = 1
  Methods = {"GET", "POST"}
  Requests <- MCRequests
  MaxRequests = 3
SPECIFICATION FairSpec
INVARIANTS
  TypeOK
  DescriptorsAccounted
  ResponsesWithinRequests
  ScrapesSeeEarlierOnes
  GaugesAreReal
PROPERTIES
  RequestsEnd
CHECK_DEADLOCK FALSE
