CONSTANTS
  t1 = t1
  t2 = t2
  global = global
  plain = plain
  reentrant = reentrant
  Nothing = Nothing
  Threads <- MCThreads
  Collectors <- MCCollectors
  GlobalCollector = global
  CallBack <- MCCallBack
  MaxErrors <- MCMaxErrors
  Apple = FALSE
SPECIFICATION WFairSpec
INVARIANTS
  TypeOK
  OwnersAreScraping
  CollectorInUseIsAlive
  RegisteredOnce
  NewestFirst
PROPERTIES
  ImplementsSnapshot
  ScrapeEnds
  WaitingEnds
CHECK_DEADLOCK FALSE
