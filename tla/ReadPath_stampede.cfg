CONSTANTS
  c1 = c1
  c2 = c2
  c3 = c3
  Free = Free
  Callers = {c1, c2, c3}
  MaxPages = 1
  Words = {deep, tissue}
  Services = {s1, s2}
  NoService = NoService
  MinConfidence = 30
  TokenScore <- ShareScore
  FuzzyScore <- EditScore
  Months = {0, 1, 2, 3}
  DayNumbers = {1, 2}
  MonthsPerYear = 3
  BookClicks = 1
  UrlClicks = 2
  MoreClicks = 2
  MaxOpen = 1
  Hours = {10, 12, 22}
  EastOfUtc = FALSE
  pod = pod
  k1 = k1
  k2 = k2
  Pods = {pod}
  Clients = {k1, k2}
  PodOf <- OnePod
  CatalogTtl = 2
  LastTick = 4
SPECIFICATION ReadPathSpec
INVARIANT ReadPathTypeOK PermitsCounted WaitsOnlyWhenFull OneReader
INVARIANT PagesAreReturned OpensTheAskedService
INVARIANT   EmptyMeansNone
INVARIANT CatalogServes
PROPERTY EveryRequestIsAnswered CalendarReadsEnd
