CONSTANTS
  c1 = c1  c2 = c2  p1 = p1  p2 = p2  news = news  sports = sports
  None = None
  Conns <- OneConn
  Publishers <- OnePublisher
  Channels <- TwoChannels
  Kinds <- BothKinds
  ChanCap = 1
  WireCap = 1
  QueueCap = 1
  MaxRequests = 2
  MaxPublishes = 2
SPECIFICATION FairSpec
PROPERTIES PublishEnds CloseEnds
INVARIANTS ConfirmedIsRegistered InOrder CountedIsKept
CHECK_DEADLOCK FALSE
