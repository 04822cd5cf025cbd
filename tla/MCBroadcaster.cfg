SPECIFICATION FairSpec
CONSTANTS
  Pools = {p1}
  Sockets = {s1}
  Clients = {c1, c2}
  Calls = {k1, k2}
  TradeKinds <- MCTradeKinds
  RingMax = 1
  MaxMinute = 2
  MaxTrades = 2
  NoBar = NoBar
  NoClient = NoClient
INVARIANTS TypeOK OneListener BarsExact TicksSpliced
PROPERTIES BarsClose ListensAgain DeadPeersCulled
CHECK_DEADLOCK FALSE
