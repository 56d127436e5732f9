SPECIFICATION FairSpec
CONSTANTS
  Workers = {w1, w2, w3}
  Main = Main
  None = None
  max_requests = 2
  MaxConnections = 6
  MaxSpurious = 2
INVARIANTS TypeOK PoolBounded RequestsAnnounced SlotsAnnounced EachConnectionOnce
PROPERTIES EveryConnectionServed ImplementsService
CHECK_DEADLOCK FALSE
