SPECIFICATION FairSpec
CONSTANTS
  c1 = c1
  c2 = c2
  c3 = c3
  w1 = w1
  w2 = w2
  Clients = {c1, c2, c3}
  Others = {c3}
  Process <- SomeProcesses
  Contents <- SomeContents
  FileSet = {"a"}
  Refused <- SomeRefused
  Requests <- SomeRequests
  UINT = 256
  Loads <- SomeLoads
  MaxKills = 1
  Workers = {w1, w2}
  Main = Main
  max_requests = 1
  MaxConnections = 3
INVARIANTS TypeOK AnswersTheAsker DescriptorsHeldOnce FileDataLives
PROPERTIES EveryoneIsAnswered
CHECK_DEADLOCK FALSE
