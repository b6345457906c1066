\* Three requests on two connections.
SPECIFICATION LiveSpec
CONSTANTS
  r1 = r1
  r2 = r2
  r3 = r3
  Requests = {r1, r2, r3}
  Users = {"ann", "bob"}
  NoUser = "nobody"
  AccessTTL = 2
  AskedBy <- WhoAsksWhat
  Titles = {"a", "b", "c"}
  Deleted = Deleted
  PoolSize = 2
  MaxWorks = 4
  Failures <- AllFailures
  InitialWorks <- AnnsWork
  Now = 3
INVARIANTS
  TypeOK
  StreamTellsItsEnd
  HelloSleepsOnce
PROPERTIES
  EveryRequestEnds
  OwnTokenDecides
  OnlyOwnersChangeWorks
  AnswerIsStored
  ServerErrorHasCause
  NetworkTroubleIsTold
CHECK_DEADLOCK FALSE
