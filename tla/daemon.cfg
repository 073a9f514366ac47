SPECIFICATION Spec
CONSTANTS
  Daemons = {d1, d2, d3}
  Clients = {c1, c2}
  Commands = {"wake", "stop", "sleep", "clean"}
  None = None
  Racers = {c1}
  RacePids = {d1, d2}
INVARIANTS AtMostOneDaemon ServingIsReachable CleanExitLeavesNoTrace
PROPERTIES SleepLeavesNoServer SleepReturns ShutdownEndsDaemon
CHECK_DEADLOCK FALSE
