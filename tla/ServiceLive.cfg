SPECIFICATION FairSpec
CONSTANTS
    c1 = c1
    c2 = c2
    k1 = k1
    Clients <- MCClients
    Script <- LiveScript
    Workers = {w1, w2}
    Commands = {k1}
    BrokenPipe = {"error", "killed"}
    MaxConnections = 1
    MaxFrames = 2
    Room = 1
PROPERTIES
    WorkersComeBack
    StopReturns
CHECK_DEADLOCK FALSE
