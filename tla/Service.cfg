SPECIFICATION Spec
CONSTANTS
    c1 = c1
    c2 = c2
    k1 = k1
    Clients <- MCClients
    Script <- MCScript
    Workers = {w1, w2}
    Commands = {k1}
    BrokenPipe = {"error", "killed"}
    MaxConnections = 1
    MaxFrames = 3
    Room = 2
SYMMETRY WorkerSymmetry
INVARIANTS
    AnswersInOrder
    
    WokenByStop
CHECK_DEADLOCK FALSE
