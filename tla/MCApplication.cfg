SPECIFICATION Spec
CONSTANTS
    w1 = w1  w2 = w2  w3 = w3  p1 = p1  p2 = p2  p3 = p3
    Windows = {w1, w2, w3}
    NoWindow = NoWindow
    Pids = {p1, p2, p3}
    NoProcess = NoProcess
    MaxSettings = 2
    Disabled = {2}
    MaxRestarts = 2
    Sessions <- MCSessions
INVARIANTS ChangesAsked 
PROPERTIES QuitSettles  ServiceReturns
