SPECIFICATION Spec
CONSTANTS
    Fds = {f3, f4, f5}
    NoFd = NoFd
    Garbage = Garbage
    QUEUE = 1
INVARIANTS
    NoLeakNoDangle
    LoopIsEquipped
PROPERTIES
    RefinesEventLoop
