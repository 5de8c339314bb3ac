SPECIFICATION Spec
CONSTANTS
    Units = {u0, u1}
    Zero = u0
    Blocks = {b1, b2, b3}
    MaxKills = 3
    EarlyKill = FALSE
    LiveExit = FALSE
INVARIANT MemoryOwned
INVARIANT NoWriteAfterFree
INVARIANT RunningIsConnected
