\* Violation run: OrphansKilled, when AssignProcessToJobObject may fail.
CONSTANTS
    NumProcesses = 2
    NumGraphics = 2
    NumCompute = 1
    m1 = m1
    Modules <- MCModules
    NoModule = NoModule
    MaxCrashes = 1
    HasControlBlock = TRUE
    JobAssignMayFail = TRUE
    ConcurrentHandlers = {}
SPECIFICATION Spec
PROPERTY OrphansKilled
