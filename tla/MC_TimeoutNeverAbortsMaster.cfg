\* Violation run: TimeoutNeverAbortsMaster, with the bounds of MCSupervisor.cfg.
CONSTANTS
    NumProcesses = 2
    NumGraphics = 2
    NumCompute = 1
    m1 = m1
    Modules <- MCModules
    NoModule = NoModule
    MaxCrashes = 1
    HasControlBlock = TRUE
    JobAssignMayFail = FALSE
    ConcurrentHandlers = {}
SPECIFICATION Spec
INVARIANT TimeoutNeverAbortsMaster
