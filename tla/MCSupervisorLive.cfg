\* Liveness of the supervisor: termination, the timeout of a hung teardown, and the per-slot lifecycle it implements.
CONSTANTS
    NumProcesses = 2
    NumGraphics = 2
    NumCompute = 1
    m1 = m1
    Modules <- MCModules
    NoModule = NoModule
    MaxCrashes = 1
    HasControlBlock = TRUE
    JobAssignMayFail = FALSE
    ConcurrentHandlers = {}
SPECIFICATION Spec
PROPERTY HungWorkerReaped
PROPERTY Termination
PROPERTY ImplementsSlotLifecycle
