\* Concurrent crash handlers: 1 slot, 3 graphics and 1 compute pipeline, up to
\* 2 crashes, and a second thread of each worker may fault while the first is
\* in crash_handler or emergency_teardown; control block present.
CONSTANTS
    NumProcesses = 1
    NumGraphics = 3
    NumCompute = 1
    m1 = m1
    Modules <- MCModules
    NoModule = NoModule
    MaxCrashes = 2
    HasControlBlock = TRUE
    JobAssignMayFail = FALSE
    ConcurrentHandlers = {0}
SPECIFICATION Spec
INVARIANT ReportedModulesBanned
PROPERTY RespawnResumesAtReportedProgress
