\* Safety of the supervisor: 2 slots, 2 graphics and 1 compute pipeline,
\* up to 2 crashes per slot, control block present.
CONSTANTS
    NumProcesses = 2
    NumGraphics = 2
    NumCompute = 1
    m1 = m1
    Modules <- MCModules
    NoModule = NoModule
    MaxCrashes = 2
    HasControlBlock = TRUE
    JobAssignMayFail = FALSE
    ConcurrentHandlers = {}
SPECIFICATION Spec
INVARIANT TypeOK
INVARIANT ReportedModulesBanned
INVARIANT CompleteOnlyWhenAllReaped
PROPERTY RespawnResumesAtReportedProgress
