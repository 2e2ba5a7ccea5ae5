CONSTANTS
    NumKernels = 4
    NumRegs = 5
    NumArgs = 2
    KArgs <- Select_KArgs
    KResults <- Select_KResults
    NonStrict = {2}
    ResultRegs <- Select_ResultRegs
    ArgStates = {"unavail", "concrete", "error"}
    Outcomes <- Select_Outcomes
    ForwardRetains = TRUE
    ReadFunctionMayFail = FALSE
    PreCancelled = TRUE
    CallerReleases = FALSE
    Null = Null

SPECIFICATION Spec


INVARIANT CancelledRunsNoKernel

CHECK_DEADLOCK FALSE
