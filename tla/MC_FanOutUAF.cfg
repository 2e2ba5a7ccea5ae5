CONSTANTS
    NumKernels = 4
    NumRegs = 4
    NumArgs = 1
    KArgs <- FanOut_KArgs
    KResults <- FanOut_KResults
    NonStrict = {}
    ResultRegs <- FanOut_ResultRegs
    ArgStates = {"unavail"}
    Outcomes <- FanOut_Outcomes
    ForwardRetains = TRUE
    ReadFunctionMayFail = FALSE
    PreCancelled = FALSE
    CallerReleases = TRUE
    Null = Null

SPECIFICATION Spec


INVARIANT DispatchValueAlive

CHECK_DEADLOCK FALSE
