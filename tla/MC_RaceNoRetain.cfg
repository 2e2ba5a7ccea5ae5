CONSTANTS
    NumKernels = 4
    NumRegs = 6
    NumArgs = 2
    KArgs <- Race_KArgs
    KResults <- Race_KResults
    NonStrict = {}
    ResultRegs <- Race_ResultRegs
    ArgStates = {"unavail"}
    Outcomes <- Race_Outcomes
    ForwardRetains = FALSE
    ReadFunctionMayFail = FALSE
    PreCancelled = FALSE
    CallerReleases = FALSE
    Null = Null

SPECIFICATION Spec

INVARIANT ValuesInUseAlive

CHECK_DEADLOCK FALSE
