CONSTANTS
    NumKernels = 4
    NumRegs = 5
    NumArgs = 2
    KArgs <- Select_KArgs
    KResults <- Select_KResults
    NonStrict = {2}
    ResultRegs <- Select_ResultRegs
    ArgStates = {"unavail", "concrete", "error"}
    Outcomes <- Select_Outcomes
    ForwardRetains = TRUE
    ReadFunctionMayFail = FALSE
    PreCancelled = FALSE
    CallerReleases = FALSE
    Null = Null

SPECIFICATION Spec

INVARIANT RefsBalanced
INVARIANT ValuesInUseAlive
INVARIANT PublishTargetFree
INVARIANT StrictKernelSeesAvailableArgs
INVARIANT ErrorPropagates
INVARIANT ExecutorAliveWhileUsed
PROPERTY DataflowSafety

CHECK_DEADLOCK FALSE
