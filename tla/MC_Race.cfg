CONSTANTS
    NumKernels = 4
    NumRegs = 6
    NumArgs = 2
    KArgs <- Race_KArgs
    KResults <- Race_KResults
    NonStrict = {}
    ResultRegs <- Race_ResultRegs
    ArgStates = {"unavail"}
    Outcomes <- Race_Outcomes
    ForwardRetains = TRUE
    ReadFunctionMayFail = FALSE
    PreCancelled = FALSE
    CallerReleases = FALSE
    Null = Null

SPECIFICATION Spec

INVARIANT TypeOK
INVARIANT RefsBalanced
INVARIANT ValuesInUseAlive
INVARIANT PublishTargetFree
INVARIANT StrictKernelSeesAvailableArgs
INVARIANT ErrorPropagates
INVARIANT ExecutorAliveWhileUsed
INVARIANT LocationHandlerOutlivesPending
INVARIANT FileAliveWhileUsed
PROPERTY Termination
PROPERTY DataflowRefinement

CHECK_DEADLOCK FALSE
