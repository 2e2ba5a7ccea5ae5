CONSTANTS
    NumKernels = 4
    NumRegs = 4
    NumArgs = 1
    KArgs <- FanOut_KArgs
    KResults <- FanOut_KResults
    NonStrict = {}
    ResultRegs <- FanOut_ResultRegs
    ArgStates = {"unavail"}
    Outcomes <- FanOut_Outcomes
    ForwardRetains = TRUE
    ReadFunctionMayFail = FALSE
    PreCancelled = FALSE
    CallerReleases = FALSE
    Null = Null

SPECIFICATION Spec

INVARIANT TypeOK
INVARIANT RefsBalanced
INVARIANT ValuesInUseAlive
INVARIANT PublishTargetFree
INVARIANT StrictKernelSeesAvailableArgs
INVARIANT ErrorPropagates
INVARIANT ExecutorAliveWhileUsed
INVARIANT LocationHandlerOutlivesPending
INVARIANT FileAliveWhileUsed
PROPERTY Termination
PROPERTY DataflowRefinement

CHECK_DEADLOCK FALSE
