CONSTANTS
    NumKernels = 4
    NumRegs = 5
    NumArgs = 2
    KArgs <- Select_KArgs
    KResults <- Select_KResults
    NonStrict = {2}
    ResultRegs <- Select_ResultRegs
    ArgStates = {"unavail"}
    Outcomes <- SelectLive_Outcomes
    ForwardRetains = TRUE
    ReadFunctionMayFail = FALSE
    PreCancelled = FALSE
    CallerReleases = FALSE
    Null = Null

SPECIFICATION Spec


PROPERTY Termination
PROPERTY DataflowRefinement

CHECK_DEADLOCK FALSE
