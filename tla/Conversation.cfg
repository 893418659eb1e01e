\* Two tool turns end a run, so a request carries one at most; the first
\* candidate or, after a fallback before or after it, the second reads it.
CONSTANTS
    Agents <- MCAgents
    Asked <- MCAsked
    Configs <- MCConfigs
    Outputs <- MCOutputs
    Codes = {429, 503, 401, 520}
    MaxIterations = 2
SPECIFICATION Spec
CHECK_DEADLOCK FALSE
INVARIANTS
    RequestFitsProvider
    OutputReachesModel
    FailuresFallOver
    SilentValidationHolds
    AnswerIsWhole
