\* Two surveys, two connections from the surveyor or a device, one respondent.
SPECIFICATION Spec
CONSTANTS
    p1 = p1
    p2 = p2
    r1 = r1
    NULL = NULL
    Pipe <- MCPipe
    Respondent <- MCRespondent
    DeviceHeader <- MCDeviceHeader
    MaxTtl = 2
    MaxSurveys = 2
\* When the surveyor is closed and no connection is left there is nothing to do.
CHECK_DEADLOCK FALSE
INVARIANTS
    NeverAborts
    OwnAnswers
    Routed
PROPERTY SurveyEnds
