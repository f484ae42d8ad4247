SPECIFICATION FairSpec
CONSTANTS
    Servers = {s1}
    s1 = s1
    s2 = s2
    Others = {s2}
    Timeout = 1
    Kinds = {"run", "launch", "captive", "kill", "quit"}
    MaxCalls = 2
    MaxPolls = 2
    MaxLines = 2
    MaxInbox = 1
CONSTRAINT LinesOfOne
INVARIANTS
    RunningAreKnown
    OwnAnswers
    OutputInOrder
PROPERTIES
    FinishedAreReaped
    CallReturns
CHECK_DEADLOCK FALSE
