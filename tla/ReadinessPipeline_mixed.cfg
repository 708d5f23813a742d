SPECIFICATION PSpec
CONSTANTS
    Contracts = {c1}
    NoContract = NoContract
    Tools <- LaneTools
    MaxRuns = 1
    MaxChanges = 1
    MaxFilings = 1
INVARIANT ApprovalMatchesPlan
CHECK_DEADLOCK FALSE
