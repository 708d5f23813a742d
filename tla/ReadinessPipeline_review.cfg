SPECIFICATION PSpec
CONSTANTS
    Contracts = {c1}
    NoContract = NoContract
    Tools <- ReviewTools
    MaxRuns = 2
    MaxChanges = 1
    MaxFilings = 1
INVARIANTS
    PTypeOK ApprovalBacked CalmRefreshExact RefreshUsesThisRun NoRecursion
CHECK_DEADLOCK FALSE
