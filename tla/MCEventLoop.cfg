SPECIFICATION FairSpec
CONSTANTS
    r1 = r1
    r2 = r2
    f1 = f1
    f2 = f2
    Rule = {r1, r2}
    FD = {f1, f2}
    fd <- MCfd
    direction <- MCdirection
    MaxRules = 3
INVARIANTS
    ResultsBelongToRule
    CallsBackTheReady
PROPERTIES
    WaitReturns
    DefunctRulesGo
CHECK_DEADLOCK FALSE
