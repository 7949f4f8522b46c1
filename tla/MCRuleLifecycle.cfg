SPECIFICATION Spec
CONSTANTS
    r1 = r1
    r2 = r2
    p1 = p1
    p2 = p2
    o1 = o1
    o2 = o2
    ana = ana
    ben = ben
    corpora = corpora
    NoOperator = NoOperator
    NoOne = NoOne
    Rule = {r1, r2}
    Caller = {p1, p2}
    Operator = {o1, o2}
    Analyst = {ana, ben}
    ImportSubject = corpora
    Allowance <- MCAllowance
    Capability <- MCCapability
    Confirmed <- MCConfirmed
    Attack <- MCAttack
    MaxCaseVersion = 2
    MaxClock = 2
SYMMETRY Callers
INVARIANTS
    SpentMatchesSteps
    ActiveRuleHarmedNoCase
    ReceiptsStayValid
PROPERTIES
    SpentWhileValid
    ImplementsRuleHistory
CHECK_DEADLOCK FALSE
