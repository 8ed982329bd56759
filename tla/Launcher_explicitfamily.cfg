\* An explicit family and a task that is a candidate for Ultra.
SPECIFICATION Spec
CONSTANTS
    r1 = r1
    r2 = r2
    Repos = {r1, r2}
    ModelIds <- MCModelIds
    FamilyOf <- MCFamilyOf
    RuleIds <- MCRuleIds
    Symbols <- MCSymbols
    Paths <- MCPaths
    LowerCase <- MCLowerCase
    Scenarios <- OneTask
CHECK_DEADLOCK FALSE
INVARIANT
    ExplicitFamilyWins
