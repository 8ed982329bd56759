\* A rule for a path with capitals.
SPECIFICATION Spec
CONSTANTS
    r1 = r1
    r2 = r2
    Repos = {r1, r2}
    ModelIds <- MCModelIds
    FamilyOf <- MCFamilyOf
    RuleIds <- MCRuleIds
    Symbols <- MCSymbols
    Paths <- MCPaths
    LowerCase <- MCLowerCase
    Scenarios <- OnePath
CHECK_DEADLOCK FALSE
INVARIANT
    MentionedPathsCount
