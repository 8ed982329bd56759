\* Launches of many tasks on several machines: long histories, and wide inputs.
SPECIFICATION Spec
CONSTANTS
    r1 = r1
    r2 = r2
    Repos = {r1, r2}
    ModelIds <- MCModelIds
    FamilyOf <- MCFamilyOf
    RuleIds <- MCRuleIds
    Symbols <- MCSymbols
    Paths <- MCPaths
    LowerCase <- MCLowerCase
    Scenarios <- MCScenarios
SYMMETRY Symmetry
CHECK_DEADLOCK FALSE
INVARIANTS
    TypeOK
    RepeatedLaunchesSettle
    RaisingRiskNeverWeakens
    CalibrationDirection
    RiskFloorHolds
    WeakFamilyOnlyWhereSafe
    UltraIsEarned
    DowngradesArePermitted
    PolicyHonoured
