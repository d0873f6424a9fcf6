CONSTANTS
    k1 = k1
    q1 = q1
    t1 = t1
    t2 = t2
    Tools <- AllTools
    Queries = {q1}
    None = None
    Rules <- BaseRules
    Threads = {t1, t2}
    Requests <- MixedRequests
    Tokens = {k1}
    TokenTool <- MCTokenTool
    Handlers = {"pay", "send", "read", "wipe"}
    AsyncHandlers = {"poll"}
    ReadOnly = {"read"}
    BudgetOrder <- MCBudgets
    Limit <- MCLimit
    Grants <- MCGrants
    OperatingModes = {"bounded_auto", "shadow"}
    Unsafe = FALSE
    Hook = FALSE
    Advice = {None, "step_up"}
    MaxCalls = 2
    MaxEvents = 2
SPECIFICATION Spec
INVARIANTS BudgetsBalance OneEffectPerToken DeniedHasNoEffect AllowIsTruthful
SYMMETRY ThreadsAlike
CHECK_DEADLOCK FALSE
