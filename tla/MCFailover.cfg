SPECIFICATION LoopSpec
CONSTANTS
    a = a
    Data = {a, b}
    Arbiter = {r}
    None = None
    Upstream <- FollowA
    AutoPromoting = {b}
    K = 2
    Window = 1
    Budgets <- MCBudgets
INVARIANT NoEpochInflation
PROPERTY SingleWriter
PROPERTY FenceFollows
