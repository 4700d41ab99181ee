CONSTANTS
    u = u  w = w  t = t  v = v  c1 = c1  c2 = c2  ip = ip
    Names = {u, w}
    Tables = {t}
    Views = {v}
    Under <- mcUnder
    Cols = {"a", "b"}
    ColLists = {{}, {"a"}}
    Conns = {c1, c2}
    Sources = {ip}
    SourceOf <- mcSourceOf
    HasClientToken = TRUE
    HasReadToken = TRUE
    HasClusterToken = TRUE
    Threshold = 1
    Window = 1
    MaxClock = 1
    MaxAdmin = 4
    MaxTries = 3
    MaxDdl = 1
    MaxAll = 4
SPECIFICATION AccountsSpec
INVARIANTS NoDangling GrantsFresh ReadsWithinGrants GuessesBounded LoginsRotated
PROPERTY ReplacedKnowingly
SYMMETRY Sym
CHECK_DEADLOCK FALSE
