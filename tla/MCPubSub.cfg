SPECIFICATION ClientSpec
CONSTANTS
    c1 = c1
    x = x
    Conn = {c1, c2}
    Channel = {x, y}
    Pattern = {p}
    Covers <- CoverAll
    Limits <- MCLimits
    Programs <- MCPrograms
    Styles <- MCStyles
INVARIANTS CountsExact DeliveredInOrder BatchesFaithful
PROPERTIES RequestsEnd
CHECK_DEADLOCK FALSE
