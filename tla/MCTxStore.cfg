SPECIFICATION Spec
CONSTANTS
    Page = {p1, p2}
    Torn = Torn
    Setups <- MCSetups
SYMMETRY PageSymmetry
INVARIANT Recoverable
INVARIANT UndoRestores
INVARIANT NoResurrection
