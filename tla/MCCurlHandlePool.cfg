CONSTANTS
    st = st
    opn = opn
    rd = rd
    ls = ls
    h1 = h1
    h2 = h2
    NoOp = NoOp
    Ops <- MCOps
    Kind <- MCKind
    Handles = {h1, h2}
SPECIFICATION Spec
INVARIANTS
    RequestShapeOwn
