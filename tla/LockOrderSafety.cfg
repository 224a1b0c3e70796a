\* Four connections, two materials.
SPECIFICATION Spec
CONSTANTS
    Clients = {c1, c2, c3, c4}
    MaterialCount = 2
    Operations = {}
INVARIANTS TypeOK NoDeadlock
SYMMETRY Symmetry
