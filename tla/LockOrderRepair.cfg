\* Two connections, one material, with the repair of identities.
SPECIFICATION Spec
CONSTANTS
    Clients = {c1, c2}
    MaterialCount = 1
    Operations = {"repair"}
INVARIANTS NoDeadlock
