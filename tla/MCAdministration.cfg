SPECIFICATION Spec
CONSTANTS
    Users = {u1, u2}
    Admins = {u1, u2}
    Orgs = {o1, o2}
    Publishers = {b1}
    Calls = {c1, c2}
    MaxChanges = 3
    MaxFaults = 1
SYMMETRY Symmetry
INVARIANTS TypeOK AnAdministratorRemains DecidedAsTheRule OutIsNotOverruled
PROPERTIES UnnamedIsLeftAlone
CHECK_DEADLOCK FALSE
