SPECIFICATION Spec
CONSTANTS
    Clients = {c1, c2, c3}
    MaxVersions = 3
SYMMETRY ThreadSymmetry
INVARIANTS
    ResidentIsHead
