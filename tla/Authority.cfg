SPECIFICATION Spec
CONSTANTS
    Clients = {c1, c2}
    Users = {u1, u2}
    Projects = {p1}
    NoUser = NoUser
    NoProject = NoProject
    Founded = {p1}
    Offered <- Kinds
    MaxCredentials = 1
    MaxCode = 1
SYMMETRY Symmetric
INVARIANTS
    DisabledHoldsNothing
    CodesAreUsedOnce
    AcceptedIsAuthorized
    SubmitNeverDeadlocks
    AdministratorsRemain
