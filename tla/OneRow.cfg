SPECIFICATION Spec
CONSTANTS
    None = None
    Importers = {i1}
    Documents <- MCDocuments
    MaxImports = 2
INVARIANT OneRowPerIdentity
CHECK_DEADLOCK FALSE
