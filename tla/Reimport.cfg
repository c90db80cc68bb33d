SPECIFICATION Spec
CONSTANTS
    None = None
    Importers = {i1, i2}
    Documents <- MCDocuments
    MaxImports = 3
SYMMETRY ImporterSymmetry
INVARIANTS
    ReportIsTrue
    QuarantineLasts
    MeaningKept
    MapsAreOneToOne
CHECK_DEADLOCK FALSE
