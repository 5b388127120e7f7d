\* A corridor pass over a sealed batch must not die of the batch's coordinates.
SPECIFICATION Spec
SYMMETRY NameSymmetry
CONSTANTS
    a = a
    b = b
    Names = {a, b}
    Cursors = {0}
    MaxUnits = 2
    MaxCorridors = 1
    MaxFinals = 1
    MaxReports = 1
    SourceSpace <- MCSources
INVARIANTS
    TrainsWhatWasSealed
CHECK_DEADLOCK FALSE
