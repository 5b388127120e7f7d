\* The corridor pass, the exemplar pass and the held-out evaluation, called in
\* any order with anything the caller holds.
SPECIFICATION Spec
SYMMETRY NameSymmetry
CONSTANTS
    a = a
    b = b
    Names = {a, b}
    Cursors = {0, 1}
    MaxUnits = 3
    MaxCorridors = 2
    MaxFinals = 2
    MaxReports = 1
    SourceSpace <- MCSources
INVARIANTS
    SplitAlternates
    NamesAgree
    ReportsTellTheRun
    HeldOutUnseen
\* The caller may stop, and the bounds end every behaviour.
CHECK_DEADLOCK FALSE
