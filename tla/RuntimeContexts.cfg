\* Lifecycles and smokes over one backend registry.
SPECIFICATION ContextsSpec
CONSTANTS
    jax1 = jax1
    jax2 = jax2
    fake = fake
    NoBackend = "none"
    NoPlatform = "no platform"
    Nothing = Nothing
    Refused = Refused
    IdOrder <- MCIdOrder
    Objects = {jax1, jax2, fake}
    Declarations <- MCDeclarations
    DeclarationOf <- MCDeclarationOf
    Executing = {jax1, jax2}
    ClosingRaises = {jax2}
    Lifecycles = {l1, l2}
    Inspections <- MCInspections
    Requests <- MCRequests
    Questions <- MCQuestions
SYMMETRY LifecycleSymmetry
INVARIANTS
    LifecyclesKeepTheirDevice
    SmokesCleanUp
    ReceiptTells
    SelectionHonest
