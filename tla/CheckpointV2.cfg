\* The v2 checkpoint directory: saves in place, failing anywhere, beside loads.
SPECIFICATION Spec
CONSTANTS
    MaxSaves = 3
    NoReference = "none"
    Payload <- MCPayload
    StepOf <- MCStepOf
    ReferenceOf <- MCReferenceOf
INVARIANTS
    RestoredIsOneRecentSave
    AcknowledgedIsLoadable
