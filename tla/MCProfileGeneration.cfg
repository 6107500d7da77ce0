CONSTANTS
    Primitive <- MCPrimitive
    TypeTag <- MCTypeTag
    Extension <- MCExtension
    Catalog <- MCCatalog
    Request <- MCRequest
SPECIFICATION Spec
INVARIANTS
    AccountedOnce
    SupportTellsTheOutcome
    PrunedIsUngeneratable
    HarnessIsComplete
CHECK_DEADLOCK FALSE
