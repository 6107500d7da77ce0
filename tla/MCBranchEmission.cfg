CONSTANTS
    Slot <- MCSlot
    SlotKey <- MCSlotKey
    Form <- MCForm
    Variant <- MCVariant
    Label <- MCLabel
    Capability <- MCCapability
    Program <- MCProgram
SPECIFICATION EmissionSpec
INVARIANTS
    EmittedCallsResolve
    EnabledBodiesCanCall
    CheckedCompanionsLink
    CoverageIsEmission
CHECK_DEADLOCK FALSE
