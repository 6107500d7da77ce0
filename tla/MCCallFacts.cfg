CONSTANTS
    Slot <- MCSlot
    SlotKey <- MCSlotKey
    Form <- MCForm
    Variant <- MCVariant
    Label <- MCLabel
    Capability <- MCCapability
    Program <- MCProgram
    Reason <- MCReason
    Feature <- MCFeature
    Obligation <- MCObligation
    OwnFacts <- MCOwnFacts
SPECIFICATION FactsSpec
INVARIANTS
    FactsAreExact
    GapsReachEveryCaller
PROPERTY
    FactsSettle
CHECK_DEADLOCK FALSE
