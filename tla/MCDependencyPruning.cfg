CONSTANTS
    Slot <- MCSlot
    SlotKey <- MCSlotKey
    Form <- MCForm
    Variant <- MCVariant
    Label <- MCLabel
    Capability <- MCCapability
    Program <- MCProgram
SPECIFICATION Spec
INVARIANTS
    FrontierIsEnough
    LiveSlotsAreClosed
    PrunesNoClosedSet
    BlameIsAMissingCallee
    ReasonsLeadToACause
PROPERTIES
    ImplementsClosure
CHECK_DEADLOCK FALSE
