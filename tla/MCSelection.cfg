SPECIFICATION Spec
CONSTANTS
  Extension <- MCExtension
  TypeTag <- MCTypeTag
  Feature <- MCFeature
  Capability <- MCCapability
  Body <- MCBody
  Program <- MCProgram
  Automatic = Automatic
  NoExtension = NoExtension
  NoSlot = NoSlot
CHECK_DEADLOCK FALSE
INVARIANTS
  AutomaticAgreesWithExplicit
  EveryAlternativeWins
  HiddenExtensionsKeepTheirSlots
