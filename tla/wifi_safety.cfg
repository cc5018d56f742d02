SPECIFICATION Spec
CONSTANTS
  home = home
  Networks <- OneNetwork
  MaxFaults = 1
INVARIANTS
  TypeOK
  ModeKnown
  DefaultKnown
  PersistentJoinRemembered
PROPERTIES
  FlashOnlyOnRequest
