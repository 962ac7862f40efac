CONSTANTS
  Version <- MCVersion
  Broken <- MCBroken
  Panicking = {2}
  Installed = 1
  Floor <- MCFloor
  Sources = 1
  Manual = TRUE
  Damage = TRUE
SPECIFICATION Spec
INVARIANTS
  TypeOK
  CurrentConfirmed
  RunningIntact
  NeverStranded
PROPERTY OneTry
