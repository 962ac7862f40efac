CONSTANTS
  Version <- MCVersion
  Broken <- MCBroken
  Panicking = {}
  Installed = 1
  Floor <- MCFloor
  Sources = 2
  Manual = FALSE
  Damage = FALSE
SPECIFICATION Spec
INVARIANT RolledBackWasTried
