CONSTANTS
  Version <- MCVersion
  Broken <- MCBothBroken
  Panicking = {3}
  Installed = 1
  Floor <- MCFloor
  Sources = 2
  Manual = FALSE
  Damage = FALSE
SPECIFICATION FairRetrySpec
PROPERTIES
  NotRetriedYet
  ComesBack
