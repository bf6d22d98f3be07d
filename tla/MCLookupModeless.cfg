SPECIFICATION Spec
CONSTANTS
  PageFades <- MCDefault
  NestedFade = "true"
  MaxLookups = 3
  MaxInFlight = 3
INVARIANT ValueGoesToItsField
