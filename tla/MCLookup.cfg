SPECIFICATION Spec
CONSTANTS
  PageFades <- MCMixed
  NestedFade = "true"
  MaxLookups = 3
  MaxInFlight = 3
INVARIANTS TypeOK SpinnerIsAwaited
PROPERTIES ChainBreaksOutOfOrder RawOnlyIfOvertaken
