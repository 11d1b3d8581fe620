SPECIFICATION Spec
CONSTANTS
  Streams <- MCFails
  Align = 2
  MaxAdSegFail = 2
INVARIANTS
  OnlyFailedAdsInvalid
