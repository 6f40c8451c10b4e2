SPECIFICATION FairSpec
CONSTANTS
  Channels <- MCChannels
  Foreign <- MCForeign
  NL <- MCNL
  CR <- MCCR
  Marker <- MCMarker
  Modulus <- MCModulus
  MaxFaults = 1
INVARIANT TypeOK
PROPERTIES AcceptedWasSent InStepIsExact EventuallyOffered
