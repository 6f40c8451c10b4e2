SPECIFICATION FairSpec
CONSTANTS
  Networks <- MCNetworks
  Passwords <- MCPasswords
  Pictures <- MCPictures
  MaxChannels = 1
  MaxClicks = 2
  MaxFaults = 2
INVARIANTS TypeOK OneAtATime ConfIsPosted UploadExact
PROPERTIES PageUnlocks
CHECK_DEADLOCK FALSE
