SPECIFICATION Spec
CONSTANTS
  Networks <- MCNetworks
  Passwords <- MCOddPasswords
  Pictures <- MCPictures
  MaxChannels = 1
  MaxClicks = 2
  MaxFaults = 0
INVARIANTS SavedAsTested
CHECK_DEADLOCK FALSE
