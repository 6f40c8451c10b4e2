SPECIFICATION Spec
CONSTANTS
  Networks <- MCNetworks
  Passwords <- MCPasswords
  Pictures <- MCPictures
  MaxChannels = 1
  MaxClicks = 3
  MaxFaults = 0
INVARIANTS TriesSelected
CHECK_DEADLOCK FALSE
