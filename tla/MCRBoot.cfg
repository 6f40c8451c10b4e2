SPECIFICATION Spec
CONSTANTS
  MaxRoms = 3
  Erased = 4
  DefaultRom = 1
  DefaultGpio = 0
  NoRom = NoRom
  AppSettings <- MCAppSettings
INVARIANTS TypeOK HaltJustified LaunchedRomBootable FallbackIsNearest MapsRunningRom
PROPERTIES TempBootKeepsConfig RewriteKeepsSettings ImplementsPolicy
