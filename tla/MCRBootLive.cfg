SPECIFICATION FairSpec
CONSTANTS
  MaxRoms = 2
  Erased = 3
  DefaultRom = 1
  DefaultGpio = 0
  NoRom = NoRom
  AppSettings <- MCAppSettings
PROPERTY BootEnds
