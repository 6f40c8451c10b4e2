SPECIFICATION FairSpec
CONSTANTS
  FlashCells = 8
  SectorCells = 2
  FreeSketchSpace = 5
  Images <- MCImages
  SlotAddresses <- MCSlotAddresses
  Responses <- MCResponses
INVARIANTS TypeOK InstalledIsSent FailsForReason LeavesReady
PROPERTIES NeighboursKept UpdateEnds
