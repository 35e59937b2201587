SPECIFICATION Spec
CONSTANTS
  Calls <- MCCalls
  SizeMax = 127
  Word = 31
  MaxDecoded = 60
  Margin = 6
  LanePad = 2
  SlotAlign = 4
  StagingAlign = 4
  PayloadPadding = 3
  TargetAlign = 4
  Threads = 4
  GroupRows = 2
  GridY = 2
INVARIANTS
  RefusedForCause SlotsApart DirectApart KernelOffsetsFit PlacedAsAsked
 
