SPECIFICATION Spec
CONSTANTS
  Depth = 3
  Width = 3
  IcWidth = 2
  MaxOps = 7
INVARIANTS TypeOK ProgramOrder FirstSlotFreeUnlessStalled
PROPERTIES HandedInOrder ImplementsUopQueue EveryOpLeaves
