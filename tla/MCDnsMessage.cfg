CONSTANTS
  Packets <- MCPackets
  Types <- MCTypes
  Records <- MCRecords
  NULL = NULL

SPECIFICATION Spec

INVARIANTS
  TypeOK
  InBounds
  FirstAnswerHasRoom
  WholeIfItFits
  CountRightIffComplete

PROPERTIES
  ReadsWhatItWrites
