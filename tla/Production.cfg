SPECIFICATION PartsFair
CONSTANTS
  Parts = {"labels", "gate", "removal", "logs", "printer"}
  Productions = 2
  LabelNos = 2
  MaxLabels = 2
  WordSize = 4
  QueueSize = 1
  MaxLabelTroubles = 1
  GtLabels = 2
  MaxExtras = 1
  RmLabels = {1, 2}
  MaxRmEvents = 3
  MaxResumes = 1
  LogProductions = 1
  LogGroups = {"all"}
  LifeGroup = "all"
  MaxLate = 1
  Workers = {"w1", "w2"}
  MaxPrints = 3
  MaxPrinterFaults = 2
CHECK_DEADLOCK FALSE
INVARIANTS
  LabelsInv
  RemovalInv
  PrinterInv
  ProductionInv
PROPERTIES
  LabelsSettle
  GateSettles
  OfferedIfThere
  OffAfterStop
