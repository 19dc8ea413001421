SPECIFICATION FairSpec
CONSTANTS
  d1 = d1
  d2 = d2
  a = a
  b = b
  Device = {d1}
  Instance = {a, b}
  Domain <- TwoDomains
  InstancesOf <- Separate
  DebugInfo <- Info
  Hardware <- OneBoard
  EioFound <- AllEio
  Signal <- SeparateSignals
  TriggerRequest <- SeparateRequests
  ConfigRequest <- SeparateConfigs
  NChannel = 1
  Modulus = 65536
  StartOption <- Options
  MaxTimeout = 1
PROPERTIES
  CommandEnds
  Refines
CHECK_DEADLOCK FALSE
