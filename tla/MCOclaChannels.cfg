SPECIFICATION Spec
CONSTANTS
  d1 = d1
  d2 = d2
  a = a
  b = b
  Device = {d1}
  Instance = {a}
  Domain <- OneDomain
  InstancesOf <- Alone
  DebugInfo <- Info
  Hardware <- OneBoard
  EioFound <- AllEio
  Signal <- AloneSignals
  TriggerRequest <- AloneRequests
  ConfigRequest <- NoConfigs
  NChannel = 2
  Modulus = 65536
  StartOption <- NoWait
  MaxTimeout = 1
PROPERTIES
  Refines
CHECK_DEADLOCK FALSE
