SPECIFICATION Spec
CONSTANTS
  d1 = d1
  d2 = d2
  a = a
  b = b
  Device = {d1, d2}
  Instance = {a, b}
  Domain <- OneDomain
  InstancesOf <- Chained
  DebugInfo <- Info
  Hardware <- OneBoard
  EioFound <- AllEio
  Signal <- ChainedSignals
  TriggerRequest <- ChainedRequests
  ConfigRequest <- ChainedConfigs
  NChannel = 1
  Modulus = 65536
  StartOption <- Options
  MaxTimeout = 1
INVARIANTS
  TypeOK
  TriggerLimit
  RangeInsideSignal
  NeverStuck
  ChannelExists
  UnverifiedUntouched
  WaitedWaveform
  WaveformIsCapture
PROPERTIES
  StartArms
  Refines
CHECK_DEADLOCK FALSE
