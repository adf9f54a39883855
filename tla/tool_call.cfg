SPECIFICATION Spec
CONSTANTS
  None = None
  NotANumber = NotANumber
  Target = "v1"
  Files <- MCFiles
  Configs <- MCConfigs
  Simulators <- MCSimulators
  Ecus <- MCEcus
  Requests <- MCRequests
  Metadata <- MCMetadata
  PluginReadings <- MCPluginReadings
  PluginDtcs <- MCPluginDtcs
  PluginSignals <- MCPluginSignals
  Fractions <- MCFractions
  MaxDtcs = 2
  IsDouble <- MCIsDouble
  Digit = 50
  Root = 1
  MaxDepth = 2
  MaxItems = 4
  MaxSize = 8
  MaxError = 2
  MaxName = 1
  MaxBytes = 2
  MaxMessages = 2
INVARIANTS
  BodyReplayed
  OnlyDeclaredReads
  AttributableSignals
  
  NothingLeaks
