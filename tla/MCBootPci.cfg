SPECIFICATION Spec
CONSTANTS
  NULL = NULL
  DevicePages <- MCDevicePages
  Features <- MCFeatures
  Limits <- MCLimits
  Vectors <- MCVectors
  Received = {0, 174}
  PicPresent = {TRUE, FALSE}
  MAX_CPUS = 2
  Firmwares <- MCFirmwares
  ApicStates <- MCApicStates
  HpetStates <- MCHpetStates
  Instants <- MCInstants
  Modes <- MCModes
  PciMachines <- MCPciMachines
  FbResponses <- MCFbResponses
  ModuleResponses <- MCModuleResponses
  FontPath <- MCFontPath
  Keys <- MCKeys
  MaxKeyEvents = 3
INVARIANT BridgesAreFollowed
CHECK_DEADLOCK FALSE
