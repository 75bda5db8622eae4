SPECIFICATION Spec
CONSTANTS
  Half = 2
  Hundred = 2
  Points <- mcPoints
  DeviceData <- mcDeviceData
  Commands <- mcCommands
INVARIANT CoilIsFF00
