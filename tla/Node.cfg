SPECIFICATION MCSpec
CONSTANTS
  Devices <- mcDevices
  Vendor <- mcVendor
  Numbers = 2
  MaxLosses = 2
  MaxFails = 1
  MaxIntLosses = 2
  MaxMsgs = 3
  MaxRebirths = 1
INVARIANTS TypeOK HostCanFollow OnlineBorn HostAgrees
CHECK_DEADLOCK FALSE
