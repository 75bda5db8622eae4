SPECIFICATION Spec
CONSTANTS
  Configs <- MixedConfigs
  Percents <- MixedPercents
INVARIANT TypeOK
PROPERTY WheelOnTime
