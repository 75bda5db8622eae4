SPECIFICATION Spec
CONSTANTS
  Configs <- LongConfigs
  Percents <- OnlyDefault
INVARIANT SleepsOneTick
