SPECIFICATION Spec
CONSTANTS
  Requests = {r1, r2, r3}
  Configs <- FixedConfigs
  InitConfig <- FixedInit
  Interval = 1
INVARIANTS ThrottleRateRespected
