SPECIFICATION AirSpec
CONSTANTS
  Apps = {"fan", "humidifier"}
  Rows <- SomeRows
  WhenLightOn = 50
  WhenLightOff = 0
  WhenHumid = 100
  AntiNoise = 25
  RampStep = 80
  Sustained = TRUE
  ByHand = {75}
  Tolerance = 15
  MaxActs = 1
  MaxFailed = 1
  MaxEchoes = 1
  AssumedDry = TRUE
  OffInRestricted = TRUE
  MaxHappenings = 2
  MaxBad = 1
PROPERTIES  HumidifierFollowsLaw
CHECK_DEADLOCK FALSE
