CONSTANTS
  coeffs <- MCCoeffs
  D1s <- MCD1s
  D2s <- MCD2s
  PoolSize = 16
  Free = {0, 1, 3, 4, 5, 7, 8, 9, 16}
  Left <- MCLeft
SPECIFICATION Spec
INVARIANTS TypeOK BothConverted
PROPERTIES TemperatureRight PressureRightWhenWarm WholeOrRefused
