CONSTANTS
  coeffs <- MCCoeffs
  D1s <- ColdD1s
  D2s <- ColdD2s
  PoolSize = 16
  Free = {0, 1, 3, 4, 5, 7, 9, 16}
  Left <- MCLeft
SPECIFICATION Spec
PROPERTIES PressureInRange
