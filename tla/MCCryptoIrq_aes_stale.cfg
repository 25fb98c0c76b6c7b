SPECIFICATION Spec
CONSTANTS
  Setups <- InitMayFail
  MaxOps = 3
INVARIANT AesStateCurrent
