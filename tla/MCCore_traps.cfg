SPECIFICATION PoweredSpec
CONSTANTS
  WordMod = 16
  InstrBytes = 1
  Reg = {0, 1, 2}
  X0 = 0
  Programs <- TrapPrograms
  InitMems <- TrapMems
  ResetPC = 4
  TimerCause = 7
  MStatusBase = 4
  MIEMask = 8
  MTIEMask = 2
  Unimplemented = 5
  InstretMod = 4
  IrqLevels = {FALSE, TRUE}
  Alu <- MCAlu
  Holds <- MCHolds
  OrW <- MCOrW
  AndNotW <- MCAndNotW
INVARIANTS
  InterruptsAreTransparent
PROPERTIES
  RefinesISA
