SPECIFICATION FairSpec
CONSTANTS
  WordMod = 8
  InstrBytes = 1
  Reg = {0, 1, 2}
  X0 = 0
  Programs <- HazardPrograms
  InitMems <- HazardMems
  ResetPC = 0
  TimerCause = 7
  MStatusBase = 4
  MIEMask = 1
  MTIEMask = 2
  Unimplemented = 5
  InstretMod = 1
  IrqLevels = {FALSE}
  Alu <- MCAlu
  Holds <- MCHolds
  OrW <- MCOrW
  AndNotW <- MCAndNotW
INVARIANTS
  TypeOK
  InOrder
  NoLoadUse
  OperandsFresh
PROPERTIES
  RefinesISA
  Progress
