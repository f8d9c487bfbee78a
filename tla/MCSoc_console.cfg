SPECIFICATION FairSpec
CONSTANTS
  Half = 4
  Timecmp = 6
  Frame = 5
  Text <- MCText
  Input <- MCInput
  CallSets = {{"transmit"}, {"receive"}}
  Blank = "blank"
INVARIANTS
  TypeOK
  OutputIsExact
  InputIsExact
  TickIsNotEarly
PROPERTIES
  OutputCompletes
