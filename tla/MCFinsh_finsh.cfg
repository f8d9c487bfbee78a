CONSTANTS
  Devs = {"uart1", "uart2", "usb"}
  STANDALONE = {"usb"}
  Things = {"o1", "o2", "o3", "h1"}
  Heap = {"h1"}
  Classes = {"Semaphore", "Timer"}
  LIST_FIND_OBJ_NR = 2
SPECIFICATION Spec
INVARIANTS CommandsSplit  ListingComplete DevicesBalanced
PROPERTY EditorSpec
CHECK_DEADLOCK FALSE
