SPECIFICATION Spec
CONSTANTS
  Hosts = {A, B, C}
  NoHost = NoHost
  MaxKnown = 3
  MaxEntries = 4
  Before <- AllLists
  Inputs <- AllInputs
INVARIANTS TypeOK LearnsWhatItIsTold
CHECK_DEADLOCK FALSE
