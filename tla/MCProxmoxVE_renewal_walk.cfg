SPECIFICATION Spec
CONSTANTS
  A = A
  B = B
  C = C
  D = D
  Hosts = {A, B, C}
  NoHost = NoHost
  Configured = A
  Tasks = {t1, t2}
  Password = TRUE
  CancelAt = {}
  AddWhile = {"settled"}
  ReplaceWhile = {"settled"}
  Learnable <- Peers
SYMMETRY Symmetry
PROPERTIES LeavesAnsweringHostAlone
