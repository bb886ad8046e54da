SPECIFICATION Spec
CONSTANTS
  A = A
  B = B
  C = C
  D = D
  Hosts = {A, B, C}
  NoHost = NoHost
  Configured = A
  Tasks = {t1, t2}
  Password = FALSE
  CancelAt = {}
  AddWhile = {"settled"}
  ReplaceWhile = {"settled", "switching"}
  Learnable <- MixedPeers
SYMMETRY Symmetry
INVARIANTS HostInUseListed
