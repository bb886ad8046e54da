SPECIFICATION Spec
CONSTANTS
  A = A
  B = B
  C = C
  D = D
  Hosts = {A, B, C}
  NoHost = NoHost
  Configured = A
  Tasks = {t1, t2}
  Password = TRUE
  CancelAt = {"signin", "renew", "login", "relogin", "request", "again", "lock", "verify"}
  AddWhile = {"settled", "switching"}
  ReplaceWhile = {"settled"}
  Learnable <- MixedPeers
SYMMETRY Symmetry
INVARIANTS TypeOK HostListOK WalkOK InUseHasAnswered
PROPERTIES SwitchIsProven RepeatIsElsewhere ImplementsHostChoice
