SPECIFICATION FairSpec
CONSTANTS
  A = A
  B = B
  C = C
  D = D
  Hosts = {A, B, C}
  NoHost = NoHost
  Configured = A
  Tasks = {t1, t2}
  Password = FALSE
  CancelAt = {"signin", "renew", "login", "relogin", "request", "again", "lock", "verify", "walk"}
  AddWhile = {"settled", "switching"}
  ReplaceWhile = {"settled", "switching"}
  Learnable <- MixedPeers
INVARIANTS LockDiscipline
PROPERTIES RequestsEnd
