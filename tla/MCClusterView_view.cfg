SPECIFICATION FairSpec
CONSTANTS
  Tasks = {t1, t2}
  Nodes = {n1, n2}
  Vms = {vm}
  Containers = {ct}
  Movable = {vm}
  Others = {sdn, store}
  TypeOf <- TypeOfOthers
  Order <- MixedOrder
  Home <- OneHome
  n1 = n1
  n2 = n2
  vm = vm
  ct = ct
  sdn = sdn
  store = store
  Connected = FALSE
INVARIANTS TypeOK LookupsAgree
PROPERTIES NotFoundMeansUnlisted SettledGuestIsAddressed ViewConverges
