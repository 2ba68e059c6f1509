CONSTANTS
  Clients = {c1, c2}
  Keys = {a, b}
  Proxies = {p, q}
  Workloads <- MCWorkloads
SPECIFICATION MCSpec
SYMMETRY Alike
INVARIANTS
  TypeOK
  
  IndexAgrees
  CoordinatorStaysUp
