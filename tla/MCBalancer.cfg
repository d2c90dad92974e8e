SPECIFICATION Spec
CONSTANTS
  Keys = {f1, f2}
  Capacity = 2
  MaxTime = 3
  Ips = {b1, b2, b3}
  Nics = {1}
  BackendCapacity = 2
  ChtHeight = 3
  FlowExpiration = 2
  BackendExpiration = 1
SYMMETRY FlowAndIpSymmetry
INVARIANTS BackendsCoherent FlowsLeadHome Affinity
PROPERTY SentToActive
