SPECIFICATION Spec
CONSTANTS
  Keys = {f1, f2, f3}
  Capacity = 2
  MaxTime = 4
  StartPort = 2
  Ports = 4
  Expiration = 2
INVARIANTS TablesCoherent MappedWhileActive PortsDistinct
PROPERTIES DeliveredToOwner RefusedOnlyWhenFull
