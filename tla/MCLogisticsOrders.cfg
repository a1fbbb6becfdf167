CONSTANTS
  Batteries = {b1, b2}
  Orders = {o1, o2}
  w1 = w1
  s1 = s1
  Warehouses = {w1}
  Stations = {}
  Shelves = {}
  WarehouseOf <- Racks
  Capacity <- OneSlot
  None = None
  Drivers = {d1}
  Clerks = {c1, c2}
  Manifests = {}
  Serviced = {}
SPECIFICATION Spec
SYMMETRY Interchangeable
INVARIANTS TransitCustody TransitHasOrder ReservedForOrder DriverCommitted
CHECK_DEADLOCK FALSE
