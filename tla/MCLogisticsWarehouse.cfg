CONSTANTS
  Batteries = {b1}
  Orders = {o1}
  w1 = w1
  s1 = s1
  Warehouses = {w1}
  Stations = {t1}
  Shelves = {s1}
  WarehouseOf <- Racks
  Capacity <- OneSlot
  None = None
  Drivers = {d1, d2}
  Clerks = {c1}
  Manifests = {m1}
  Serviced = {b1}
SPECIFICATION Spec
SYMMETRY Interchangeable
INVARIANTS TransitCustody ShelfAgrees ManifestComplete
CHECK_DEADLOCK FALSE
