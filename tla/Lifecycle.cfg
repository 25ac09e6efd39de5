SPECIFICATION Spec
CONSTANTS
  Upstreams = {u1}
  NoUpstream = NoUpstream
  Names = {u1, x}
  IPs = {i1, i2}
  NoIP = NoIP
  MonitoringEnabled = TRUE
  MaxRotations = 0
  MaxCA = 3
  MaxChanges = 3
  MaxMigrations = 0
  MaxFaults = 1
SYMMETRY Symmetry
INVARIANTS TypeOK DeletedLeavesNothing ServicesInv
