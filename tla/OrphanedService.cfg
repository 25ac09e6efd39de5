SPECIFICATION Spec
CONSTANTS
  Upstreams = {u1, u2}
  NoUpstream = NoUpstream
  Names = {u1, u2}
  IPs = {i1, i2}
  NoIP = NoIP
  MonitoringEnabled = FALSE
  MaxRotations = 0
  MaxCA = 3
  MaxChanges = 1
  MaxMigrations = 1
  MaxFaults = 0
PROPERTIES FetchFailsOnlyIfServiceMissing
