SPECIFICATION FairSpec
CONSTANTS
  Upstreams = {u1}
  NoUpstream = NoUpstream
  Names = {u1}
  IPs = {i1, i2}
  NoIP = NoIP
  MonitoringEnabled = FALSE
  MaxRotations = 0
  MaxCA = 4
  MaxChanges = 2
  MaxMigrations = 1
  MaxFaults = 1
INVARIANTS StatusCAExists DestroyInv
PROPERTIES StatusConverges DeletionCompletes MigrationCompletes MigrationKeepsObjects ImplementsPublishedStatus
