SPECIFICATION Spec
CONSTANTS
  Upstreams = {u1, u2}
  NoUpstream = NoUpstream
  Names = {u1, u2}
  IPs = {i1, i2}
  NoIP = NoIP
  MonitoringEnabled = TRUE
  MaxRotations = 2
  MaxCA = 3
  MaxChanges = 1
  MaxMigrations = 0
  MaxFaults = 1
SYMMETRY Symmetry
INVARIANTS StatusCAExists StatusTrustsCertificates NextSignerPublished ReadyServesConfig SecretsInv
PROPERTY ImplementsPublishedStatus
