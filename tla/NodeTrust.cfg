SPECIFICATION NodeSpec
CONSTANTS
  Upstreams = {u1}
  NoUpstream = NoUpstream
  Names = {u1}
  IPs = {i1, i2}
  NoIP = NoIP
  MonitoringEnabled = FALSE
  MaxRotations = 2
  MaxCA = 4
  MaxChanges = 2
  MaxMigrations = 0
  MaxFaults = 1
  Prompt = TRUE
INVARIANTS NodesTrustCaches DoneServesConfig FlowFindsBundle NodesInv
