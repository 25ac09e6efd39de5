SPECIFICATION NodeFairSpec
CONSTANTS
  Upstreams = {u1}
  NoUpstream = NoUpstream
  Names = {u1, x}
  IPs = {i1, i2}
  NoIP = NoIP
  MonitoringEnabled = FALSE
  MaxRotations = 0
  MaxCA = 2
  MaxChanges = 1
  MaxMigrations = 0
  MaxFaults = 1
  Prompt = FALSE
INVARIANTS DoneServesConfig ServingInv
PROPERTIES FlowCompletes NodesConverge
