SPECIFICATION FairSpec
CONSTANTS
  u1 = u1
  u2 = u2
  port = port
  path = path
  long = long
  Upstreams = {u1}
  URLs = {long}
  SanitizedUpstream <- OwnUpstreams
  SanitizedURL <- FileNames
  Long = {"long"}
  Hash <- HashOfHost
  CutName <- Cut
  Refs = {r1, r2}
  NoRef = NoRef
  Bundles = {b1, b2}
  NoFile = NoFile
  MaxMirrors = 1
  MaxHosts = 2
  MaxChanges = 2
INVARIANTS DoneServesMirrors HostsHaveOwnBundle MirrorInv
PROPERTIES FlowCompletes DeletionCompletes
