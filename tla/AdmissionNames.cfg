SPECIFICATION RegistriesSpec
CONSTANTS
  u1 = u1
  u2 = u2
  n1 = n1
  n2 = n2
  Upstreams = {u1, u2}
  Names = {n1, n2}
  DefaultName <- OwnNames
  Suffixes = {n1, n2}
  NoName = NoName
  Refs = {r1}
  NoRef = NoRef
  MaxCaches = 2
INVARIANTS SuffixedServiceUnshared RegistriesOfOwners AdmittedIsDeployable
