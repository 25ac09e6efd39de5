SPECIFICATION Spec
CONSTANTS
  Nil = Nil
  dot = dot
  dash = dash
  badPort = badPort
  noHost = noHost
  fits = fits
  cut = cut
  cutToo = cutToo
  spelled = spelled
  Registries <- OwnRegistries
  UpstreamOf <- OwnUpstreamOf
  Upstreams <- OwnUpstreams
  Char <- AllChars
  Hash <- OwnHash
  StorageClasses = {"fast"}
  Choices <- OwnChoices
  Menu <- OwnMenu
  GardenSecrets = {"s1", "s2"}
  Contents <- OwnContents
  Prompt = TRUE
  MaxChanges = 4
INVARIANTS TypeOK NamesAccepted NamesTellApart VolumesMatch ExpiryNotReenabled MountsKept CredentialsUsed
PROPERTY PodsServeConfig
