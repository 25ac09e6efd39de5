SPECIFICATION Spec
CONSTANTS
  Nil = Nil
  dot = dot
  dash = dash
  badPort = badPort
  noHost = noHost
  fits = fits
  cut = cut
  cutToo = cutToo
  spelled = spelled
  Registries <- OwnRegistries
  UpstreamOf <- OwnUpstreamOf
  Upstreams <- OwnUpstreams
  Char <- AllChars
  Hash <- OwnHash
  StorageClasses = {"fast"}
  Choices <- OneRegistry
  Menu <- OwnMenu
  GardenSecrets = {"s1"}
  Contents <- OneContent
  Prompt = FALSE
  MaxChanges = 4
INVARIANT ExpiryNotReenabled
