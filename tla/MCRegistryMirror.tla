-------------------------- MODULE MCRegistryMirror --------------------------
(* Instances of RegistryMirror for TLC: a URL that is too long for a file  *)
(* name, and a port and a path that give the same file name.               *)
EXTENDS RegistryMirror, TLC

CONSTANTS u1, u2, port, path, long

OwnUpstreams == u1 :> "u1" @@ u2 :> "u2"
FileNames == port :> "short" @@ path :> "short" @@ long :> "long"
HashOfHost == [h \in Hosts |-> IF h.scheme = "http" THEN "h1" ELSE "h2"]
Cut == <<"long", "h1">> :> "lo-h1" @@ <<"long", "h2">> :> "lo-h2"
=============================================================================
