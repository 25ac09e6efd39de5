----------------------- MODULE MCRegistryCacheObjects -----------------------
(* Instances of RegistryCacheObjects for TLC, with the real limits.        *)
EXTENDS RegistryCacheObjects, TLC

AllChars == Alphanumeric \cup {".", ":", "-"}
Pad(n) == [i \in 1..n |-> "a"]

CONSTANTS dot, dash, badPort, noHost, fits, cut, cutToo, spelled

(* 43 characters fit, 44 are cut; the cut ones agree in the first 37.      *)
OwnUpstreamOf ==
  dot :> <<"a", ".", "b">> @@ dash :> <<"a", "-", "b">> @@
  badPort :> <<"a", ":", "6", "5", "5", "3", "6">> @@ noHost :> <<":", "5">> @@
  fits :> Pad(41) \o <<":", "5">> @@ cut :> Pad(42) \o <<":", "5">> @@
  cutToo :> Pad(42) \o <<".", "b">> @@ spelled :> Pad(37) \o <<"-", "a", "0", "a", "0", "a">>

OwnRegistries == DOMAIN OwnUpstreamOf
OwnUpstreams == {OwnUpstreamOf[r] : r \in OwnRegistries}
OwnHash ==
  [u \in OwnUpstreams |-> IF u = OwnUpstreamOf[cut] THEN <<"a", "0", "a", "0", "a">>
                          ELSE <<"b", "0", "a", "0", "a">>]
OwnChoices == {{dot, dash}, {cut, cutToo}, {cut, spelled}, {fits}, {badPort}, {noHost}}

Plain ==
  [volume |-> Nil, garbageCollection |-> Nil, http |-> Nil, secretReferenceName |-> Nil,
   serviceNameSuffix |-> Nil]
OwnMenu ==
  {[Plain EXCEPT !.secretReferenceName = "credentials"],
   [Plain EXCEPT !.volume = [size |-> Nil, class |-> "fast"], !.serviceNameSuffix = Pad(54)],
   [Plain EXCEPT !.volume = [size |-> 20, class |-> Nil], !.garbageCollection = [ttl |-> 0],
                 !.serviceNameSuffix = Pad(55)],
   [Plain EXCEPT !.garbageCollection = [ttl |-> 0], !.http = [tls |-> FALSE]]}
EmptyObjects ==
  {Plain, [Plain EXCEPT !.garbageCollection = [ttl |-> Nil], !.http = [tls |-> Nil]]}

Good == [immutable |-> TRUE, username |-> "plain", password |-> "plain", others |-> FALSE]
OwnContents ==
  {Good, [Good EXCEPT !.immutable = FALSE], [Good EXCEPT !.immutable = FALSE, !.password = "empty"]}
OneRegistry == {{fits}}
OneContent == {Good}
=============================================================================
