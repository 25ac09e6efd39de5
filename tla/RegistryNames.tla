--------------------------- MODULE RegistryNames ---------------------------
(***************************************************************************)
(* The names that are computed from an upstream (pkg/utils/registry), and  *)
(* what the validation admits as an upstream or as the suffix of a         *)
(* Service name (pkg/apis/registry/validation).  Strings are sequences of  *)
(* characters, since the limits and the collisions of names are what is    *)
(* looked at; a hash is any function to five hexadecimal digits.           *)
(***************************************************************************)
EXTENDS Integers, Sequences

CONSTANTS
  Upstreams,  \* strings an owner may ask to cache
  Char,       \* the characters of upstreams and suffixes
  Hash,       \* the first five characters of the SHA256 of an upstream
  Nil         \* an optional field that is not set

Digit == {"0", "1", "2", "3", "4", "5", "6", "7", "8", "9"}
Alphanumeric ==
  Digit \cup {"a", "b", "c", "d", "e", "f", "g", "h", "i", "j", "k", "l", "m", "n",
              "o", "p", "q", "r", "s", "t", "u", "v", "w", "x", "y", "z"}

ASSUME UpstreamsAssumption == Upstreams \subseteq Seq(Char)
ASSUME CharAssumption == Alphanumeric \cup {".", ":", "-"} \subseteq Char
ASSUME HashAssumption ==
  /\ DOMAIN Hash = Upstreams
  /\ \A u \in Upstreams : Hash[u] \in Seq(Alphanumeric) /\ Len(Hash[u]) = 5

-----------------------------------------------------------------------------
(* What Kubernetes accepts (external).                                     *)

HasFormat(s, chars) ==
  /\ Len(s) > 0 /\ s[1] \in Alphanumeric /\ s[Len(s)] \in Alphanumeric
  /\ \A i \in 1..Len(s) : s[i] \in chars

IsDNS1123Label(s) == Len(s) <= 63 /\ HasFormat(s, Alphanumeric \cup {"-"})

(* Labels joined by single dots.                                           *)
IsDNS1123Subdomain(s) ==
  /\ Len(s) <= 253 /\ HasFormat(s, Alphanumeric \cup {"-", "."})
  /\ \A i \in 1..Len(s) : s[i] = "." => {s[i-1], s[i+1]} \subseteq Alphanumeric

IsLabelValue(s) == Len(s) <= 63 /\ HasFormat(s, Alphanumeric \cup {"-", "."})

(* The Pods of a StatefulSet carry its name, a dash and a hash of ten      *)
(* characters as the value of a label.                                     *)
PodsCanBeCreated(name) == Len(name) + 11 <= 63

(* The number that a digit stands for, and the one of a port: sixteen bits *)
(* and not zero.                                                           *)
Value(d) == CHOOSE n \in 0..9 : <<"0", "1", "2", "3", "4", "5", "6", "7", "8", "9">>[n + 1] = d

FromRight(p, k) == IF k < Len(p) THEN Value(p[Len(p) - k]) ELSE 0

PortNumber(p) ==
  FromRight(p, 0) + 10 * FromRight(p, 1) + 100 * FromRight(p, 2)
    + 1000 * FromRight(p, 3) + 10000 * FromRight(p, 4)

IsPort(p) == Len(p) <= 5 /\ 0 < PortNumber(p) /\ PortNumber(p) <= 65535

-----------------------------------------------------------------------------
(* strings.ReplaceAll(s, c, "-") for a single character.                   *)
Escaped(s, c) == [i \in 1..Len(s) |-> IF s[i] = c THEN "-" ELSE s[i]]

LabelValueLimit == 43

(* Mutant: the dash before the hash is not counted.                        *)
ComputeUpstreamLabelValueTooLong(u) ==
  IF Len(u) > LabelValueLimit
  THEN SubSeq(Escaped(u, ":"), 1, LabelValueLimit - Len(Hash[u])) \o <<"-">> \o Hash[u]
  ELSE Escaped(u, ":")

(* Mutant: a long upstream is cut without a hash.                          *)
ComputeUpstreamLabelValueCut(u) ==
  IF Len(u) > LabelValueLimit THEN SubSeq(Escaped(u, ":"), 1, 37) \o <<"-", "0">>
  ELSE Escaped(u, ":")

ComputeUpstreamLabelValue(u) ==
  IF Len(u) > LabelValueLimit
  THEN SubSeq(Escaped(u, ":"), 1, LabelValueLimit - Len(Hash[u]) - 1) \o <<"-">> \o Hash[u]
  ELSE Escaped(u, ":")

NamePrefix == <<"r", "e", "g", "i", "s", "t", "r", "y", "-">>

ComputeKubernetesResourceName(u) ==
  NamePrefix \o Escaped(ComputeUpstreamLabelValue(u), ".")

ComputeServiceName(u, suffix) ==
  IF suffix = Nil THEN ComputeKubernetesResourceName(u) ELSE NamePrefix \o suffix

-----------------------------------------------------------------------------
(* The validation of upstreams and suffixes.                               *)

MaxPort == <<"6", "5", "5", "3", "5">>

(* portRegexp: 1 to 65535 without leading zeros.                           *)
ValidPort(p) ==
  /\ Len(p) <= 5 /\ p[1] # "0"
  /\ \A i \in 1..5 :
       Len(p) = 5 /\ (\A j \in 1..i-1 : p[j] = MaxPort[j]) => Value(p[i]) <= Value(MaxPort[i])

(* What follows the last colon is a port if it consists of digits.         *)
HasPort(s, i) ==
  /\ i \in 1..Len(s)-1 /\ s[i] = ":"
  /\ \A j \in i+1..Len(s) : s[j] \in Digit

ValidateHostPort(s) ==
  IF \E i \in 1..Len(s) : HasPort(s, i)
  THEN \A i \in 1..Len(s) :
         HasPort(s, i) =>
           ValidPort(SubSeq(s, i + 1, Len(s))) /\ IsDNS1123Subdomain(SubSeq(s, 1, i - 1))
  ELSE IsDNS1123Subdomain(s)

ValidateServiceNameSuffix(suffix) ==
  suffix # Nil => IsDNS1123Label(suffix) /\ Len(suffix) <= 54

(* The upstream names a port that can be connected to, or none (external). *)
PortCanBeDialed(u) ==
  \A i \in 1..Len(u) : HasPort(u, i) => IsPort(SubSeq(u, i + 1, Len(u)))

-----------------------------------------------------------------------------
(* Upstreams that the names do not tell apart.                             *)

Separators == {".", ":", "-"}
AlikeAt(u, v, i) == u[i] = v[i] \/ {u[i], v[i]} \subseteq Separators

(* Equal up to the separators, all of them or the part that is kept.       *)
AlikeUpTo(u, v, n) ==
  Len(u) >= n /\ Len(v) >= n /\ \A i \in 1..n : AlikeAt(u, v, i)

(* Two upstreams that fit the limit share a name if they are alike; two    *)
(* longer ones only if their hashes are equal as well.  A long one and a   *)
(* short one share a name if the short one spells out the other's hash     *)
(* after a separator.                                                      *)
MayShareName(u, v) ==
  \/ /\ Len(u) <= LabelValueLimit /\ Len(v) <= LabelValueLimit
     /\ Len(u) = Len(v) /\ AlikeUpTo(u, v, Len(u))
  \/ /\ Len(u) > LabelValueLimit /\ Len(v) > LabelValueLimit
     /\ AlikeUpTo(u, v, 37) /\ Hash[u] = Hash[v]
  \/ /\ Len(u) > LabelValueLimit /\ Len(v) = LabelValueLimit
     /\ AlikeUpTo(u, v, 37) /\ v[38] \in Separators /\ SubSeq(v, 39, 43) = Hash[u]
  \/ /\ Len(u) = LabelValueLimit /\ Len(v) > LabelValueLimit
     /\ AlikeUpTo(u, v, 37) /\ u[38] \in Separators /\ SubSeq(u, 39, 43) = Hash[v]

=============================================================================
