------------------------ MODULE RegistryNames_proof ------------------------
(***************************************************************************)
(* The names of any upstreams and suffixes, of whatever length: what the   *)
(* validation admits fits the limits of Kubernetes, and which upstreams    *)
(* share a name.                                                           *)
(***************************************************************************)
EXTENDS RegistryNames, SequenceTheorems, TLAPS

(* The characters of names, of labels and of upstreams.                    *)
NameChars == Alphanumeric \cup {"-"}
LabelChars == Alphanumeric \cup {"-", "."}
HostPortChars == Alphanumeric \cup Separators

LEMMA CharSets ==
  /\ HostPortChars \ {":"} \subseteq LabelChars /\ LabelChars \ {"."} \subseteq NameChars
  /\ Alphanumeric \subseteq NameChars /\ Alphanumeric \subseteq LabelChars
  /\ LabelChars \subseteq HostPortChars
  /\ "-" \in NameChars /\ "-" \in LabelChars /\ "-" \in HostPortChars
  BY DEF NameChars, LabelChars, HostPortChars, Separators

LEMMA Formats ==
  ASSUME NEW s
  PROVE  /\ IsLabelValue(s) <=> Len(s) <= 63 /\ HasFormat(s, LabelChars)
         /\ IsDNS1123Label(s) <=> Len(s) <= 63 /\ HasFormat(s, NameChars)
         /\ IsDNS1123Subdomain(s) => HasFormat(s, LabelChars)
  BY Zenon DEF IsLabelValue, IsDNS1123Label, IsDNS1123Subdomain, LabelChars, NameChars

LEMMA WiderFormat ==
  ASSUME NEW s, NEW chars, NEW wider, HasFormat(s, chars), chars \subseteq wider
  PROVE  HasFormat(s, wider)
  BY Zenon DEF HasFormat

LEMMA Separate == Separators \cap Alphanumeric = {} /\ Digit \subseteq Alphanumeric
  BY DEF Separators, Alphanumeric, Digit

LEMMA EscapedProperties ==
  ASSUME NEW s \in Seq(Char), NEW c
  PROVE  /\ Escaped(s, c) \in Seq(Char) /\ Len(Escaped(s, c)) = Len(s)
         /\ \A i \in 1..Len(s) : Escaped(s, c)[i] = IF s[i] = c THEN "-" ELSE s[i]
  <1>1. "-" \in Char
    BY CharAssumption
  <1>2. Len(s) \in Nat /\ \A i \in 1..Len(s) : s[i] \in Char
    BY LenProperties
  <1> QED
    BY <1>1, <1>2 DEF Escaped

LEMMA EscapedFormat ==
  ASSUME NEW s \in Seq(Char), NEW c \in Separators \ {"-"}, NEW chars, "-" \in chars,
         HasFormat(s, chars)
  PROVE  HasFormat(Escaped(s, c), chars \ {c})
  <1>1. Len(s) \in Nat
    BY LenProperties
  <1> QED
    BY <1>1, EscapedProperties, Separate DEF HasFormat

(* Concatenation as a relation, for provers that would expand it.          *)
IsConcat(c, s, t) == c = s \o t

IsJoined(c, s, t) ==
  /\ c \in Seq(Char) /\ Len(s) \in Nat /\ Len(t) \in Nat /\ Len(c) = Len(s) + Len(t)
  /\ \A i \in 1..Len(s) : c[i] = s[i]
  /\ \A i \in 1..Len(t) : c[Len(s) + i] = t[i]

LEMMA ConcatAt ==
  ASSUME NEW s \in Seq(Char), NEW t \in Seq(Char), NEW c, IsConcat(c, s, t)
  PROVE  IsJoined(c, s, t)
  <1>1. /\ c \in Seq(Char) /\ Len(c) = Len(s) + Len(t)
        /\ \A i \in 1..Len(s) + Len(t) : c[i] = IF i <= Len(s) THEN s[i] ELSE t[i - Len(s)]
    BY ConcatProperties, Zenon DEF IsConcat
  <1>2. Len(s) \in Nat /\ Len(t) \in Nat
    BY LenProperties
  <1>3. ASSUME NEW i \in 1..Len(s) PROVE c[i] = s[i]
    BY <1>1, <1>2
  <1>4. ASSUME NEW i \in 1..Len(t) PROVE c[Len(s) + i] = t[i]
    <2>1. /\ Len(s) + i \in 1..Len(s) + Len(t) /\ ~(Len(s) + i <= Len(s))
          /\ (Len(s) + i) - Len(s) = i
      BY <1>2
    <2>2. c[Len(s) + i] = t[(Len(s) + i) - Len(s)]
      BY <1>1, <2>1, Zenon
    <2> QED
      BY <2>1, <2>2, Zenon
  <1> QED
    BY <1>1, <1>2, <1>3, <1>4, Zenon DEF IsJoined

LEMMA ConcatFormat ==
  ASSUME NEW s \in Seq(Char), NEW t \in Seq(Char), NEW c, IsConcat(c, s, t), NEW chars,
         Len(s) > 0, Len(t) > 0, s[1] \in Alphanumeric, t[Len(t)] \in Alphanumeric,
         \A i \in 1..Len(s) : s[i] \in chars, \A i \in 1..Len(t) : t[i] \in chars
  PROVE  HasFormat(c, chars)
  <1>1. /\ Len(s) \in Nat /\ Len(t) \in Nat /\ Len(c) = Len(s) + Len(t)
        /\ \A i \in 1..Len(s) : c[i] = s[i]
        /\ \A i \in 1..Len(t) : c[Len(s) + i] = t[i]
    <2>1. IsJoined(c, s, t)
      BY ConcatAt, Zenon
    <2> QED
      BY <2>1, Zenon DEF IsJoined
  <1>2. ASSUME NEW i \in 1..Len(c) PROVE c[i] \in chars
    <2>1. CASE i <= Len(s)
      BY <1>1, <2>1
    <2>2. CASE i > Len(s)
      <3>1. PICK j \in 1..Len(t) : i = Len(s) + j
        <4>1. i - Len(s) \in 1..Len(t) /\ i = Len(s) + (i - Len(s))
          BY <1>1, <2>2
        <4> QED
          BY <4>1
      <3> QED
        BY <1>1, <3>1
    <2> QED
      BY <1>1, <2>1, <2>2
  <1>3. c[1] = s[1] /\ c[Len(c)] = t[Len(t)] /\ Len(c) > 0
    BY <1>1
  <1> QED
    BY <1>2, <1>3 DEF HasFormat

LEMMA UpstreamFormat ==
  ASSUME NEW u \in Upstreams, ValidateHostPort(u)
  PROVE  HasFormat(u, HostPortChars) /\ u \in Seq(Char)
  <1>1. u \in Seq(Char) /\ Len(u) \in Nat
    BY UpstreamsAssumption, LenProperties
  <1>2. CASE \E i \in 1..Len(u) : HasPort(u, i)
    <2>1. PICK i \in 1..Len(u) : HasPort(u, i)
      BY <1>2
    <2>2. i \in 1..Len(u)-1 /\ u[i] = ":" /\ \A j \in i+1..Len(u) : u[j] \in Digit
      BY <2>1 DEF HasPort
    <2>3. IsDNS1123Subdomain(SubSeq(u, 1, i - 1))
      BY <1>2, <2>1 DEF ValidateHostPort
    <2>4. /\ Len(SubSeq(u, 1, i - 1)) = IF 1 <= i - 1 THEN i - 1 ELSE 0
          /\ \A j \in 1..i-1 : SubSeq(u, 1, i - 1)[j] = u[j]
      <3>1. \A j \in 1..i-1 : u[j] \in Char
        BY <1>1, LenProperties
      <3> QED
        BY <1>1, <3>1, SubSeqProperties
    <2>5. i > 1 /\ u[1] \in Alphanumeric
          /\ \A j \in 1..i-1 : u[j] \in LabelChars
      <3>1. HasFormat(SubSeq(u, 1, i - 1), LabelChars)
        BY <2>3, Formats, Zenon
      <3> QED
        BY <1>1, <2>4, <3>1 DEF HasFormat
    <2>6. \A j \in 1..Len(u) : j < i \/ j = i \/ j \in i+1..Len(u)
      BY <1>1
    <2> QED
      BY <1>1, <2>2, <2>5, <2>6, Separate, CharSets DEF HasFormat, HostPortChars, Separators
  <1>3. CASE ~\E i \in 1..Len(u) : HasPort(u, i)
    <2>1. HasFormat(u, LabelChars)
      BY <1>3, Formats, Zenon DEF ValidateHostPort
    <2> QED
      BY <1>1, <2>1, CharSets, WiderFormat
  <1> QED
    BY <1>2, <1>3

(* What a long upstream is cut to, and its hash.                           *)
IsCut(kept, u) ==
  /\ kept \in Seq(Char) /\ Len(kept) = 38 /\ kept[38] = "-"
  /\ \A i \in 1..37 : kept[i] = Escaped(u, ":")[i]

LEMMA HashProperties ==
  ASSUME NEW u \in Upstreams
  PROVE  Hash[u] \in Seq(Char) /\ Len(Hash[u]) = 5 /\ \A i \in 1..5 : Hash[u][i] \in Alphanumeric
  <1>1. Hash[u] \in Seq(Alphanumeric) /\ Len(Hash[u]) = 5
    BY HashAssumption
  <1>2. \A i \in 1..5 : Hash[u][i] \in Alphanumeric
    BY <1>1, ElementOfSeq
  <1>3. Hash[u] \in Seq(Char)
    BY <1>1, CharAssumption, SeqMonotonic
  <1> QED
    BY <1>1, <1>2, <1>3

LEMMA CutProperties ==
  ASSUME NEW u \in Upstreams, Len(u) > LabelValueLimit
  PROVE  \E kept : IsCut(kept, u) /\ IsConcat(ComputeUpstreamLabelValue(u), kept, Hash[u])
  <1>1. u \in Seq(Char) /\ Len(u) \in Nat /\ Len(u) > 43
    BY UpstreamsAssumption, LenProperties DEF LabelValueLimit
  <1>2. PICK e : e = Escaped(u, ":")
    OBVIOUS
  <1>3. e \in Seq(Char) /\ Len(e) = Len(u)
    BY <1>1, <1>2, EscapedProperties
  <1>4. PICK head : head = SubSeq(e, 1, 37)
    OBVIOUS
  <1>5. head \in Seq(Char) /\ Len(head) = 37 /\ \A i \in 1..37 : head[i] = e[i]
    <2>1. \A j \in 1..37 : e[j] \in Char
      BY <1>1, <1>3, ElementOfSeq
    <2> QED
      BY <1>4, <2>1, SubSeqProperties
  <1>6. PICK dash : dash = <<"-">>
    OBVIOUS
  <1>7. dash \in Seq(Char) /\ Len(dash) = 1 /\ dash[1] = "-"
    BY <1>6, CharAssumption
  <1>8. PICK kept : IsConcat(kept, head, dash)
    BY DEF IsConcat
  <1>9. /\ kept \in Seq(Char) /\ Len(kept) = 38 /\ kept[38] = "-"
        /\ \A i \in 1..37 : kept[i] = head[i]
    <2>1. /\ kept \in Seq(Char) /\ Len(kept) = Len(head) + Len(dash)
          /\ \A i \in 1..Len(head) : kept[i] = head[i]
          /\ \A i \in 1..Len(dash) : kept[Len(head) + i] = dash[i]
      <3>1. IsJoined(kept, head, dash)
        BY <1>5, <1>7, <1>8, ConcatAt, Zenon
      <3> QED
        BY <3>1, Zenon DEF IsJoined
    <2>2. Len(kept) = 38 /\ kept[38] = "-"
      BY <1>5, <1>7, <2>1
    <2> QED
      BY <1>5, <2>1, <2>2, Zenon
  <1>10. IsCut(kept, u)
    BY <1>2, <1>5, <1>9 DEF IsCut
  <1>11. LabelValueLimit - Len(Hash[u]) - 1 = 37
    <2>1. Len(Hash[u]) = 5
      BY HashAssumption
    <2> QED
      BY <2>1, Z3 DEF LabelValueLimit
  <1>12. ComputeUpstreamLabelValue(u) = SubSeq(Escaped(u, ":"), 1, 37) \o <<"-">> \o Hash[u]
    BY <1>11, Zenon DEF ComputeUpstreamLabelValue
  <1>13. ComputeUpstreamLabelValue(u) = kept \o Hash[u]
    BY <1>2, <1>4, <1>6, <1>8, <1>12, Zenon DEF IsConcat
  <1>14. IsConcat(ComputeUpstreamLabelValue(u), kept, Hash[u])
    BY <1>13, Zenon DEF IsConcat
  <1> QED
    BY <1>10, <1>14, Zenon

LEMMA ShortLabel ==
  ASSUME NEW u, ~(Len(u) > LabelValueLimit)
  PROVE  ComputeUpstreamLabelValue(u) = Escaped(u, ":")
  BY Zenon DEF ComputeUpstreamLabelValue

LEMMA LabelFormat ==
  ASSUME NEW u \in Upstreams, ValidateHostPort(u), NEW label, label = ComputeUpstreamLabelValue(u)
  PROVE  /\ label \in Seq(Char) /\ Len(label) \in Nat /\ Len(label) <= 43
         /\ HasFormat(label, LabelChars)
  <1>1. u \in Seq(Char) /\ Len(u) \in Nat /\ HasFormat(u, HostPortChars)
    BY UpstreamFormat, LenProperties
  <1>2. PICK e : e = Escaped(u, ":")
    OBVIOUS
  <1>3. e \in Seq(Char) /\ Len(e) = Len(u)
    BY <1>1, <1>2, EscapedProperties
  <1>4. HasFormat(e, LabelChars)
    <2>1. HasFormat(e, HostPortChars \ {":"})
      <3>1. ":" \in Separators \ {"-"}
        BY DEF Separators
      <3> QED
        BY <1>1, <1>2, <3>1, CharSets, EscapedFormat, Zenon
    <2> QED
      BY <2>1, CharSets, WiderFormat, Zenon
  <1>5. CASE ~(Len(u) > LabelValueLimit)
    <2>1. label = e
      BY <1>2, <1>5, ShortLabel
    <2> QED
      BY <1>1, <1>3, <1>4, <1>5, <2>1 DEF LabelValueLimit
  <1>6. CASE Len(u) > LabelValueLimit
    <2>1. PICK kept : IsCut(kept, u) /\ IsConcat(label, kept, Hash[u])
      BY <1>6, CutProperties, Zenon
    <2>2. PICK h : h = Hash[u]
      OBVIOUS
    <2>3. /\ h \in Seq(Char) /\ Len(h) = 5 /\ h[5] \in Alphanumeric
          /\ \A i \in 1..5 : h[i] \in LabelChars
      <3>1. h \in Seq(Char) /\ Len(h) = 5 /\ \A i \in 1..5 : h[i] \in Alphanumeric
        BY <2>2, HashProperties, Zenon
      <3>2. 5 \in 1..5
        OBVIOUS
      <3> QED
        BY <3>1, <3>2, CharSets, Zenon
    <2>4. /\ kept \in Seq(Char) /\ Len(kept) = 38 /\ kept[38] = "-"
          /\ \A i \in 1..37 : kept[i] = e[i]
      BY <1>2, <2>1, Zenon DEF IsCut
    <2>5. /\ kept[1] \in Alphanumeric
          /\ \A i \in 1..38 : kept[i] \in LabelChars
      <3>1. /\ e[1] \in Alphanumeric
            /\ \A i \in 1..37 : e[i] \in LabelChars
        <4>1. Len(e) \in Nat /\ Len(e) > 37
          BY <1>1, <1>3, <1>6 DEF LabelValueLimit
        <4>2. /\ e[1] \in Alphanumeric
              /\ \A i \in 1..Len(e) : e[i] \in LabelChars
          BY <1>4, Zenon DEF HasFormat
        <4>3. 1 \in 1..Len(e) /\ \A i \in 1..37 : i \in 1..Len(e)
          BY <4>1
        <4> QED
          BY <4>2, <4>3, Zenon
      <3>2. \A i \in 1..38 : i \in 1..37 \/ i = 38
        OBVIOUS
      <3>3. 1 \in 1..37
        OBVIOUS
      <3>4. kept[1] \in Alphanumeric
        BY <2>4, <3>1, <3>3, Zenon
      <3>5. ASSUME NEW i \in 1..38 PROVE kept[i] \in LabelChars
        BY <2>4, <3>1, <3>2, CharSets, Zenon
      <3> QED
        BY <3>4, <3>5, Zenon
    <2>6. IsConcat(label, kept, h)
      BY <2>1, <2>2, Zenon
    <2>7. HasFormat(label, LabelChars)
      <3>1. /\ Len(kept) > 0 /\ Len(h) > 0 /\ h[Len(h)] \in Alphanumeric
            /\ \A i \in 1..Len(kept) : kept[i] \in LabelChars
            /\ \A i \in 1..Len(h) : h[i] \in LabelChars
        BY <2>3, <2>4, <2>5
      <3> QED
        BY <2>3, <2>4, <2>5, <2>6, <3>1, ConcatFormat, Zenon
    <2>8. label \in Seq(Char) /\ Len(label) = 43
      <3>1. label \in Seq(Char) /\ Len(label) = Len(kept) + Len(h)
        <4>1. IsJoined(label, kept, h)
          BY <2>3, <2>4, <2>6, ConcatAt, Zenon
        <4> QED
          BY <4>1, Zenon DEF IsJoined
      <3> QED
        BY <2>3, <2>4, <3>1
    <2> QED
      BY <2>7, <2>8
  <1> QED
    BY <1>5, <1>6

LEMMA PrefixProperties ==
  /\ NamePrefix \in Seq(Char) /\ Len(NamePrefix) = 9
  /\ NamePrefix[1] \in Alphanumeric
  /\ \A i \in 1..9 : NamePrefix[i] \in NameChars
  <1>1. \A x \in {"r", "e", "g", "i", "s", "t", "y"} : x \in Alphanumeric
    BY DEF Alphanumeric
  <1>2. {"r", "e", "g", "i", "s", "t", "y", "-"} \subseteq Char
    BY <1>1, CharAssumption, Zenon
  <1>3. NamePrefix \in Seq({"r", "e", "g", "i", "s", "t", "y", "-"})
    BY DEF NamePrefix
  <1>4. NamePrefix \in Seq(Char)
    BY <1>2, <1>3, SeqMonotonic, Zenon
  <1>5. Len(NamePrefix) = 9 /\ NamePrefix[1] = "r"
    BY DEF NamePrefix
  <1>6. \A i \in 1..9 : NamePrefix[i] \in {"r", "e", "g", "i", "s", "t", "y", "-"}
    BY DEF NamePrefix
  <1> QED
    BY <1>1, <1>4, <1>5, <1>6, CharSets

LEMMA PrefixedFormat ==
  ASSUME NEW s \in Seq(Char), HasFormat(s, NameChars), NEW c, IsConcat(c, NamePrefix, s)
  PROVE  Len(c) = 9 + Len(s) /\ HasFormat(c, NameChars)
  <1>1. 9 \in Nat /\ Len(s) \in Nat
    BY LenProperties
  <1>2. Len(c) = 9 + Len(s)
    <2>1. Len(c) = Len(NamePrefix) + Len(s)
      <3>1. IsJoined(c, NamePrefix, s)
        BY PrefixProperties, ConcatAt, Zenon
      <3> QED
        BY <3>1, Zenon DEF IsJoined
    <2> QED
      BY <2>1, PrefixProperties, Zenon
  <1>3. /\ Len(NamePrefix) > 0 /\ Len(s) > 0 /\ s[Len(s)] \in Alphanumeric
        /\ \A i \in 1..Len(s) : s[i] \in NameChars
        /\ \A i \in 1..Len(NamePrefix) : NamePrefix[i] \in NameChars
    BY PrefixProperties DEF HasFormat
  <1> QED
    BY <1>2, <1>3, PrefixProperties, ConcatFormat, Zenon

LEMMA NameFormat ==
  ASSUME NEW u \in Upstreams, ValidateHostPort(u),
         NEW name, name = ComputeKubernetesResourceName(u)
  PROVE  Len(name) \in Nat /\ Len(name) <= 52 /\ HasFormat(name, NameChars)
  <1>1. PICK label : label = ComputeUpstreamLabelValue(u)
    OBVIOUS
  <1>2. /\ label \in Seq(Char) /\ Len(label) \in Nat /\ Len(label) <= 43
        /\ HasFormat(label, LabelChars)
    BY <1>1, LabelFormat, Zenon
  <1>3. PICK e : e = Escaped(label, ".")
    OBVIOUS
  <1>4. e \in Seq(Char) /\ Len(e) = Len(label)
    BY <1>2, <1>3, EscapedProperties
  <1>5. HasFormat(e, LabelChars \ {"."})
    <2>1. "." \in Separators \ {"-"}
      BY DEF Separators
    <2> QED
      BY <1>2, <1>3, <2>1, CharSets, EscapedFormat, Zenon
  <1>6. HasFormat(e, NameChars)
    BY <1>5, CharSets, WiderFormat, Zenon
  <1>7. IsConcat(name, NamePrefix, e)
    BY <1>1, <1>3, Zenon DEF ComputeKubernetesResourceName, IsConcat
  <1>8. Len(name) = 9 + Len(e) /\ HasFormat(name, NameChars)
    BY <1>4, <1>6, <1>7, PrefixedFormat, Zenon
  <1> QED
    BY <1>2, <1>4, <1>8

-----------------------------------------------------------------------------
(* Ports.                                                                  *)

LEMMA ValueProperties ==
  ASSUME NEW d \in Digit
  PROVE  Value(d) \in 0..9 /\ (Value(d) = 0 => d = "0")
  <1> DEFINE Digits == <<"0", "1", "2", "3", "4", "5", "6", "7", "8", "9">>
  <1>1. \E n \in 0..9 : Digits[n + 1] = d
    BY DEF Digit
  <1>2. Value(d) \in 0..9 /\ Digits[Value(d) + 1] = d
    BY <1>1, Zenon DEF Value
  <1>3. Value(d) = 0 => d = Digits[1]
    BY <1>2
  <1> QED
    BY <1>2, <1>3

LEMMA MaxPortValues ==
  /\ Value(MaxPort[1]) = 6 /\ Value(MaxPort[2]) = 5 /\ Value(MaxPort[3]) = 5
  /\ Value(MaxPort[4]) = 3 /\ Value(MaxPort[5]) = 5
  BY DEF Value, MaxPort

LEMMA ValuesTellDigits ==
  ASSUME NEW c \in Digit, NEW d \in Digit, Value(c) = Value(d)
  PROVE  c = d
  BY DEF Value, Digit

LEMMA FourDigits ==
  ASSUME NEW a \in 0..9, NEW b \in 0..9, NEW c \in 0..9, NEW d \in 0..9,
         a # 0 \/ b # 0 \/ c # 0 \/ d # 0
  PROVE  0 < a + 10 * b + 100 * c + 1000 * d /\ a + 10 * b + 100 * c + 1000 * d <= 65535
  OBVIOUS

LEMMA FiveDigits ==
  ASSUME NEW a \in 1..9, NEW b \in 0..9, NEW c \in 0..9, NEW d \in 0..9, NEW e \in 0..9,
         a <= 6, a = 6 => b <= 5, a = 6 /\ b = 5 => c <= 5, a = 6 /\ b = 5 /\ c = 5 => d <= 3,
         a = 6 /\ b = 5 /\ c = 5 /\ d = 3 => e <= 5
  PROVE  /\ 0 < e + 10 * d + 100 * c + 1000 * b + 10000 * a
         /\ e + 10 * d + 100 * c + 1000 * b + 10000 * a <= 65535
  OBVIOUS

(* The regular expression for ports admits no number that is none.         *)
LEMMA ValidPortIsPort ==
  ASSUME NEW p, Len(p) \in Nat \ {0}, \A i \in 1..Len(p) : p[i] \in Digit, ValidPort(p)
  PROVE  IsPort(p)
  <1>1. Len(p) \in 1..5 /\ p[1] # "0"
    <2>1. PICK n : n = Len(p)
      OBVIOUS
    <2>2. n \in Nat \ {0} /\ n <= 5
      BY <2>1, Zenon DEF ValidPort
    <2>3. n \in 1..5
      BY <2>2
    <2>4. p[1] # "0"
      BY Zenon DEF ValidPort
    <2> QED
      BY <2>1, <2>3, <2>4, Zenon
  <1>2. PICK v : v = [i \in 1..Len(p) |-> Value(p[i])]
    OBVIOUS
  <1>3. /\ \A i \in 1..Len(p) : Value(p[i]) = v[i] /\ v[i] \in 0..9
        /\ v[1] # 0
    <2>1. \A i \in 1..Len(p) : Value(p[i]) = v[i]
      BY <1>2
    <2>2. \A i \in 1..Len(p) : v[i] \in 0..9 /\ (v[i] = 0 => p[i] = "0")
      BY <2>1, ValueProperties, Zenon
    <2>3. 1 \in 1..Len(p)
      BY <1>1
    <2> QED
      BY <1>1, <2>1, <2>2, <2>3, Zenon
  <1>4. CASE Len(p) = 5
    <2>1. \A i \in 1..5 : v[i] \in 0..9
      BY <1>3, <1>4, Zenon
    <2>2. /\ v[1] \in 1..9 /\ v[2] \in 0..9 /\ v[3] \in 0..9 /\ v[4] \in 0..9 /\ v[5] \in 0..9
      BY <1>3, <2>1
    <2>3. ASSUME NEW i \in 1..5, v[i] = Value(MaxPort[i])
          PROVE  p[i] = MaxPort[i]
      <3>1. p[i] \in Digit /\ Value(p[i]) = v[i]
        BY <1>3, <1>4, Zenon
      <3>2. MaxPort[i] \in Digit
        BY DEF MaxPort, Digit
      <3> QED
        BY <2>3, <3>1, <3>2, ValuesTellDigits, Zenon
    <2>4. ASSUME NEW i \in 1..5, \A j \in 1..i-1 : v[j] = Value(MaxPort[j])
          PROVE  v[i] <= Value(MaxPort[i])
      <3>1. \A j \in 1..i-1 : j \in 1..5
        OBVIOUS
      <3>2. \A j \in 1..i-1 : p[j] = MaxPort[j]
        BY <2>3, <2>4, <3>1, Zenon
      <3>3. Value(p[i]) <= Value(MaxPort[i])
        BY <1>4, <3>2, Zenon DEF ValidPort
      <3> QED
        BY <1>3, <1>4, <3>3, Zenon
    <2>5. /\ v[1] <= 6
          /\ v[1] = 6 => v[2] <= 5
          /\ v[1] = 6 /\ v[2] = 5 => v[3] <= 5
          /\ v[1] = 6 /\ v[2] = 5 /\ v[3] = 5 => v[4] <= 3
          /\ v[1] = 6 /\ v[2] = 5 /\ v[3] = 5 /\ v[4] = 3 => v[5] <= 5
      <3>1. v[1] <= 6
        BY <2>4, MaxPortValues
      <3>2. v[1] = 6 => v[2] <= 5
        BY <2>4, MaxPortValues
      <3>3. v[1] = 6 /\ v[2] = 5 => v[3] <= 5
        BY <2>4, MaxPortValues
      <3>4. v[1] = 6 /\ v[2] = 5 /\ v[3] = 5 => v[4] <= 3
        BY <2>4, MaxPortValues
      <3>5. v[1] = 6 /\ v[2] = 5 /\ v[3] = 5 /\ v[4] = 3 => v[5] <= 5
        BY <2>4, MaxPortValues
      <3> QED
        BY <3>1, <3>2, <3>3, <3>4, <3>5, Zenon
    <2>6. PortNumber(p) = v[5] + 10 * v[4] + 100 * v[3] + 1000 * v[2] + 10000 * v[1]
      BY <1>3, <1>4 DEF PortNumber, FromRight
    <2>7. PICK a, b, c, d, e :
            a = v[1] /\ b = v[2] /\ c = v[3] /\ d = v[4] /\ e = v[5]
      OBVIOUS
    <2>8. a \in 1..9 /\ b \in 0..9 /\ c \in 0..9 /\ d \in 0..9 /\ e \in 0..9
      BY <2>2, <2>7, Zenon
    <2>9. /\ a <= 6 /\ (a = 6 => b <= 5) /\ (a = 6 /\ b = 5 => c <= 5)
          /\ (a = 6 /\ b = 5 /\ c = 5 => d <= 3)
          /\ (a = 6 /\ b = 5 /\ c = 5 /\ d = 3 => e <= 5)
      BY <2>5, <2>7, Zenon
    <2>10. /\ 0 < e + 10 * d + 100 * c + 1000 * b + 10000 * a
           /\ e + 10 * d + 100 * c + 1000 * b + 10000 * a <= 65535
      BY <2>8, <2>9, FiveDigits
    <2>11. PortNumber(p) = e + 10 * d + 100 * c + 1000 * b + 10000 * a
      BY <2>6, <2>7
    <2>12. Len(p) <= 5
      BY <1>4
    <2> QED
      BY <2>10, <2>11, <2>12 DEF IsPort
  <1>5. CASE Len(p) # 5
    <2>1. /\ FromRight(p, 0) = v[Len(p)] /\ FromRight(p, 4) = 0
          /\ \A k \in 1..3 : FromRight(p, k) = IF k < Len(p) THEN v[Len(p) - k] ELSE 0
      BY <1>1, <1>3, <1>5 DEF FromRight
    <2>2. \A k \in 0..3 : FromRight(p, k) \in 0..9
      BY <1>1, <1>3, <1>5, <2>1
    <2>3. FromRight(p, Len(p) - 1) # 0 /\ Len(p) - 1 \in 0..3
      BY <1>1, <1>3, <1>5 DEF FromRight
    <2>4. PICK a, b, c, d :
            /\ a = FromRight(p, 0) /\ b = FromRight(p, 1)
            /\ c = FromRight(p, 2) /\ d = FromRight(p, 3)
      OBVIOUS
    <2>5. a \in 0..9 /\ b \in 0..9 /\ c \in 0..9 /\ d \in 0..9
      BY <2>2, <2>4
    <2>6. a # 0 \/ b # 0 \/ c # 0 \/ d # 0
      <3>1. Len(p) - 1 = 0 \/ Len(p) - 1 = 1 \/ Len(p) - 1 = 2 \/ Len(p) - 1 = 3
        BY <2>3
      <3> QED
        BY <2>3, <2>4, <3>1, Zenon
    <2>7. /\ 0 < a + 10 * b + 100 * c + 1000 * d
          /\ a + 10 * b + 100 * c + 1000 * d <= 65535
      BY <2>5, <2>6, FourDigits
    <2>8. PortNumber(p) = a + 10 * b + 100 * c + 1000 * d
      BY <2>1, <2>4, <2>5 DEF PortNumber
    <2>9. Len(p) <= 5
      BY <1>1
    <2> QED
      BY <2>7, <2>8, <2>9 DEF IsPort
  <1> QED
    BY <1>4, <1>5

(* An upstream and a suffix that the validation admits lead to labels,     *)
(* StatefulSets, Pods and Services that Kubernetes accepts, and a port of  *)
(* the upstream to one that exists.                                        *)
THEOREM NamesFit ==
  ASSUME NEW u \in Upstreams, ValidateHostPort(u),
         NEW suffix \in Seq(Char) \cup {Nil}, ValidateServiceNameSuffix(suffix)
  PROVE  /\ IsLabelValue(ComputeUpstreamLabelValue(u))
         /\ IsDNS1123Label(ComputeKubernetesResourceName(u))
         /\ PodsCanBeCreated(ComputeKubernetesResourceName(u))
         /\ IsDNS1123Label(ComputeServiceName(u, suffix))
         /\ PortCanBeDialed(u)
  <1>1. IsLabelValue(ComputeUpstreamLabelValue(u))
    <2>1. PICK label : label = ComputeUpstreamLabelValue(u)
      OBVIOUS
    <2>2. IsLabelValue(label)
      <3>1. Len(label) \in Nat /\ Len(label) <= 43 /\ HasFormat(label, LabelChars)
        BY <2>1, LabelFormat, Zenon
      <3>2. Len(label) <= 63
        BY <3>1
      <3> QED
        BY <3>1, <3>2, Formats, Zenon
    <2> QED
      BY <2>1, <2>2, Zenon
  <1>2. PICK name : name = ComputeKubernetesResourceName(u)
    OBVIOUS
  <1>3. IsDNS1123Label(name) /\ PodsCanBeCreated(name)
    <2>1. Len(name) \in Nat /\ Len(name) <= 52 /\ HasFormat(name, NameChars)
      BY <1>2, NameFormat, Zenon
    <2>2. Len(name) <= 63 /\ PodsCanBeCreated(name)
      BY <2>1 DEF PodsCanBeCreated
    <2> QED
      BY <2>1, <2>2, Formats, Zenon
  <1>4. PICK service : service = ComputeServiceName(u, suffix)
    OBVIOUS
  <1>5. PortCanBeDialed(u)
    <2> SUFFICES ASSUME NEW i \in 1..Len(u), HasPort(u, i)
                 PROVE  IsPort(SubSeq(u, i + 1, Len(u)))
      BY Zenon DEF PortCanBeDialed
    <2>1. ValidPort(SubSeq(u, i + 1, Len(u)))
      BY Zenon DEF ValidateHostPort
    <2>2. u \in Seq(Char) /\ Len(u) \in Nat
      BY UpstreamsAssumption, LenProperties
    <2>3. i < Len(u) /\ \A j \in i+1..Len(u) : u[j] \in Digit
      BY <2>2 DEF HasPort
    <2>4. PICK p : p = SubSeq(u, i + 1, Len(u))
      OBVIOUS
    <2>5. \A j \in i+1..Len(u) : u[j] \in Char
      BY <2>2, LenProperties
    <2>6. /\ Len(p) = IF i + 1 <= Len(u) THEN Len(u) - (i + 1) + 1 ELSE 0
          /\ \A j \in 1..Len(u) - (i + 1) + 1 : p[j] = u[i + 1 + j - 1]
      BY <2>2, <2>4, <2>5, SubSeqProperties
    <2>7. Len(p) \in Nat \ {0} /\ \A j \in 1..Len(p) : p[j] \in Digit
      BY <2>2, <2>3, <2>6
    <2> QED
      BY <2>1, <2>4, <2>7, ValidPortIsPort, Zenon
  <1>6. CASE suffix = Nil
    BY <1>1, <1>2, <1>3, <1>4, <1>6, <1>5, Zenon DEF ComputeServiceName
  <1>7. CASE suffix # Nil
    <2>1. suffix \in Seq(Char) /\ Len(suffix) \in Nat /\ Len(suffix) <= 54
          /\ HasFormat(suffix, NameChars)
      BY <1>7, LenProperties, Formats DEF ValidateServiceNameSuffix
    <2>2. IsConcat(service, NamePrefix, suffix)
      BY <1>4, <1>7, Zenon DEF ComputeServiceName, IsConcat
    <2>3. Len(service) = 9 + Len(suffix) /\ HasFormat(service, NameChars)
      BY <2>1, <2>2, PrefixedFormat, Zenon
    <2>4. IsDNS1123Label(service)
      <3>1. Len(service) <= 63
        BY <2>1, <2>3
      <3> QED
        BY <2>3, <3>1, Formats, Zenon
    <2> QED
      BY <1>1, <1>2, <1>3, <1>4, <1>5, <2>4, Zenon
  <1> QED
    BY <1>6, <1>7

-----------------------------------------------------------------------------
(* What a name tells of its upstream: the characters but for the kind of   *)
(* separator, all of them or the first 37, and then the hash.              *)

Flat(u) == Escaped(ComputeUpstreamLabelValue(u), ".")
FlatChar(c) == IF c \in Separators THEN "-" ELSE c

LEMMA ShortFlat ==
  ASSUME NEW u \in Upstreams, Len(u) <= LabelValueLimit
  PROVE  /\ Flat(u) \in Seq(Char) /\ Len(Flat(u)) = Len(u) /\ Len(u) \in Nat
         /\ \A i \in 1..Len(u) : Flat(u)[i] = FlatChar(u[i])
  <1>1. u \in Seq(Char) /\ Len(u) \in Nat
    BY UpstreamsAssumption, LenProperties
  <1>2. PICK e : e = Escaped(u, ":")
    OBVIOUS
  <1>3. /\ e \in Seq(Char) /\ Len(e) = Len(u)
        /\ \A i \in 1..Len(u) : e[i] = IF u[i] = ":" THEN "-" ELSE u[i]
    BY <1>1, <1>2, EscapedProperties, Zenon
  <1>4. ComputeUpstreamLabelValue(u) = e
    <2>1. ~(Len(u) > LabelValueLimit)
      BY <1>1 DEF LabelValueLimit
    <2> QED
      BY <1>2, <2>1, ShortLabel, Zenon
  <1>5. PICK f : f = Escaped(e, ".")
    OBVIOUS
  <1>6. /\ f \in Seq(Char) /\ Len(f) = Len(e)
        /\ \A i \in 1..Len(e) : f[i] = IF e[i] = "." THEN "-" ELSE e[i]
    <2>1. e \in Seq(Char)
      BY <1>3, Zenon
    <2> QED
      BY <1>5, <2>1, EscapedProperties, Zenon
  <1>7. Flat(u) = f
    BY <1>4, <1>5, Zenon DEF Flat
  <1>8. ASSUME NEW i \in 1..Len(u) PROVE f[i] = FlatChar(u[i])
    BY <1>3, <1>6 DEF FlatChar, Separators
  <1> QED
    BY <1>1, <1>3, <1>6, <1>7, <1>8, Zenon

LEMMA LongFlat ==
  ASSUME NEW u \in Upstreams, Len(u) > LabelValueLimit
  PROVE  /\ Flat(u) \in Seq(Char) /\ Len(Flat(u)) = 43
         /\ \A i \in 1..37 : Flat(u)[i] = FlatChar(u[i])
         /\ Flat(u)[38] = "-"
         /\ \A i \in 1..5 : Flat(u)[38 + i] = Hash[u][i]
  <1>1. u \in Seq(Char) /\ Len(u) \in Nat /\ Len(u) > 43
    BY UpstreamsAssumption, LenProperties DEF LabelValueLimit
  <1>2. PICK kept : IsCut(kept, u) /\ IsConcat(ComputeUpstreamLabelValue(u), kept, Hash[u])
    BY CutProperties, Zenon
  <1>3. PICK label : label = ComputeUpstreamLabelValue(u)
    OBVIOUS
  <1>4. /\ label \in Seq(Char) /\ Len(label) = 43
        /\ \A i \in 1..37 : label[i] = kept[i]
        /\ label[38] = "-"
        /\ \A i \in 1..5 : label[38 + i] = Hash[u][i]
    <2>1. kept \in Seq(Char) /\ Len(kept) = 38 /\ kept[38] = "-"
      BY <1>2, Zenon DEF IsCut
    <2>2. Hash[u] \in Seq(Char) /\ Len(Hash[u]) = 5
      BY HashProperties, Zenon
    <2>3. IsJoined(label, kept, Hash[u])
      BY <1>2, <1>3, <2>1, <2>2, ConcatAt, Zenon
    <2>4. /\ label \in Seq(Char) /\ Len(label) = Len(kept) + Len(Hash[u])
          /\ \A i \in 1..Len(kept) : label[i] = kept[i]
          /\ \A i \in 1..Len(Hash[u]) : label[Len(kept) + i] = Hash[u][i]
      BY <2>3, Zenon DEF IsJoined
    <2>5. Len(label) = 43
      BY <2>1, <2>2, <2>4
    <2>6. 38 \in 1..38 /\ \A i \in 1..37 : i \in 1..38
      OBVIOUS
    <2> QED
      BY <2>1, <2>2, <2>4, <2>5, <2>6, Zenon
  <1>5. PICK e : e = Escaped(u, ":")
    OBVIOUS
  <1>6. \A i \in 1..37 : label[i] = IF u[i] = ":" THEN "-" ELSE u[i]
    <2>1. \A i \in 1..Len(u) : e[i] = IF u[i] = ":" THEN "-" ELSE u[i]
      BY <1>1, <1>5, EscapedProperties, Zenon
    <2>2. \A i \in 1..37 : i \in 1..Len(u)
      BY <1>1
    <2>3. \A i \in 1..37 : kept[i] = e[i]
      BY <1>2, <1>5, Zenon DEF IsCut
    <2>4. \A i \in 1..37 : label[i] = kept[i]
      BY <1>4, Zenon
    <2> QED
      BY <2>1, <2>2, <2>3, <2>4, Zenon
  <1>7. PICK f : f = Escaped(label, ".")
    OBVIOUS
  <1>8. /\ f \in Seq(Char) /\ Len(f) = 43
        /\ \A i \in 1..43 : f[i] = IF label[i] = "." THEN "-" ELSE label[i]
    <2>1. label \in Seq(Char) /\ Len(label) = 43
      BY <1>4, Zenon
    <2>2. /\ f \in Seq(Char) /\ Len(f) = Len(label)
          /\ \A i \in 1..Len(label) : f[i] = IF label[i] = "." THEN "-" ELSE label[i]
      <3>1. /\ Escaped(label, ".") \in Seq(Char) /\ Len(Escaped(label, ".")) = Len(label)
            /\ \A i \in 1..Len(label) :
                 Escaped(label, ".")[i] = IF label[i] = "." THEN "-" ELSE label[i]
        <4>1. label \in Seq(Char)
          BY <2>1
        <4> QED
          BY <4>1, EscapedProperties, Zenon
      <3> QED
        BY <1>7, <3>1, Zenon
    <2> QED
      BY <2>1, <2>2, Zenon
  <1>9. Flat(u) = f
    BY <1>3, <1>7, Zenon DEF Flat
  <1>10. ASSUME NEW i \in 1..37 PROVE f[i] = FlatChar(u[i])
    <2>1. i \in 1..43
      OBVIOUS
    <2> QED
      BY <1>6, <1>8, <2>1 DEF FlatChar, Separators
  <1>11. ASSUME NEW i \in 1..5 PROVE f[38 + i] = Hash[u][i]
    <2>1. 38 + i \in 1..43
      OBVIOUS
    <2>2. Hash[u][i] # "."
      BY HashProperties, Separate DEF Separators
    <2> QED
      BY <1>4, <1>8, <2>1, <2>2, Zenon
  <1>12. f[38] = "-"
    <2>1. 38 \in 1..43
      OBVIOUS
    <2> QED
      BY <1>4, <1>8, <2>1, Zenon
  <1> QED
    BY <1>8, <1>9, <1>10, <1>11, <1>12, Zenon

LEMMA SameFlat ==
  ASSUME NEW u \in Upstreams, NEW v \in Upstreams, Flat(u) \in Seq(Char), Flat(v) \in Seq(Char),
         ComputeKubernetesResourceName(u) = ComputeKubernetesResourceName(v)
  PROVE  Len(Flat(u)) = Len(Flat(v)) /\ \A i \in 1..Len(Flat(u)) : Flat(u)[i] = Flat(v)[i]
  <1>1. PICK name : name = ComputeKubernetesResourceName(u)
    OBVIOUS
  <1>2. PICK f : f = Flat(u)
    OBVIOUS
  <1>3. PICK g : g = Flat(v)
    OBVIOUS
  <1>4. IsConcat(name, NamePrefix, f) /\ IsConcat(name, NamePrefix, g)
    BY <1>1, <1>2, <1>3, Zenon DEF IsConcat, ComputeKubernetesResourceName, Flat
  <1>5. IsJoined(name, NamePrefix, f) /\ IsJoined(name, NamePrefix, g)
    BY <1>2, <1>3, <1>4, PrefixProperties, ConcatAt, Zenon
  <1>6. Len(f) \in Nat /\ Len(g) \in Nat /\ Len(f) = Len(g)
    BY <1>5, PrefixProperties DEF IsJoined
  <1>7. ASSUME NEW i \in 1..Len(f) PROVE f[i] = g[i]
    BY <1>5, <1>6, <1>7, Zenon DEF IsJoined
  <1> QED
    BY <1>2, <1>3, <1>6, <1>7, Zenon

LEMMA SameFlatChar ==
  ASSUME NEW u, NEW v, NEW i, FlatChar(u[i]) = FlatChar(v[i])
  PROVE  AlikeAt(u, v, i)
  <1>1. "-" \in Separators
    BY DEF Separators
  <1> QED
    BY <1>1, Zenon DEF FlatChar, AlikeAt

(* The hash of a long upstream reappears in a short one of 43 characters   *)
(* that has the same name.                                                 *)
LEMMA SpelledHash ==
  ASSUME NEW u \in Upstreams, NEW v \in Upstreams, Len(v) = 43,
         \A i \in 1..5 : FlatChar(v[38 + i]) = Hash[u][i]
  PROVE  SubSeq(v, 39, 43) = Hash[u]
  <1>1. v \in Seq(Char)
    BY UpstreamsAssumption
  <1>2. ASSUME NEW i \in 1..5 PROVE v[38 + i] = Hash[u][i]
    <2>1. Hash[u][i] # "-"
      BY HashProperties, Separate DEF Separators
    <2> QED
      BY <2>1, Zenon DEF FlatChar
  <1>3. PICK tail : tail = SubSeq(v, 39, 43)
    OBVIOUS
  <1>4. tail \in Seq(Char) /\ Len(tail) = 5 /\ \A i \in 1..5 : tail[i] = v[38 + i]
    <2>1. \A j \in 39..43 : v[j] \in Char
      <3>1. \A j \in 39..43 : j \in 1..Len(v)
        OBVIOUS
      <3> QED
        BY <1>1, <3>1, ElementOfSeq, Zenon
    <2>2. /\ tail \in Seq(Char) /\ Len(tail) = IF 39 <= 43 THEN 43 - 39 + 1 ELSE 0
          /\ \A i \in 1..43 - 39 + 1 : tail[i] = v[39 + i - 1]
      BY <1>3, <2>1, SubSeqProperties
    <2> QED
      BY <2>2
  <1>5. \A i \in 1..5 : tail[i] = Hash[u][i]
    BY <1>2, <1>4, Zenon
  <1>6. Hash[u] \in Seq(Char) /\ Len(Hash[u]) = 5
    BY HashProperties, Zenon
  <1>7. tail = Hash[u]
    <2>1. PICK h : h = Hash[u]
      OBVIOUS
    <2>2. h \in Seq(Char) /\ Len(tail) = Len(h) /\ \A i \in 1..Len(tail) : tail[i] = h[i]
      BY <1>4, <1>5, <1>6, <2>1, Zenon
    <2>3. tail = h
      BY <1>4, <2>2, SeqEqual, Zenon
    <2> QED
      BY <2>1, <2>3, Zenon
  <1> QED
    BY <1>3, <1>7, Zenon

(* Two upstreams have the same name only if, as far as they are kept, they *)
(* differ in the kind of their separators alone, and either none is cut,   *)
(* or both are and have equal hashes, or one is and the other, of 43       *)
(* characters, ends in a separator and the hash of the one that is cut.    *)
THEOREM NamesShared ==
  ASSUME NEW u \in Upstreams, NEW v \in Upstreams,
         ComputeKubernetesResourceName(u) = ComputeKubernetesResourceName(v)
  PROVE  MayShareName(u, v)
  <1>1. Len(u) \in Nat /\ Len(v) \in Nat
    BY UpstreamsAssumption, LenProperties
  <1>2. Flat(u) \in Seq(Char) /\ Flat(v) \in Seq(Char)
    BY <1>1, ShortFlat, LongFlat DEF LabelValueLimit
  <1>3. Len(Flat(u)) = Len(Flat(v)) /\ \A i \in 1..Len(Flat(u)) : Flat(u)[i] = Flat(v)[i]
    BY <1>2, SameFlat, Zenon
  <1>4. CASE Len(u) <= LabelValueLimit /\ Len(v) <= LabelValueLimit
    <2>1. Len(u) = Len(v) /\ \A i \in 1..Len(u) : FlatChar(u[i]) = FlatChar(v[i])
      BY <1>3, <1>4, ShortFlat, Zenon
    <2>2. Len(u) >= Len(u) /\ Len(v) >= Len(u)
      BY <1>1, <2>1
    <2>3. AlikeUpTo(u, v, Len(u))
      BY <2>1, <2>2, SameFlatChar, Zenon DEF AlikeUpTo
    <2> QED
      BY <1>4, <2>1, <2>3, Zenon DEF MayShareName
  <1>5. CASE Len(u) > LabelValueLimit /\ Len(v) > LabelValueLimit
    <2>1. /\ Len(Flat(u)) = 43 /\ \A i \in 1..37 : Flat(u)[i] = FlatChar(u[i])
          /\ \A i \in 1..5 : Flat(u)[38 + i] = Hash[u][i]
      BY <1>5, LongFlat, Zenon
    <2>2. /\ \A i \in 1..37 : Flat(v)[i] = FlatChar(v[i])
          /\ \A i \in 1..5 : Flat(v)[38 + i] = Hash[v][i]
      BY <1>5, LongFlat, Zenon
    <2>3. \A i \in 1..43 : Flat(u)[i] = Flat(v)[i]
      BY <1>3, <2>1, Zenon
    <2>4. (\A i \in 1..37 : i \in 1..43) /\ (\A i \in 1..5 : 38 + i \in 1..43)
      OBVIOUS
    <2>5. ASSUME NEW i \in 1..37 PROVE FlatChar(u[i]) = FlatChar(v[i])
      <3>1. Flat(u)[i] = Flat(v)[i]
        BY <2>3, <2>4, Zenon
      <3> QED
        BY <2>1, <2>2, <3>1, Zenon
    <2>6. Len(u) >= 37 /\ Len(v) >= 37
      BY <1>1, <1>5 DEF LabelValueLimit
    <2>7. AlikeUpTo(u, v, 37)
      BY <2>5, <2>6, SameFlatChar, Zenon DEF AlikeUpTo
    <2>8. ASSUME NEW i \in 1..5 PROVE Hash[u][i] = Hash[v][i]
      <3>1. Flat(u)[38 + i] = Flat(v)[38 + i]
        BY <2>3, <2>4, Zenon
      <3> QED
        BY <2>1, <2>2, <3>1, Zenon
    <2>9. Hash[u] = Hash[v]
      <3>1. PICK h, k : h = Hash[u] /\ k = Hash[v]
        OBVIOUS
      <3>2. /\ h \in Seq(Char) /\ k \in Seq(Char) /\ Len(h) = Len(k)
            /\ \A i \in 1..Len(h) : h[i] = k[i]
        BY <2>8, <3>1, HashProperties, Zenon
      <3>3. h = k
        BY <3>2, SeqEqual, Zenon
      <3> QED
        BY <3>1, <3>3, Zenon
    <2> QED
      BY <1>5, <2>7, <2>9, Zenon DEF MayShareName
  <1>6. ASSUME NEW x \in Upstreams, NEW y \in Upstreams, Len(x) > 43, Len(y) <= 43,
               Len(Flat(x)) = Len(Flat(y)), \A i \in 1..Len(Flat(x)) : Flat(x)[i] = Flat(y)[i]
        PROVE  /\ Len(y) = 43 /\ y[38] \in Separators /\ SubSeq(y, 39, 43) = Hash[x]
               /\ \A i \in 1..37 : FlatChar(x[i]) = FlatChar(y[i])
    <2>1. /\ Len(Flat(x)) = 43 /\ \A i \in 1..37 : Flat(x)[i] = FlatChar(x[i])
          /\ Flat(x)[38] = "-"
          /\ \A i \in 1..5 : Flat(x)[38 + i] = Hash[x][i]
      BY <1>6, LongFlat, Zenon DEF LabelValueLimit
    <2>2. Len(Flat(y)) = Len(y) /\ \A i \in 1..Len(y) : Flat(y)[i] = FlatChar(y[i])
      BY <1>6, ShortFlat, Zenon DEF LabelValueLimit
    <2>3. Len(y) = 43
      BY <1>6, <2>1, <2>2, Zenon
    <2>4. /\ \A i \in 1..37 : i \in 1..43
          /\ 38 \in 1..43 /\ \A i \in 1..5 : 38 + i \in 1..43
      OBVIOUS
    <2>5. \A i \in 1..43 : Flat(x)[i] = FlatChar(y[i])
      BY <1>6, <2>1, <2>2, <2>3, Zenon
    <2>6. \A i \in 1..5 : FlatChar(y[38 + i]) = Hash[x][i]
      BY <2>1, <2>4, <2>5, Zenon
    <2>7. SubSeq(y, 39, 43) = Hash[x]
      BY <2>3, <2>6, SpelledHash, Zenon
    <2>8. \A i \in 1..37 : FlatChar(x[i]) = FlatChar(y[i])
      BY <2>1, <2>4, <2>5, Zenon
    <2>9. FlatChar(y[38]) = "-"
      BY <2>1, <2>4, <2>5, Zenon
    <2>10. y[38] \in Separators
      BY <2>9 DEF FlatChar, Separators
    <2> QED
      BY <2>3, <2>7, <2>8, <2>10, Zenon
  <1>7. CASE Len(u) > LabelValueLimit /\ Len(v) <= LabelValueLimit
    <2>1. /\ Len(v) = 43 /\ v[38] \in Separators /\ SubSeq(v, 39, 43) = Hash[u]
          /\ \A i \in 1..37 : FlatChar(u[i]) = FlatChar(v[i])
      BY <1>3, <1>6, <1>7, Zenon DEF LabelValueLimit
    <2>2. Len(u) >= 37 /\ Len(v) >= 37
      BY <1>1, <1>7, <2>1 DEF LabelValueLimit
    <2>3. AlikeUpTo(u, v, 37)
      BY <2>1, <2>2, SameFlatChar, Zenon DEF AlikeUpTo
    <2> QED
      BY <1>7, <2>1, <2>3, Zenon DEF MayShareName, LabelValueLimit
  <1>8. CASE Len(u) <= LabelValueLimit /\ Len(v) > LabelValueLimit
    <2>1. /\ Len(u) = 43 /\ u[38] \in Separators /\ SubSeq(u, 39, 43) = Hash[v]
          /\ \A i \in 1..37 : FlatChar(v[i]) = FlatChar(u[i])
      <3>1. /\ Len(Flat(v)) = Len(Flat(u))
            /\ \A i \in 1..Len(Flat(v)) : Flat(v)[i] = Flat(u)[i]
        BY <1>3, Zenon
      <3> QED
        BY <1>6, <1>8, <3>1, Zenon DEF LabelValueLimit
    <2>2. Len(u) >= 37 /\ Len(v) >= 37
      BY <1>1, <1>8, <2>1 DEF LabelValueLimit
    <2>3. AlikeUpTo(u, v, 37)
      BY <2>1, <2>2, SameFlatChar, Zenon DEF AlikeUpTo
    <2> QED
      BY <1>8, <2>1, <2>3, Zenon DEF MayShareName, LabelValueLimit
  <1> QED
    BY <1>1, <1>4, <1>5, <1>7, <1>8 DEF LabelValueLimit

=============================================================================
