---------------------------- MODULE AddressClass ----------------------------
(***************************************************************************)
(* The SSRF address classifier, as operators: which IPv4 and IPv6          *)
(* addresses a fetch may connect to, with the IPv4 addresses that IPv6     *)
(* transition forms carry and the operator's list of NAT64 prefixes.  An   *)
(* address is the sequence of its octets; every mask and offset of the     *)
(* code falls on an octet boundary, or is a range of the octet it cuts.    *)
(***************************************************************************)
EXTENDS Integers, Sequences

Octet == 0 .. 255
V4 == [1 .. 4 -> Octet]
V6 == [1 .. 16 -> Octet]

-----------------------------------------------------------------------------
(* IPv4 *)

\* Bug variant of ReservedV4: the second octet's range is cut short.
ReservedV4_shortCgnat(w) ==
  \/ w[1] \in {0, 10} \/ w[1] >= 224
  \/ w[1] = 100 /\ w[2] \in 64 .. 126
  \/ w[1] = 169 /\ w[2] = 254
  \/ w[1] = 172 /\ w[2] \in 16 .. 31
  \/ w[1] = 192 /\ (w[2] = 168 \/ (w[2] = 0 /\ w[3] = 2))
  \/ w[1] = 198 /\ (w[2] \in {18, 19} \/ (w[2] = 51 /\ w[3] = 100))
  \/ w[1] = 203 /\ w[2] = 0 /\ w[3] = 113

\* The ranges `is_public_ipv4` refuses, loopback aside.
ReservedV4(w) ==
  \/ w[1] \in {0, 10} \/ w[1] >= 224
  \/ w[1] = 100 /\ w[2] \in 64 .. 127
  \/ w[1] = 169 /\ w[2] = 254
  \/ w[1] = 172 /\ w[2] \in 16 .. 31
  \/ w[1] = 192 /\ (w[2] = 168 \/ (w[2] = 0 /\ w[3] = 2))
  \/ w[1] = 198 /\ (w[2] \in {18, 19} \/ (w[2] = 51 /\ w[3] = 100))
  \/ w[1] = 203 /\ w[2] = 0 /\ w[3] = 113

IsPublicIpv4(w, allow) == IF w[1] = 127 THEN allow ELSE ~ReservedV4(w)

-----------------------------------------------------------------------------
(* NAT64 prefixes (NSPs) *)

ValidLengths == {32, 40, 48, 56, 64, 96}

MaskSegments(a, len) == [i \in 1 .. 16 |-> IF 8 * i <= len THEN a[i] ELSE 0]

\* `Nat64Nsp::new`, of an entry with a valid length.
Nsp(c) == [masked |-> MaskSegments(c.prefix, c.len), len |-> c.len]

Under(a, nsp) == MaskSegments(a, nsp.len) = nsp.masked

\* Bug variant of OctetAt: the reserved octet is read as part of the address.
OctetAt_noSkip(len, k) == (len \div 8) + k

\* Where the k-th octet of an embedded IPv4 address is: from the prefix on,
\* skipping the reserved octet of bits 64 to 71, which is the ninth.
OctetAt(len, k) ==
  LET p == (len \div 8) + k IN IF len <= 64 /\ p >= 9 THEN p + 1 ELSE p

DecodeEmbeddedV4(a, len) == [k \in 1 .. 4 |-> a[OctetAt(len, k)]]

\* `Nat64Policy::embedded_v4`, none or one address: the first match wins.
EmbeddedV4(a, policy) ==
  {DecodeEmbeddedV4(a, policy[i].len) :
     i \in {j \in DOMAIN policy : /\ Under(a, policy[j])
                                  /\ \A h \in 1 .. j - 1 : ~Under(a, policy[h])}}

-----------------------------------------------------------------------------
(* IPv6 *)

Localhost == [i \in 1 .. 16 |-> IF i = 16 THEN 1 ELSE 0]
Unspecified == [i \in 1 .. 16 |-> 0]

AllZero(a, m, n) == \A i \in m .. n : a[i] = 0

Mapped(a) == AllZero(a, 1, 10) /\ a[11] = 255 /\ a[12] = 255
Compatible(a) == AllZero(a, 1, 12)
SixToFour(a) == a[1] = 32 /\ a[2] = 2
WellKnownNat64(a) ==
  a[1] = 0 /\ a[2] = 100 /\ a[3] = 255 /\ a[4] = 155 /\ AllZero(a, 5, 12)

\* Link-local fe80::/10, unique-local fc00::/7 and multicast ff00::/8.
LocalScope(a) ==
  (a[1] = 254 /\ a[2] \in 128 .. 191) \/ a[1] \in {252, 253} \/ a[1] = 255

V4From(a, i) == [k \in 1 .. 4 |-> a[i - 1 + k]]

\* The IPv4 address of a transition form that needs no configuration.
CarriedV4(a) ==
  CASE Mapped(a) \/ Compatible(a) \/ WellKnownNat64(a) -> {V4From(a, 13)}
    [] SixToFour(a) -> {V4From(a, 3)}
    [] OTHER -> {}

\* Bug variant of IsPublicIpv6: a configured prefix settles the matter first.
IsPublicIpv6_nspFirst(a, allow, policy) ==
  IF EmbeddedV4(a, policy) # {}
    THEN \A w \in EmbeddedV4(a, policy) : IsPublicIpv4(w, allow)
    ELSE IF a = Localhost THEN allow
    ELSE /\ a # Unspecified /\ ~LocalScope(a)
         /\ \A w \in CarriedV4(a) : IsPublicIpv4(w, allow)

\* Bug variant of IsPublicIpv6: ::1 is taken for the IPv4 address it holds.
IsPublicIpv6_noLocalhost(a, allow, policy) ==
  /\ a # Unspecified /\ ~LocalScope(a)
  /\ \A w \in IF CarriedV4(a) # {} THEN CarriedV4(a) ELSE EmbeddedV4(a, policy) :
       IsPublicIpv4(w, allow)

\* The forms exclude each other, but for ::1 and ::, which the code settles
\* before it looks at ::/96; a configured NSP comes last and can only refuse.
IsPublicIpv6(a, allow, policy) ==
  IF a = Localhost THEN allow
  ELSE /\ a # Unspecified /\ ~LocalScope(a)
       /\ \A w \in IF CarriedV4(a) # {} THEN CarriedV4(a) ELSE EmbeddedV4(a, policy) :
            IsPublicIpv4(w, allow)

IsPublicAddress(a, allow, policy) ==
  IF a \in V4 THEN IsPublicIpv4(a, allow) ELSE IsPublicIpv6(a, allow, policy)

IsLoopbackAddress(a) ==
  IF a \in V4 THEN a[1] = 127
  ELSE a = Localhost \/ (Mapped(a) /\ a[13] = 127)
=============================================================================
