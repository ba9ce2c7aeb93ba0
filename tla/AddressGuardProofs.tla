------------------------- MODULE AddressGuardProofs -------------------------
(***************************************************************************)
(* What the address classifier decides, for every IPv4 and IPv6 address,   *)
(* every list of NAT64 prefixes and either setting of the loopback flag.   *)
(***************************************************************************)
EXTENDS AddressGuard, SequenceTheorems, TLAPS

-----------------------------------------------------------------------------
(* IPv4 *)

\* A block, from its first to its last octets, as tests of single octets.
LEMMA BlocksAreTests ==
  ASSUME NEW w \in V4
  PROVE  Special(w) <=> (w[1] = 127 \/ ReservedV4(w))
<1>1. w[1] \in 0 .. 255 /\ w[2] \in 0 .. 255 /\ w[3] \in 0 .. 255
  BY DEF V4, Octet
<1>2. Within(w, <<0, 0, 0>>, <<0, 255, 255>>) <=> w[1] = 0
  BY <1>1 DEF Within, UpTo
<1>3. Within(w, <<10, 0, 0>>, <<10, 255, 255>>) <=> w[1] = 10
  BY <1>1 DEF Within, UpTo
<1>4. Within(w, <<100, 64, 0>>, <<100, 127, 255>>) <=> (w[1] = 100 /\ w[2] \in 64 .. 127)
  BY <1>1 DEF Within, UpTo
<1>5. Within(w, <<127, 0, 0>>, <<127, 255, 255>>) <=> w[1] = 127
  BY <1>1 DEF Within, UpTo
<1>6. Within(w, <<169, 254, 0>>, <<169, 254, 255>>) <=> (w[1] = 169 /\ w[2] = 254)
  BY <1>1 DEF Within, UpTo
<1>7. Within(w, <<172, 16, 0>>, <<172, 31, 255>>) <=> (w[1] = 172 /\ w[2] \in 16 .. 31)
  BY <1>1 DEF Within, UpTo
<1>8. Within(w, <<192, 0, 2>>, <<192, 0, 2>>) <=> (w[1] = 192 /\ w[2] = 0 /\ w[3] = 2)
  BY <1>1 DEF Within, UpTo
<1>9. Within(w, <<192, 168, 0>>, <<192, 168, 255>>) <=> (w[1] = 192 /\ w[2] = 168)
  BY <1>1 DEF Within, UpTo
<1>10. Within(w, <<198, 18, 0>>, <<198, 19, 255>>) <=> (w[1] = 198 /\ w[2] \in {18, 19})
  BY <1>1 DEF Within, UpTo
<1>11. Within(w, <<198, 51, 100>>, <<198, 51, 100>>)
         <=> (w[1] = 198 /\ w[2] = 51 /\ w[3] = 100)
  BY <1>1 DEF Within, UpTo
<1>12. Within(w, <<203, 0, 113>>, <<203, 0, 113>>) <=> (w[1] = 203 /\ w[2] = 0 /\ w[3] = 113)
  BY <1>1 DEF Within, UpTo
<1>13. Within(w, <<224, 0, 0>>, <<255, 255, 255>>) <=> w[1] >= 224
  BY <1>1 DEF Within, UpTo
<1> QED
  BY <1>2, <1>3, <1>4, <1>5, <1>6, <1>7, <1>8, <1>9, <1>10, <1>11, <1>12,
     <1>13 DEF Special, ReservedV4

\* `is_public_ipv4` refuses exactly the special-purpose blocks.
LEMMA ClassifiesV4 ==
  ASSUME NEW w \in V4, NEW allow \in BOOLEAN
  PROVE  IsPublicIpv4(w, allow) <=> (~Special(w) \/ (allow /\ w[1] = 127))
<1>1. w[1] = 127 => ~ReservedV4(w)
  BY DEF ReservedV4
<1> QED
  BY <1>1, BlocksAreTests DEF IsPublicIpv4

-----------------------------------------------------------------------------
(* IPv6 *)

LEMMA FamiliesDiffer ==
  ASSUME NEW a \in V6
  PROVE  a \notin V4
<1>1. DOMAIN a = 1 .. 16
  BY DEF V6
<1>2. 16 \in DOMAIN a /\ 16 \notin 1 .. 4
  BY <1>1
<1> QED
  BY <1>2 DEF V4

LEMMA PartsAreV4 ==
  ASSUME NEW a \in V6
  PROVE  /\ V4From(a, 13) = At(a, <<13, 14, 15, 16>>) /\ V4From(a, 13) \in V4
         /\ V4From(a, 3) = At(a, <<3, 4, 5, 6>>) /\ V4From(a, 3) \in V4
<1>1. \A i \in 1 .. 16 : a[i] \in Octet
  BY DEF V6
<1>2. \A k \in 1 .. 4 : a[13 - 1 + k] = a[<<13, 14, 15, 16>>[k]]
                       /\ a[3 - 1 + k] = a[<<3, 4, 5, 6>>[k]]
  <2> TAKE k \in 1 .. 4
  <2>1. k = 1 \/ k = 2 \/ k = 3 \/ k = 4
    OBVIOUS
  <2> QED
    BY <2>1
<1>3. \A k \in 1 .. 4 : 13 - 1 + k \in 1 .. 16 /\ 3 - 1 + k \in 1 .. 16
  OBVIOUS
<1> QED
  BY <1>1, <1>2, <1>3 DEF V4From, At, V4

\* The code's walk over the bits reads the octets of the RFC's table.
LEMMA DecodesLayout ==
  ASSUME NEW a \in V6, NEW len \in ValidLengths
  PROVE  /\ DecodeEmbeddedV4(a, len) = At(a, Layout(len))
         /\ DecodeEmbeddedV4(a, len) \in V4
<1>1. \A k \in 1 .. 4 : OctetAt(len, k) = Layout(len)[k] /\ OctetAt(len, k) \in 1 .. 16
  <2> TAKE k \in 1 .. 4
  <2>1. k = 1 \/ k = 2 \/ k = 3 \/ k = 4
    OBVIOUS
  <2>2. CASE len = 32
    BY <2>1, <2>2 DEF OctetAt, Layout
  <2>3. CASE len = 40
    BY <2>1, <2>3 DEF OctetAt, Layout
  <2>4. CASE len = 48
    BY <2>1, <2>4 DEF OctetAt, Layout
  <2>5. CASE len = 56
    BY <2>1, <2>5 DEF OctetAt, Layout
  <2>6. CASE len = 64
    BY <2>1, <2>6 DEF OctetAt, Layout
  <2>7. CASE len = 96
    BY <2>1, <2>7 DEF OctetAt, Layout
  <2> QED
    BY <2>2, <2>3, <2>4, <2>5, <2>6, <2>7 DEF ValidLengths
<1>2. \A i \in 1 .. 16 : a[i] \in Octet
  BY DEF V6
<1> QED
  BY <1>1, <1>2 DEF DecodeEmbeddedV4, At, V4

LEMMA CarriedIsV4 ==
  ASSUME NEW a \in V6, NEW w \in CarriedV4(a)
  PROVE  w \in V4
<1>1. w = V4From(a, 13) \/ w = V4From(a, 3)
  BY Zenon DEF CarriedV4
<1> QED
  BY <1>1, PartsAreV4

LEMMA InRange ==
  ASSUME NEW S, NEW s \in Seq(S), NEW i \in DOMAIN s
  PROVE  s[i] \in S
BY LenProperties

LEMMA EmbeddedIsV4 ==
  ASSUME NEW a \in V6, NEW policy \in Seq([masked : V6, len : ValidLengths]),
         NEW w \in EmbeddedV4(a, policy)
  PROVE  w \in V4
<1>1. PICK i \in DOMAIN policy : w = DecodeEmbeddedV4(a, policy[i].len)
  BY DEF EmbeddedV4
<1>2. policy[i] \in [masked : V6, len : ValidLengths]
  BY InRange
<1> QED
  BY <1>1, <1>2, DecodesLayout

\* An NSP that alone covers an address is the one that is decoded.
LEMMA SoleMatchWins ==
  ASSUME NEW a \in V6, NEW policy \in Seq([masked : V6, len : ValidLengths]),
         NEW i \in DOMAIN policy,
         {j \in DOMAIN policy : Under(a, policy[j])} = {i}
  PROVE  At(a, Layout(policy[i].len)) \in EmbeddedV4(a, policy)
<1>1. Under(a, policy[i])
  OBVIOUS
<1>2. DOMAIN policy = 1 .. Len(policy) /\ Len(policy) \in Nat
  OBVIOUS
<1>3. \A h \in 1 .. i - 1 : ~Under(a, policy[h])
  BY <1>2
<1>4. DecodeEmbeddedV4(a, policy[i].len) \in EmbeddedV4(a, policy)
  BY <1>1, <1>3 DEF EmbeddedV4
<1>5. policy[i] \in [masked : V6, len : ValidLengths]
  BY InRange
<1> QED
  BY <1>4, <1>5, DecodesLayout

-----------------------------------------------------------------------------
(* The specification *)

\* The policy is the parse of the configuration, whole; the verdict is the
\* classifier's, of the address, the flag and the policy now in force.
Parsed ==
  /\ DOMAIN nat64 = DOMAIN cidrs
  /\ \A i \in DOMAIN cidrs : Parses(cidrs[i]) /\ nat64[i] = Nsp(cidrs[i])

Honest ==
  verdict # "none" =>
    (verdict = "public" <=> IsPublicAddress(addr, allow_loopback, nat64))

IndInv == TypeOK /\ Parsed /\ Honest

LEMMA UnspecifiedType == Unspecified \in V6
BY DEF Unspecified, V6, Octet

LEMMA EntriesAreSeqs ==
  ASSUME NEW e \in Entries
  PROVE  e \in Seq(Cidrs \cup {Malformed})
BY SeqDef, AddressAssumptions DEF Entries

LEMMA NspType ==
  ASSUME NEW c \in Cidrs, Parses(c)
  PROVE  Nsp(c) \in [masked : V6, len : ValidLengths]
<1>1. c.prefix \in V6
  BY AddressAssumptions
<1>2. MaskSegments(c.prefix, c.len) \in V6
  BY <1>1 DEF MaskSegments, V6, Octet
<1> QED
  BY <1>2 DEF Nsp, Parses

LEMMA InitOK == Init => IndInv
<1> SUFFICES ASSUME Init PROVE IndInv
  OBVIOUS
<1>1. <<>> \in [1 .. 0 -> Cidrs \cup {Malformed}]
  OBVIOUS
<1>2. cidrs \in Entries
  BY <1>1, AddressAssumptions DEF Init, Entries
<1>3. TypeOK
  BY <1>2, UnspecifiedType DEF Init, TypeOK
<1> QED
  BY <1>3 DEF Init, IndInv, Parsed, Honest

LEMMA NextOK == IndInv /\ [Next]_vars => IndInv'
<1> SUFFICES ASSUME IndInv, [Next]_vars PROVE IndInv'
  OBVIOUS
<1> USE DEF IndInv
<1>1. ASSUME NEW e \in Entries, FromCidrs(e) PROVE IndInv'
  <2>1. e \in Seq(Cidrs \cup {Malformed})
    BY EntriesAreSeqs
  <2>2. \A i \in 1 .. Len(e) : e[i] \in Cidrs /\ Parses(e[i])
    BY <1>1, <2>1 DEF FromCidrs, Parses
  <2>3. nat64' \in [1 .. Len(e) -> [masked : V6, len : ValidLengths]] /\ Len(e) \in Nat
    BY <1>1, <2>1, <2>2, NspType DEF FromCidrs
  <2>4. nat64' \in Seq([masked : V6, len : ValidLengths])
    BY <2>3, SeqDef
  <2>5. TypeOK'
    BY <1>1, <2>4 DEF FromCidrs, TypeOK
  <2>6. Parsed'
    BY <1>1, <2>1, <2>2 DEF FromCidrs, Parsed
  <2>7. Honest'
    BY <1>1 DEF FromCidrs, Honest
  <2> QED
    BY <2>5, <2>6, <2>7
<1>2. ASSUME NEW a \in Addresses, Classify(a) PROVE IndInv'
  <2>1. TypeOK'
    BY <1>2, AddressAssumptions DEF Classify, TypeOK
  <2>2. Parsed'
    BY <1>2 DEF Classify, Parsed
  <2>3. Honest'
    BY <1>2 DEF Classify, Honest
  <2> QED
    BY <2>1, <2>2, <2>3
<1>3. CASE Proceed
  <2>1. TypeOK'
    BY <1>3, UnspecifiedType DEF Proceed, TypeOK
  <2>2. Parsed' /\ Honest'
    BY <1>3 DEF Proceed, Parsed, Honest
  <2> QED
    BY <2>1, <2>2
<1>4. CASE UNCHANGED vars
  BY <1>4 DEF vars, TypeOK, Parsed, Honest
<1> QED
  BY <1>1, <1>2, <1>3, <1>4 DEF Next

LEMMA Inductive == Spec => []IndInv
BY InitOK, NextOK, PTL DEF Spec

-----------------------------------------------------------------------------
\* The classifier's variables keep their types, whatever operators configure.
THEOREM TypeCorrect == Spec => []TypeOK
BY Inductive, PTL DEF IndInv

\* For every IPv4 address, `is_public_ipv4`'s octet tests refuse exactly the
\* special-purpose blocks.
THEOREM V4Exact == Spec => []AgreesWithBlocks
<1>1. IndInv => AgreesWithBlocks
  <2> SUFFICES ASSUME IndInv, verdict # "none", addr \in V4
               PROVE  verdict = "public" <=> Contactable(addr)
    BY DEF AgreesWithBlocks
  <2>1. verdict = "public" <=> IsPublicIpv4(addr, allow_loopback)
    BY DEF IndInv, Honest, IsPublicAddress
  <2> QED
    BY <2>1, ClassifiesV4 DEF IndInv, TypeOK, Contactable
<1> QED
  BY <1>1, Inductive, PTL

\* The IPv4 address inside an IPv6 one may be contacted, in whichever of the
\* transition forms, or under the one NSP of a policy that covers it.
InnerContactable(a, policy) ==
  /\ Mapped(a) \/ Compatible(a) \/ WellKnownNat64(a)
       => Contactable(At(a, <<13, 14, 15, 16>>))
  /\ SixToFour(a) => Contactable(At(a, <<3, 4, 5, 6>>))
  /\ CarriedV4(a) = {} =>
       \A i \in DOMAIN policy :
         {j \in DOMAIN policy : Under(a, policy[j])} = {i}
           => Contactable(At(a, Layout(policy[i].len)))

LEMMA InnerDecides ==
  ASSUME NEW a \in V6, a # Localhost, allow_loopback \in BOOLEAN,
         NEW policy \in Seq([masked : V6, len : ValidLengths]),
         IsPublicIpv6(a, allow_loopback, policy)
  PROVE  InnerContactable(a, policy)
<1>1. ASSUME NEW w \in V4, IsPublicIpv4(w, allow_loopback)
      PROVE  Contactable(w)
  BY <1>1, ClassifiesV4 DEF Contactable
<1>2. \A w \in CarriedV4(a) : Contactable(w)
  BY <1>1, CarriedIsV4 DEF IsPublicIpv6
<1>3. SixToFour(a) => ~(Mapped(a) \/ Compatible(a) \/ WellKnownNat64(a))
  BY DEF SixToFour, Mapped, Compatible, WellKnownNat64, AllZero
<1>4. /\ Mapped(a) \/ Compatible(a) \/ WellKnownNat64(a)
           => V4From(a, 13) \in CarriedV4(a)
      /\ SixToFour(a) => V4From(a, 3) \in CarriedV4(a)
  BY <1>3, Zenon DEF CarriedV4
<1>5. ASSUME CarriedV4(a) = {}, NEW i \in DOMAIN policy,
             {j \in DOMAIN policy : Under(a, policy[j])} = {i}
      PROVE  Contactable(At(a, Layout(policy[i].len)))
  <2>1. At(a, Layout(policy[i].len)) \in EmbeddedV4(a, policy)
    BY <1>5, SoleMatchWins
  <2>2. \A w \in EmbeddedV4(a, policy) : IsPublicIpv4(w, allow_loopback)
    BY <1>5 DEF IsPublicIpv6
  <2> QED
    BY <1>1, <2>1, <2>2, EmbeddedIsV4
<1> QED
  BY <1>2, <1>4, <1>5, PartsAreV4 DEF InnerContactable

\* For every IPv6 address and every list of NSPs, the IPv4 address inside a
\* transition form decides.
THEOREM EmbeddingsHonest == Spec => []NoLaundering
<1>1. IndInv => NoLaundering
  <2> SUFFICES ASSUME IndInv, verdict = "public", addr \in V6, addr # Localhost
               PROVE  InnerContactable(addr, nat64)
    BY DEF NoLaundering, InnerContactable
  <2>1. IsPublicIpv6(addr, allow_loopback, nat64)
    BY FamiliesDiffer DEF IndInv, Honest, IsPublicAddress
  <2>2. allow_loopback \in BOOLEAN /\ nat64 \in Seq([masked : V6, len : ValidLengths])
    BY DEF IndInv, TypeOK
  <2> QED
    BY <2>1, <2>2, InnerDecides
<1> QED
  BY <1>1, Inductive, PTL

\* No list of NSPs, overlapping or misconfigured, widens what is let through.
THEOREM OnlyTightens == Spec => []PolicyOnlyTightens
<1>1. IndInv => PolicyOnlyTightens
  <2> SUFFICES ASSUME IndInv, verdict = "public"
               PROVE  IsPublicAddress(addr, allow_loopback, <<>>)
    BY DEF PolicyOnlyTightens
  <2>1. IsPublicAddress(addr, allow_loopback, nat64)
    BY DEF IndInv, Honest
  <2>2. EmbeddedV4(addr, <<>>) = {}
    BY DEF EmbeddedV4
  <2>3. IsPublicIpv6(addr, allow_loopback, nat64)
          => IsPublicIpv6(addr, allow_loopback, <<>>)
    BY <2>2, Zenon DEF IsPublicIpv6
  <2> QED
    BY <2>1, <2>3 DEF IsPublicAddress
<1> QED
  BY <1>1, Inductive, PTL

\* The operator's whole list is in force, or none of it.
THEOREM WholeConfiguration == Spec => []EveryEntryHonoured
<1>1. IndInv => EveryEntryHonoured
  <2> SUFFICES ASSUME IndInv, NEW i \in DOMAIN cidrs
               PROVE  /\ cidrs[i] # Malformed
                      /\ \E j \in DOMAIN nat64 : /\ nat64[j].len = cidrs[i].len
                                                 /\ Under(cidrs[i].prefix, nat64[j])
    BY DEF EveryEntryHonoured
  <2>1. i \in DOMAIN nat64 /\ Parses(cidrs[i]) /\ nat64[i] = Nsp(cidrs[i])
    BY DEF IndInv, Parsed
  <2>2. nat64[i].len = cidrs[i].len /\ Under(cidrs[i].prefix, nat64[i])
    BY <2>1 DEF Nsp, Under
  <2> QED
    BY <2>1, <2>2 DEF Parses
<1> QED
  BY <1>1, Inductive, PTL

\* `is_loopback_address` and `is_public_address` agree about every address both
\* know as loopback.
THEOREM LoopbackAgreed == Spec => []LoopbackClassifiersAgree
<1>1. IndInv => LoopbackClassifiersAgree
  <2> SUFFICES ASSUME IndInv, verdict # "none", IsLoopbackAddress(addr)
               PROVE  verdict = "public" <=> allow_loopback
    BY DEF LoopbackClassifiersAgree
  <2>1. /\ addr \in V4 \cup V6
        /\ verdict = "public" <=> IsPublicAddress(addr, allow_loopback, nat64)
    BY DEF IndInv, TypeOK, Honest
  <2>2. CASE addr \in V4
    BY <2>1, <2>2 DEF IsPublicAddress, IsPublicIpv4, IsLoopbackAddress
  <2>3. CASE addr \in V6
    <3>1. addr \notin V4
      BY <2>3, FamiliesDiffer
    <3>2. verdict = "public" <=> IsPublicIpv6(addr, allow_loopback, nat64)
      BY <2>1, <3>1 DEF IsPublicAddress
    <3>3. CASE addr = Localhost
      BY <3>2, <3>3 DEF IsPublicIpv6
    <3>4. CASE addr # Localhost /\ Mapped(addr) /\ addr[13] = 127
      <4>1. ~SixToFour(addr) /\ ~LocalScope(addr)
        BY <3>4 DEF SixToFour, LocalScope, Mapped, AllZero
      <4>2. CarriedV4(addr) = {V4From(addr, 13)}
        BY <3>4, <4>1, Zenon DEF CarriedV4
      <4>3. addr # Unspecified
        BY <3>4 DEF Unspecified
      <4>4. V4From(addr, 13)[1] = 127
        BY <3>4 DEF V4From
      <4>5. IsPublicIpv6(addr, allow_loopback, nat64)
              <=> IsPublicIpv4(V4From(addr, 13), allow_loopback)
        BY <3>4, <4>1, <4>2, <4>3 DEF IsPublicIpv6
      <4> QED
        BY <3>2, <4>4, <4>5 DEF IsPublicIpv4
    <3> QED
      BY <3>1, <3>3, <3>4 DEF IsLoopbackAddress
  <2> QED
    BY <2>1, <2>2, <2>3
<1> QED
  BY <1>1, Inductive, PTL

\* The IPv4 address the classifier reads out of an IPv6 one, if any.
Decoded(a) == IF CarriedV4(a) # {} THEN CarriedV4(a) ELSE EmbeddedV4(a, nat64)

\* How far the flag reaches.
FlagReach ==
  (verdict = "public" /\ ~IsPublicAddress(addr, FALSE, nat64)) =>
    /\ allow_loopback
    /\ IsLoopbackAddress(addr) \/ (addr \in V6 /\ \E w \in Decoded(addr) : w[1] = 127)

\* `allow_loopback` re-permits more than its documentation names, but all of it
\* is loopback: beyond the addresses `is_loopback_address` knows, IPv6 addresses
\* in which `is_public_ipv6` finds a 127.x, whatever NSPs are configured.
THEOREM FlagReachesLoopbackOnly == Spec => []FlagReach
<1>1. \A w : \A b \in BOOLEAN :
        IsPublicIpv4(w, b) /\ ~IsPublicIpv4(w, FALSE) => b = TRUE /\ w[1] = 127
  BY DEF IsPublicIpv4
<1>2. IndInv => FlagReach
  <2> SUFFICES ASSUME IndInv, verdict = "public", ~IsPublicAddress(addr, FALSE, nat64)
               PROVE  /\ allow_loopback
                      /\ \/ IsLoopbackAddress(addr)
                         \/ addr \in V6 /\ \E w \in Decoded(addr) : w[1] = 127
    BY DEF FlagReach
  <2>1. /\ addr \in V4 \cup V6 /\ allow_loopback \in BOOLEAN
        /\ IsPublicAddress(addr, allow_loopback, nat64)
    BY DEF IndInv, TypeOK, Honest
  <2>2. CASE addr \in V4
    BY <1>1, <2>1, <2>2 DEF IsPublicAddress, IsLoopbackAddress
  <2>3. CASE addr \in V6 /\ addr = Localhost
    BY <2>1, <2>3, FamiliesDiffer DEF IsPublicAddress, IsPublicIpv6, IsLoopbackAddress
  <2>4. CASE addr \in V6 /\ addr # Localhost
    <3>1. IsPublicIpv6(addr, allow_loopback, nat64) /\ ~IsPublicIpv6(addr, FALSE, nat64)
      BY <2>1, <2>4, FamiliesDiffer DEF IsPublicAddress
    <3>2. \A w \in Decoded(addr) : IsPublicIpv4(w, allow_loopback)
      BY <2>4, <3>1 DEF IsPublicIpv6, Decoded
    <3>3. PICK w \in Decoded(addr) : ~IsPublicIpv4(w, FALSE)
      BY <2>4, <3>1 DEF IsPublicIpv6, Decoded
    <3> QED
      BY <1>1, <2>1, <2>4, <3>2, <3>3
  <2> QED
    BY <2>1, <2>2, <2>3, <2>4
<1> QED
  BY <1>2, Inductive, PTL

-----------------------------------------------------------------------------
(***************************************************************************)
(* The classifier inside the fetcher: SafeFetch, with its classes of       *)
(* addresses no longer arbitrary but what the classifier makes of real     *)
(* addresses under a policy.  The flag is the same one.                    *)
(***************************************************************************)
CONSTANTS Policy, Names, Timeout, MaxBody, MaxRedirects, MaxSize

VARIABLES dns, pc, url, hop, pinned, size, got, spent, elapsed, contacted, result

NSPs == [masked : V6, len : ValidLengths]

StrictlyPublic == {a \in Addresses : IsPublicAddress(a, FALSE, Policy)}
KnownLoopback == {a \in Addresses : IsLoopbackAddress(a)}
CarriedLoopback ==
  {a \in Addresses : IsPublicAddress(a, TRUE, Policy)} \ (StrictlyPublic \cup KnownLoopback)

Fetch == INSTANCE SafeFetchProofs WITH
           Addrs <- Addresses, Public <- StrictlyPublic, Loopback <- KnownLoopback,
           Embedded <- CarriedLoopback

\* The fetcher's settings, of whatever size; names are not addresses.
FetchSettings ==
  /\ Policy \in Seq(NSPs)
  /\ Names \cap Addresses = {}
  /\ Timeout \in Nat /\ MaxBody \in Nat /\ MaxRedirects \in Nat /\ MaxSize \in Nat

\* What `is_loopback_address` knows is public exactly when loopback is allowed.
LEMMA LoopbackByFlag ==
  ASSUME NEW a \in V4 \cup V6, IsLoopbackAddress(a)
  PROVE  IsPublicAddress(a, TRUE, Policy) /\ ~IsPublicAddress(a, FALSE, Policy)
<1>1. CASE a \in V4
  BY <1>1 DEF IsLoopbackAddress, IsPublicAddress, IsPublicIpv4
<1>2. CASE a \in V6 /\ a \notin V4 /\ a = Localhost
  BY <1>2 DEF IsPublicAddress, IsPublicIpv6
<1>3. CASE a \in V6 /\ a \notin V4 /\ a # Localhost
  <2>1. Mapped(a) /\ a[13] = 127
    BY <1>3 DEF IsLoopbackAddress
  <2>2. a[1] = 0 /\ a[11] = 255
    BY <2>1 DEF Mapped, AllZero
  <2>3. a # Unspecified /\ ~LocalScope(a)
    BY <2>2 DEF Unspecified, LocalScope
  <2>4. ~SixToFour(a)
    BY <2>2 DEF SixToFour
  <2>5. CarriedV4(a) = {V4From(a, 13)}
    BY <2>1, <2>4 DEF CarriedV4
  <2>6. V4From(a, 13)[1] = 127
    BY <2>1 DEF V4From
  <2>7. \A w \in CarriedV4(a) : IsPublicIpv4(w, TRUE) /\ ~IsPublicIpv4(w, FALSE)
    BY <2>5, <2>6 DEF IsPublicIpv4
  <2> QED
    BY <1>3, <2>3, <2>5, <2>7 DEF IsPublicAddress, IsPublicIpv6
<1> QED
  BY <1>1, <1>2, <1>3

\* The flag only ever lets more through.
LEMMA FlagOnlyWidens ==
  ASSUME NEW a, IsPublicAddress(a, FALSE, Policy)
  PROVE  IsPublicAddress(a, TRUE, Policy)
<1>1. \A w : IsPublicIpv4(w, FALSE) => IsPublicIpv4(w, TRUE)
  BY DEF IsPublicIpv4
<1> QED
  BY <1>1, Zenon DEF IsPublicAddress, IsPublicIpv6

\* The classifier's classes are as the fetcher assumes them.
LEMMA ClassesFit ==
  ASSUME FetchSettings
  PROVE  Fetch!FetchAssumptions
<1>1. /\ StrictlyPublic \subseteq Addresses /\ KnownLoopback \subseteq Addresses
      /\ CarriedLoopback \subseteq Addresses
  BY DEF StrictlyPublic, KnownLoopback, CarriedLoopback
<1>2. StrictlyPublic \cap (KnownLoopback \cup CarriedLoopback) = {}
  BY LoopbackByFlag, AddressAssumptions DEF StrictlyPublic, KnownLoopback, CarriedLoopback
<1> QED
  BY <1>1, <1>2 DEF FetchSettings, Fetch!FetchAssumptions

\* What the fetcher may contact is what the classifier lets through.
LEMMA ContactableIsPublic ==
  ASSUME allow_loopback \in BOOLEAN, NEW a \in Addresses,
         a \in StrictlyPublic \/ (allow_loopback /\ a \in KnownLoopback \cup CarriedLoopback)
  PROVE  IsPublicAddress(a, allow_loopback, Policy)
<1>1. a \in V4 \cup V6
  BY AddressAssumptions
<1>2. CASE allow_loopback = TRUE
  BY <1>1, <1>2, LoopbackByFlag, FlagOnlyWidens DEF StrictlyPublic, KnownLoopback, CarriedLoopback
<1>3. CASE allow_loopback = FALSE
  BY <1>3 DEF StrictlyPublic
<1> QED
  BY <1>2, <1>3

\* Said without the classifier: no special-purpose block, no local scope, and no
\* IPv4 address of such a block inside an IPv6 one; loopback by the flag only.
MayContact(a) ==
  /\ a \in V4 => Contactable(a)
  /\ a = Localhost => allow_loopback
  /\ a \in V6 /\ a # Localhost =>
       a # Unspecified /\ ~LocalScope(a) /\ InnerContactable(a, Policy)

\* Gate, lookup, classifier and pinning together: over every redirect and
\* rebinding, no GET of `SafeFetcher` connects to an address of a special-purpose
\* block, plain or in the dress of an IPv6 one, loopback aside where the operator
\* allows it, and http goes nowhere but to plain loopback.
THEOREM GuardedFetch ==
  ASSUME FetchSettings
  PROVE  Fetch!Spec => [](\A c \in contacted :
                            /\ MayContact(c.addr)
                            /\ c.url.scheme # "https" =>
                                 allow_loopback /\ IsLoopbackAddress(c.addr))
<1> DEFINE Guarded == \A c \in contacted :
             /\ MayContact(c.addr)
             /\ c.url.scheme # "https" => allow_loopback /\ IsLoopbackAddress(c.addr)
<1>1. Fetch!Spec => []Fetch!TypeOK
  BY ClassesFit, Fetch!TypeCorrect
<1>2. Fetch!Spec => []Fetch!ContactsOnlyPublic
  BY ClassesFit, Fetch!PublicOnly
<1>3. Fetch!Spec => []Fetch!CleartextStaysLocal
  BY ClassesFit, Fetch!LocalCleartext
<1>4. ASSUME Fetch!TypeOK, Fetch!ContactsOnlyPublic, Fetch!CleartextStaysLocal
      PROVE  Guarded
  <2> SUFFICES ASSUME NEW c \in contacted
               PROVE  /\ MayContact(c.addr)
                      /\ c.url.scheme # "https" => allow_loopback /\ IsLoopbackAddress(c.addr)
    OBVIOUS
  <2>1. allow_loopback \in BOOLEAN /\ c.addr \in Addresses /\ c.addr \in V4 \cup V6
    BY <1>4, AddressAssumptions DEF Fetch!TypeOK
  <2>2. IsPublicAddress(c.addr, allow_loopback, Policy)
    BY <1>4, <2>1, ContactableIsPublic DEF Fetch!ContactsOnlyPublic
  <2>3. c.addr \in V4 => Contactable(c.addr)
    BY <2>1, <2>2, ClassifiesV4 DEF IsPublicAddress, Contactable
  <2>4. Localhost \in V6
    BY DEF Localhost, V6, Octet
  <2>5. c.addr = Localhost => allow_loopback
    BY <2>2, <2>4, FamiliesDiffer DEF IsPublicAddress, IsPublicIpv6
  <2>6. ASSUME c.addr \in V6, c.addr # Localhost
        PROVE  /\ c.addr # Unspecified /\ ~LocalScope(c.addr)
               /\ InnerContactable(c.addr, Policy)
    <3>1. IsPublicIpv6(c.addr, allow_loopback, Policy)
      BY <2>2, <2>6, FamiliesDiffer DEF IsPublicAddress
    <3>2. InnerContactable(c.addr, Policy)
      BY <2>1, <2>6, <3>1, InnerDecides DEF FetchSettings, NSPs
    <3> QED
      BY <2>6, <3>1, <3>2 DEF IsPublicIpv6
  <2>7. c.url.scheme # "https" => allow_loopback /\ IsLoopbackAddress(c.addr)
    BY <1>4 DEF Fetch!CleartextStaysLocal, KnownLoopback
  <2> QED
    BY <2>3, <2>5, <2>6, <2>7 DEF MayContact
<1> HIDE DEF Guarded
<1>5. Fetch!Spec => []Guarded
  BY <1>1, <1>2, <1>3, <1>4, PTL
<1> QED
  BY <1>5 DEF Guarded
=============================================================================
