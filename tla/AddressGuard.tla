---------------------------- MODULE AddressGuard ----------------------------
(***************************************************************************)
(* The classifier in use: an operator configures the loopback flag and a   *)
(* list of NAT64 prefixes, and callers classify the addresses a name       *)
(* resolves to.                                                            *)
(***************************************************************************)
EXTENDS AddressClass

CONSTANTS Addresses,  \* the addresses that may be classified
          Cidrs,      \* well-formed prefixes an operator may configure
          Malformed,  \* a configuration entry that does not parse
          MaxCidrs    \* bound: entries in a configuration

ASSUME AddressAssumptions ==
  /\ Addresses \subseteq V4 \cup V6
  /\ Cidrs \subseteq [prefix : V6, len : 0 .. 255]
  /\ Malformed \notin Cidrs
  /\ MaxCidrs \in Nat

VARIABLES allow_loopback,  \* the configured flag
          nat64,           \* Nat64Policy: the configured NSPs, in order
          cidrs,           \* history: the entries nat64 was built from
          addr, verdict    \* the latest address classified, and the result

vars == <<allow_loopback, nat64, cidrs, addr, verdict>>

-----------------------------------------------------------------------------
Init ==
  /\ allow_loopback \in BOOLEAN
  /\ nat64 = <<>> /\ cidrs = <<>>
  /\ addr = Unspecified /\ verdict = "none"

\* Bug variant of Parses: any prefix length will do.
Parses_anyLength(c) == c # Malformed

\* `Nat64Nsp::parse` succeeds.
Parses(c) == c # Malformed /\ c.len \in ValidLengths

\* Bug variant of FromCidrs: an entry that does not parse is skipped.
FromCidrs_lenient(entries) ==
  /\ verdict = "none"
  /\ nat64' = LET good == SelectSeq(entries, Parses)
              IN [i \in 1 .. Len(good) |-> Nsp(good[i])]
  /\ cidrs' = entries
  /\ UNCHANGED <<allow_loopback, addr, verdict>>

\* `Nat64Policy::from_cidrs` succeeds, and a fetcher is built with the policy.
\* One entry that does not parse, and there is no policy and no fetcher.
FromCidrs(entries) ==
  /\ verdict = "none"
  /\ \A i \in 1 .. Len(entries) : Parses(entries[i])
  /\ nat64' = [i \in 1 .. Len(entries) |-> Nsp(entries[i])]
  /\ cidrs' = entries
  /\ UNCHANGED <<allow_loopback, addr, verdict>>

\* A caller has `is_public_address_with_nat64` classify an address, ...
Classify(a) ==
  /\ verdict = "none"
  /\ addr' = a
  /\ verdict' = IF IsPublicAddress(a, allow_loopback, nat64) THEN "public" ELSE "refused"
  /\ UNCHANGED <<allow_loopback, nat64, cidrs>>

\* ... and goes on to the next one.
Proceed ==
  /\ verdict # "none"
  /\ addr' = Unspecified
  /\ verdict' = "none"
  /\ UNCHANGED <<allow_loopback, nat64, cidrs>>

Entries == UNION {[1 .. n -> Cidrs \cup {Malformed}] : n \in 0 .. MaxCidrs}

Next == \/ \E entries \in Entries : FromCidrs(entries)
        \/ \E a \in Addresses : Classify(a)
        \/ Proceed

Spec == Init /\ [][Next]_vars

-----------------------------------------------------------------------------
\* Every variable stays in its type.
TypeOK ==
  /\ allow_loopback \in BOOLEAN
  /\ cidrs \in Entries
  /\ nat64 \in Seq([masked : V6, len : ValidLengths])
  /\ addr \in V4 \cup V6
  /\ verdict \in {"none", "public", "refused"}

\* Reference: the special-purpose IPv4 blocks, each from its first three octets
\* to its last.
UpTo(v, w) ==
  \/ v[1] < w[1]
  \/ v[1] = w[1] /\ (v[2] < w[2] \/ (v[2] = w[2] /\ v[3] <= w[3]))

Within(w, first, last) == UpTo(first, w) /\ UpTo(w, last)

Special(w) ==
  \/ Within(w, <<0, 0, 0>>, <<0, 255, 255>>)         \* 0.0.0.0/8
  \/ Within(w, <<10, 0, 0>>, <<10, 255, 255>>)       \* 10.0.0.0/8
  \/ Within(w, <<100, 64, 0>>, <<100, 127, 255>>)    \* 100.64.0.0/10
  \/ Within(w, <<127, 0, 0>>, <<127, 255, 255>>)     \* 127.0.0.0/8
  \/ Within(w, <<169, 254, 0>>, <<169, 254, 255>>)   \* 169.254.0.0/16
  \/ Within(w, <<172, 16, 0>>, <<172, 31, 255>>)     \* 172.16.0.0/12
  \/ Within(w, <<192, 0, 2>>, <<192, 0, 2>>)         \* 192.0.2.0/24
  \/ Within(w, <<192, 168, 0>>, <<192, 168, 255>>)   \* 192.168.0.0/16
  \/ Within(w, <<198, 18, 0>>, <<198, 19, 255>>)     \* 198.18.0.0/15
  \/ Within(w, <<198, 51, 100>>, <<198, 51, 100>>)   \* 198.51.100.0/24
  \/ Within(w, <<203, 0, 113>>, <<203, 0, 113>>)     \* 203.0.113.0/24
  \/ Within(w, <<224, 0, 0>>, <<255, 255, 255>>)     \* 224.0.0.0/4, 240.0.0.0/4

\* What may be contacted of IPv4, by the reference.
Contactable(w) == ~Special(w) \/ (allow_loopback /\ w[1] = 127)

\* The octet tests of `is_public_ipv4` refuse exactly the special-purpose
\* blocks (loopback unless it is allowed): no range is cut short or too long.
AgreesWithBlocks ==
  (verdict # "none" /\ addr \in V4) => (verdict = "public" <=> Contactable(addr))

\* Reference: RFC 6052, 2.2, the octets of an embedded IPv4 address.
Layout(len) ==
  CASE len = 32 -> <<5, 6, 7, 8>>
    [] len = 40 -> <<6, 7, 8, 10>>
    [] len = 48 -> <<7, 8, 10, 11>>
    [] len = 56 -> <<8, 10, 11, 12>>
    [] len = 64 -> <<10, 11, 12, 13>>
    [] len = 96 -> <<13, 14, 15, 16>>

At(a, layout) == [k \in 1 .. 4 |-> a[layout[k]]]

\* An IPv4 address that may not be contacted is not let through in the dress of
\* an IPv6 one: mapped, compatible, 6to4, well-known NAT64, or under a configured
\* NSP that no other one overlaps ("operators should not configure overlapping
\* prefixes": the first would win).
NoLaundering ==
  (verdict = "public" /\ addr \in V6 /\ addr # Localhost) =>
    /\ Mapped(addr) \/ Compatible(addr) \/ WellKnownNat64(addr)
         => Contactable(At(addr, <<13, 14, 15, 16>>))
    /\ SixToFour(addr) => Contactable(At(addr, <<3, 4, 5, 6>>))
    /\ CarriedV4(addr) = {} =>
         \A i \in DOMAIN nat64 :
           {j \in DOMAIN nat64 : Under(addr, nat64[j])} = {i}
             => Contactable(At(addr, Layout(nat64[i].len)))

\* A configured NSP, whatever it is and however NSPs overlap, never lets an
\* address through that the default policy refuses.
PolicyOnlyTightens ==
  verdict = "public" => IsPublicAddress(addr, allow_loopback, <<>>)

\* The two classifiers agree on what both know: an address in one of the forms
\* of `is_loopback_address` is let through exactly when loopback is allowed.
LoopbackClassifiersAgree ==
  (verdict # "none" /\ IsLoopbackAddress(addr)) => (verdict = "public" <=> allow_loopback)

\* "Any malformed entry fails the whole parse": a policy in force covers every
\* address under every prefix the operator listed, host bits given or not.
EveryEntryHonoured ==
  \A i \in DOMAIN cidrs :
    /\ cidrs[i] # Malformed
    /\ \E j \in DOMAIN nat64 : nat64[j].len = cidrs[i].len /\ Under(cidrs[i].prefix, nat64[j])

-----------------------------------------------------------------------------
(* What the repository's documentation says without qualification.         *)

\* ssrf.rs on is_public_address: "`allow_loopback` re-permits loopback (127/8,
\* ::1, mapped 127.x) only".  Those are the forms of `is_loopback_address`; what
\* the flag lets through beyond the public addresses should have one of them.
LoopbackFlagExact ==
  (verdict = "public" /\ ~IsPublicAddress(addr, FALSE, nat64)) => IsLoopbackAddress(addr)
=============================================================================
