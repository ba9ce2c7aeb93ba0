----------------------------- MODULE MCSafeFetch -----------------------------
(* A small instance of SafeFetch for TLC.  The classes of addresses are what *)
(* the classifier makes of concrete ones, with one NAT64 prefix configured.  *)
EXTENDS SafeFetch, AddressClass

CONSTANTS pub, priv, loop, emb  \* names of four addresses

OctetsOf(a) ==
  CASE a = pub  -> \* 64:ff9b::8.8.8.8, which carries a public address
                   <<0, 100, 255, 155, 0, 0, 0, 0, 0, 0, 0, 0, 8, 8, 8, 8>>
    [] a = priv -> \* 10.0.0.1 under the configured prefix 2001:db8:1::/48
                   <<32, 1, 13, 184, 0, 1, 10, 0, 0, 0, 1, 0, 0, 0, 0, 0>>
    [] a = loop -> \* ::ffff:127.0.0.1
                   <<0, 0, 0, 0, 0, 0, 0, 0, 0, 0, 255, 255, 127, 0, 0, 1>>
    [] a = emb  -> \* 2002:7f00:1::, the 6to4 form of 127.0.0.1
                   <<32, 2, 127, 0, 0, 1, 0, 0, 0, 0, 0, 0, 0, 0, 0, 0>>

Policy == <<Nsp([prefix |-> OctetsOf(priv), len |-> 48])>>

MCPublic == {a \in Addrs : IsPublicAddress(OctetsOf(a), FALSE, Policy)}
MCLoopback == {a \in Addrs : IsLoopbackAddress(OctetsOf(a))}
MCEmbedded ==
  {a \in Addrs : IsPublicAddress(OctetsOf(a), TRUE, Policy)} \ (MCPublic \cup MCLoopback)
=============================================================================
