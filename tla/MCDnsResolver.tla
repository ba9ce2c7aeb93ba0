---------------------------- MODULE MCDnsResolver ----------------------------
(* A small instance of DnsResolver for TLC. *)
EXTENDS DnsResolver
=============================================================================
