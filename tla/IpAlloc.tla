------------------------------ MODULE IpAlloc ------------------------------
(***************************************************************************)
(* internal/ipalloc: the address a new client gets when it asks for none.   *)
(* Addresses are uint32; Space is 2^32 here and something small for TLC.    *)
(* A subnet is its masked base and its size in addresses.                   *)
(*                                                                         *)
(* An operator marked "mutant" is no part of the model: it is the next     *)
(* definition with a bug in it, for checking that the properties notice.   *)
(***************************************************************************)
EXTENDS Integers

CONSTANTS
  Space,       \* how many addresses there are: uint32 arithmetic is modulo this
  Sizes,       \* sizes of the subnets that may be set
  Unmappable   \* an address As4 has no answer for: IPv6, or none at all

ASSUME SpaceOK == /\ Space \in Nat /\ Space > 3
                  /\ Sizes \subseteq 1..Space
                  /\ Unmappable \notin Int

Hosts == 0..(Space - 1)
Addrs == Hosts \cup {Unmappable}

(* What ingress_settings says of addresses: tunnel_subnet and server_tunnel_ip. *)
Pools == {p \in [base : Hosts, size : Sizes, server : Addrs] : p.base + p.size <= Space}

(* uint32 addition and subtraction of two addresses. *)
Wrap(n) == IF n < 0 THEN n + Space ELSE IF n >= Space THEN n - Space ELSE n

FirstHost(p) == Wrap(p.base + 1)
ToBroadcast(p) == Wrap(p.base + p.size - 1)           \* mutant
LastHost(p) == Wrap(p.base + p.size - 2)

(* A /0 is refused; an address without four bytes panics, which answers 500. *)
Allocates(p, used) == p.size < Space /\ p.server # Unmappable /\ Unmappable \notin used

(* NextPeerPrefix: the lowest host that is neither the server nor taken, if any. *)
NextPeer(p, used) ==
  LET free == FirstHost(p)..LastHost(p) \ (used \cup {p.server})
  IN  {h \in free : Allocates(p, used) /\ \A g \in free : h <= g}

(* What NextPeerPrefix's comment calls a usable host: neither the network nor the *)
(* broadcast address of the subnet.                                               *)
Usable(p) == {h \in Hosts : p.base < h /\ h < p.base + p.size - 1}
=============================================================================
