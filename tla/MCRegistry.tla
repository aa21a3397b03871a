------------------------------ MODULE MCRegistry ------------------------------
(***************************************************************************)
(* Small instances of Registry for TLC: sixteen addresses, a subnet with    *)
(* six hosts and one with two, one interface name or two.                   *)
(***************************************************************************)
EXTENDS RegistryRequirements, TLC

CONSTANTS r1, r2, tun0, tun1, absent, ipv6

OneRequest == {r1}
TwoRequests == {r1, r2}
Interchangeable == Permutations(TwoRequests)
BothIfaces == {tun0, tun1}

PowersOfTwo == {4, 8}
Tight == [base |-> 8, size |-> 4, server |-> 9]
Roomy == [base |-> 0, size |-> 8, server |-> 1]
BothPools == {Tight, Roomy}

Ask(addr, ty, t) == [addr |-> addr, type |-> ty, tunnel |-> t]
Patch(addr, en, ty, t) == [addr |-> addr, enabled |-> en, type |-> ty, tunnel |-> t]

(* A POST without an address, direct with a stray tunnel, via the first tunnel,   *)
(* and with an address of the caller's choice: the first host, and one of IPv6.   *)
Posts == {Ask(absent, "direct", 1), Ask(absent, "via_upstream", 1),
          Ask(10, "direct", absent), Ask(ipv6, "via_upstream", absent)}
Patches == {Patch(absent, absent, "direct", absent), Patch(absent, absent, "via_upstream", 1),
            Patch(10, FALSE, absent, 2), Patch(ipv6, absent, absent, absent)}
NewTunnels == {[iface |-> tun0, enabled |-> TRUE], [iface |-> tun1, enabled |-> FALSE]}
TunnelChanges == {[iface |-> absent, enabled |-> TRUE], [iface |-> absent, enabled |-> FALSE],
                  [iface |-> tun0, enabled |-> absent]}

Phone == [addr |-> 10, enabled |-> absent, key |-> TRUE]
Laptop == [addr |-> 2, enabled |-> FALSE, key |-> TRUE]
Keyless == [addr |-> 2, enabled |-> TRUE, key |-> FALSE]
Homeless == [addr |-> absent, enabled |-> TRUE, key |-> TRUE]
Exports == {<<Phone, Laptop>>, <<Laptop, Homeless>>, <<Keyless, Phone>>}

(* For requests that meet: enough to make a tunnel, name it and take it away. *)
ViaPosts == {Ask(absent, "via_upstream", 1)}
NoPatches == {}
OneTunnel == {[iface |-> tun0, enabled |-> TRUE]}
SwitchOff == {[iface |-> absent, enabled |-> FALSE]}
NoExports == {}
OnePool == {Roomy}
===============================================================================
