------------------------------ MODULE MCNetctl ------------------------------
(***************************************************************************)
(* Small nodes for TLC: at most two clients and two upstreams.             *)
(***************************************************************************)
EXTENDS NetctlRequirements, TLC

Ids == {1, 2}
TwoIfaces == {"awg0", "awg1", "awg2"}
Two32 == {"10.8.0.2/32", "10.8.0.3/32"}
KernelRules == {[pref |-> 32766, table |-> 254], [pref |-> 32767, table |-> 253]}
NoDatabases == {}

Row(via, addr) == [enabled |-> TRUE, via |-> via, addr |-> addr]
Off(via, addr) == [enabled |-> FALSE, via |-> via, addr |-> addr]
Tun(iface, conf) == [enabled |-> TRUE, iface |-> iface, conf |-> conf]
Disabled(iface) == [enabled |-> FALSE, iface |-> iface, conf |-> "good"]
Node(cs, ts) == [ingress |-> [iface |-> "awg0", sane |-> TRUE], clients |-> cs, tunnels |-> ts,
                 policy |-> "block", ext |-> NoIface]

A == "10.8.0.2/32"
B == "10.8.0.3/32"

Empty == Node(<<>>, <<>>)
NotBootstrapped == [Empty EXCEPT !.ingress = [iface |-> NoIface, sane |-> FALSE]]
Direct12 == Node(<<Row(0, A), Row(0, B)>>, <<Tun("awg1", "good")>>)
First1 == Node(<<Row(1, A)>>, <<Tun("awg1", "good")>>)
Mixed == Node(<<Row(1, A), Row(0, B)>>, <<Tun("awg1", "good"), Tun("awg2", "good")>>)
Moved == Node(<<Row(2, A), Row(1, B)>>, <<Tun("awg1", "good"), Tun("awg2", "good")>>)
Renamed == [Node(<<Row(1, A), Off(1, B)>>, <<Tun("awg2", "good"), Disabled("awg1")>>)
              EXCEPT !.ext = Ext]
Shared == Node(<<Row(1, A), Row(1, A)>>, <<Tun("awg1", "good")>>)
Odd == [Node(<<Row(2, A), Row(1, NotV4)>>, <<Tun("awg1", "good"), Disabled("awg2")>>)
          EXCEPT !.policy = "ignore", !.ingress.sane = FALSE]
Broken == Node(<<Row(1, A), Row(0, B)>>, <<Tun("awg1", "bad"), Tun("awg2", "good")>>)
Colliding == Node(<<Row(0, A)>>, <<Tun("awg0", "good")>>)
Unconfigured == Node(<<Row(0, A)>>, <<Tun("awg1", "empty")>>)
Offline == Node(<<Row(1, A), Row(2, B)>>, <<Tun("awg1", "good"), Disabled("awg2")>>)
BadOverride == [First1 EXCEPT !.ext = BadExt, !.clients = <<Row(1, A), Row(0, B)>>]

SoundDbs == {Direct12, First1, Mixed, Moved, Renamed, Odd, Shared}
UnsoundDbs == {Broken, Colliding, Unconfigured}
SerialDbs == SoundDbs \cup UnsoundDbs
SerialInit == {NotBootstrapped, Mixed}

\* Settings and imports are committed while an Apply is under way.
Detour == [Node(<<Row(1, A)>>, <<Tun("awg1", "good"), Disabled("awg2")>>) EXCEPT !.policy = "ignore"]
DetourDbs == {[Detour EXCEPT !.clients = <<Row(1, A), Row(2, B)>>], Moved}
ImportDbs == {[Detour EXCEPT !.clients = <<Row(1, A), Row(0, B)>>],
              [Detour EXCEPT !.ext = Ext]}
DetourInit == {Detour}

\* The smallest nodes on which the code and its documentation part.
OnlyDirect == {Direct12}
OnlyFirst1 == {First1}
RaceDbs == {First1, Mixed}

\* A client table after years of creations: the ids around those whose preferences
\* are the kernel's, and in one database client 766, whose is that of the main rule.
Aged(d) == [d EXCEPT !.clients = [c \in {IF x = 1 THEN 765 ELSE 768 : x \in DOMAIN @}
                                    |-> @[IF c = 765 THEN 1 ELSE 2]]]
AgedIds == {765, 766, 768}
LateClient == [First1 EXCEPT !.clients = (766 :> Row(1, A))]
FaultDbs == {Aged(d) : d \in {First1, Moved, Direct12, Offline, BadOverride, Broken}} \cup {LateClient}
FaultInit == {Aged(First1)}
=============================================================================
