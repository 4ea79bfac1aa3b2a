------------------------------- MODULE IPv6HP -------------------------------
(***************************************************************************)
(* ipv6-hp-bpf: two TC classifiers on eth0 that let the load balancer's    *)
(* IPv6 health probes, which come from a link-local address, pass through  *)
(* a node that only routes global addresses, and the program that installs *)
(* them.  Ingress turns the link-local source of a TCP packet into a fixed *)
(* global address, egress turns that destination back; both correct the    *)
(* TCP checksum by the difference of the two addresses.                    *)
(*                                                                         *)
(* Addresses are their eight 16-bit words.  One packet at a time travels   *)
(* from the wire through ingress to the TCP stack, whose reply travels     *)
(* through egress back to the wire, while the installer may be anywhere in *)
(* its work.                                                               *)
(***************************************************************************)
EXTENDS Integers

CONSTANTS
    Peers,      \* other addresses that talk to the node
    Node,       \* the node's address
    Payloads,   \* what a packet's other words add to its checksum
    MaxRuns,    \* bound: runs of the installer
    MaxPackets  \* bound: packets that arrive

Ones == 65535
Address == [1 .. 8 -> 0 .. Ones]

ASSUME HPConstants ==
    /\ Peers \subseteq Address /\ Node \in Address
    /\ Payloads \subseteq Nat
    /\ MaxRuns \in Nat /\ MaxPackets \in Nat

\* 2603:1062:0000:0001:fe80:1234:5678:9abc and fe80::1234:5678:9abc
GLOBAL_UNICAST_ADDR == <<9731, 4194, 0, 1, 65152, 4660, 22136, 39612>>
LINKLOCAL_ADDR == <<65152, 0, 0, 0, 0, 4660, 22136, 39612>>

Dirs == {"egress", "ingress"}

VARIABLES
    filters,    \* filters[d]: ipv6_hp filters on that side of eth0
    nftTable,   \* the table azureSLBProbe exists
    main,       \* the installer's next step, "exited" when it is not running
    runs,       \* runs of the installer so far
    req,        \* the packet as it arrived
    pkt,        \* the packet on its way
    at,         \* where it is: "wire", "stack", "out", "sent" or "gone"
    covered,    \* the filters it needed were in place when it passed them
    packets     \* packets arrived so far

instVars == <<filters, nftTable, main, runs>>
pktVars == <<req, pkt, at, covered, packets>>
hvars == <<instVars, pktVars>>

-----------------------------------------------------------------------------
(* One's complement sums *)

WordSum(a) == a[1] + a[2] + a[3] + a[4] + a[5] + a[6] + a[7] + a[8]

\* Carries are added back in; 0 stays 0, and no other sum becomes 0.
Folded(s) == IF s = 0 THEN 0 ELSE ((s - 1) % Ones) + 1
csum_fold(s) == Ones - Folded(s)

\* Mutant: the differences are taken the wrong way round.
bpf_csum_diffSwapped(from, to) == WordSum([i \in DOMAIN to |-> Ones - to[i]]) + WordSum(from)

bpf_csum_diff(from, to) == WordSum([i \in DOMAIN from |-> Ones - from[i]]) + WordSum(to)

\* With BPF_F_PSEUDO_HDR, the field of a packet whose checksum the device
\* completes holds the sum of the pseudo header and is adjusted as a sum.
bpf_l4_csum_replace(p, diff) ==
    IF p.partial THEN Folded(p.check + diff) ELSE csum_fold(Ones - p.check + diff)

PseudoHeader(p) == WordSum(p.src) + WordSum(p.dst) + p.len

\* The checksum the sender computes: of the pseudo header only, or of all.
Checksum(p) ==
    IF p.partial THEN Folded(PseudoHeader(p)) ELSE csum_fold(PseudoHeader(p) + p.payload)

ChecksumValid(p) ==
    IF p.partial THEN p.check % Ones = PseudoHeader(p) % Ones
                 ELSE (PseudoHeader(p) + p.payload + p.check) % Ones = 0

-----------------------------------------------------------------------------
(* The classifiers *)

compare_ipv6_addr(addr1, addr2) == \A i \in 1 .. 8 : addr1[i] = addr2[i]

\* A packet too short for the header cannot be loaded; any other packet that
\* is not TCP or has another address is left alone.
Eligible(p) == ~p.short /\ p.nexthdr = "TCP"

Shot == [shot |-> TRUE]

\* What both classifiers do: rewrite one address and correct the sum.
\* Either helper may fail (the packet may be shared and memory short).
Translated(p, field, from, to) ==
    IF Eligible(p) /\ compare_ipv6_addr(p[field], from)
      THEN {Shot, [[p EXCEPT ![field] = to] EXCEPT !.check = bpf_l4_csum_replace(p, bpf_csum_diff(from, to))]}
      ELSE {p}

\* Mutant: egress looks at the source, as ingress does.
gua_to_linklocalSource(p) == Translated(p, "src", GLOBAL_UNICAST_ADDR, LINKLOCAL_ADDR)

gua_to_linklocal(p) == Translated(p, "dst", GLOBAL_UNICAST_ADDR, LINKLOCAL_ADDR)

linklocal_to_gua(p) == Translated(p, "src", LINKLOCAL_ADDR, GLOBAL_UNICAST_ADDR)

Classify(d, p) == IF d = "egress" THEN gua_to_linklocal(p) ELSE linklocal_to_gua(p)

\* TC_ACT_UNSPEC goes on with the next filter, TC_ACT_SHOT ends in a drop.
OneFilter(d, Q) == UNION {IF q = Shot THEN {Shot} ELSE Classify(d, q) : q \in Q}

Through(d, p) ==
    CASE filters[d] = 0 -> {p}
      [] filters[d] = 1 -> OneFilter(d, {p})
      [] filters[d] = 2 -> OneFilter(d, OneFilter(d, {p}))

Pass(d, next, needed) ==
    /\ \E q \in Through(d, pkt) :
         IF q = Shot THEN at' = "gone" /\ UNCHANGED pkt
                     ELSE at' = next /\ pkt' = q
    /\ covered' = (covered /\ (needed => filters[d] > 0))
    /\ UNCHANGED <<req, packets, instVars>>

Packet(src, nexthdr, payload, short) ==
    [src |-> src, dst |-> Node, nexthdr |-> nexthdr, payload |-> payload, len |-> 26,
     short |-> short, partial |-> FALSE, check |-> 0]

\* A packet arrives; what came before it has left.
Arrive ==
    /\ at \in {"sent", "gone"} /\ packets < MaxPackets
    /\ \E src \in Peers \cup {LINKLOCAL_ADDR}, nexthdr \in {"TCP", "UDP"}, w \in Payloads, short \in BOOLEAN :
         LET p == Packet(src, nexthdr, w, short)
         IN  pkt' = [p EXCEPT !.check = Checksum(p)]
    /\ req' = pkt'
    /\ at' = "wire" /\ covered' = TRUE /\ packets' = packets + 1
    /\ UNCHANGED instVars

Ingress == at = "wire" /\ Pass("ingress", "stack", pkt.src = LINKLOCAL_ADDR)

\* The stack drops what is short or has a wrong checksum and answers the
\* source it sees, with or without leaving the checksum to the device.
Answer ==
    /\ at = "stack"
    /\ IF pkt.short \/ ~ChecksumValid(pkt)
         THEN at' = "gone" /\ UNCHANGED pkt
         ELSE /\ at' = "out"
              /\ \E partial \in BOOLEAN, w \in Payloads :
                   LET p == [pkt EXCEPT !.src = pkt.dst, !.dst = pkt.src, !.partial = partial, !.payload = w]
                   IN  pkt' = [p EXCEPT !.check = Checksum(p)]
    /\ UNCHANGED <<req, covered, packets, instVars>>

Egress == at = "out" /\ Pass("egress", "sent", pkt.dst = GLOBAL_UNICAST_ADDR)

-----------------------------------------------------------------------------
(* The installer *)

Goto(pc) == main' = pc /\ UNCHANGED <<runs, pktVars>>

Start ==
    /\ main = "exited" /\ runs < MaxRuns
    /\ main' = "nft" /\ runs' = runs + 1
    /\ UNCHANGED <<filters, nftTable, pktVars>>

\* Everything up to the first filter: the memlock limit, listing the tables,
\* deleting the old one, the interface and the qdisc.  An error ends the run.
DeleteTable ==
    /\ main = "nft"
    /\ \/ nftTable' = FALSE /\ Goto("egress")
       \/ nftTable' \in {nftTable, FALSE} /\ Goto("exited")
    /\ UNCHANGED filters

Adding(d) == IF d = "egress" THEN "add_egress" ELSE "add_ingress"
Added(d) == IF d = "egress" THEN "ingress" ELSE "exited"

\* Mutant: the filter of the last run is left in place.
DeleteFilterSkipped(d) ==
    /\ main = d
    /\ Goto(Adding(d))
    /\ UNCHANGED <<filters, nftTable>>

\* SetupEgressFilter, SetupIngressFilter up to the deletion of the filter of
\* an earlier run.  An error is returned and logged, and main goes on; objects
\* that did not load end the process.
DeleteFilter(d) ==
    /\ main = d
    /\ \/ filters' = [filters EXCEPT ![d] = IF @ > 0 THEN @ - 1 ELSE 0] /\ Goto(Adding(d))
       \/ Goto(Added(d)) /\ UNCHANGED filters
       \/ Goto("exited") /\ UNCHANGED filters
    /\ UNCHANGED nftTable

\* FilterReplace without a handle adds a filter.
AddFilter(d) ==
    /\ main = Adding(d)
    /\ \/ filters' = [filters EXCEPT ![d] = @ + 1] /\ Goto(Added(d))
       \/ Goto(Added(d)) /\ UNCHANGED filters
    /\ UNCHANGED nftTable

Kill == main # "exited" /\ Goto("exited") /\ UNCHANGED <<filters, nftTable>>

HInit ==
    /\ filters = [d \in Dirs |-> 0]
    /\ nftTable \in BOOLEAN
    /\ main = "exited" /\ runs = 0
    /\ pkt = Packet(Node, "TCP", 0, TRUE) /\ req = pkt
    /\ at = "gone" /\ covered = TRUE /\ packets = 0

HNext ==
    \/ Arrive \/ Ingress \/ Answer \/ Egress
    \/ Start \/ DeleteTable \/ Kill
    \/ \E d \in Dirs : DeleteFilter(d) \/ AddFilter(d)

HSpec == HInit /\ [][HNext]_hvars

-----------------------------------------------------------------------------
(* Properties *)

\* No classifier breaks a checksum, whether the sender or the device computes
\* it, with any number of filters in place.
ChecksumKept == at \in {"stack", "out", "sent"} => ChecksumValid(pkt)

\* "to avoid duplicate filters after restarting the daemonset": wherever runs
\* of the installer fail or are killed, each side has at most one filter.
NoDuplicates == \A d \in Dirs : filters[d] <= 1

\* The peer gets the answer from the address it asked and at its own address,
\* unless a filter was missing when the packet passed.
RoundTrip == at = "sent" /\ covered => pkt.dst = req.src /\ pkt.src = req.dst

=============================================================================
