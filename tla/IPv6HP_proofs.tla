---------------------------- MODULE IPv6HP_proofs ----------------------------
(***************************************************************************)
(* The IPv6 health probe classifiers and their installer, for every set of *)
(* peers and payloads and every number of runs and packets: no classifier  *)
(* breaks a checksum (ChecksumKept), no run of the installer leaves two    *)
(* filters (NoDuplicates), and an answer comes back to the address that    *)
(* was asked from (RoundTrip).                                             *)
(*                                                                         *)
(* The argument.  bpf_csum_diff is the difference of the two addresses up  *)
(* to multiples of 65535, folding and complementing keep sums up to such   *)
(* multiples, and a checksum is valid when a sum is such a multiple; so a  *)
(* translation keeps validity (TranslationKeepsSum).  The installer is     *)
(* about to add a filter only on a side that has none (FilterInv), and a   *)
(* packet differs from the one that arrived only in the probe's address    *)
(* (RouteInv).                                                             *)
(***************************************************************************)
EXTENDS IPv6HP, TLAPS

\* The only address the classifiers do not pass through unchanged when it is
\* not the probe's: nobody else may have it.
ProbeAddressIsFree == GLOBAL_UNICAST_ADDR \notin Peers

Packets ==
    [src : Address, dst : Address, nexthdr : {"TCP", "UDP"}, payload : Nat, len : Nat,
     short : BOOLEAN, partial : BOOLEAN, check : Int]

\* The installer deletes a side's filter before it adds one.
FilterInv ==
    /\ filters \in [Dirs -> {0, 1}]
    /\ \A d \in Dirs : main = Adding(d) => filters[d] = 0

PacketInv ==
    /\ pkt \in Packets /\ covered \in BOOLEAN
    /\ at \in {"wire", "stack", "out", "sent", "gone"}
    /\ at # "gone" => ChecksumValid(pkt)

\* Where the packet has come from and where it goes.
RouteInv ==
    /\ at # "gone" => req.src \in Peers \cup {LINKLOCAL_ADDR}
    /\ at = "wire" => pkt.src = req.src /\ pkt.dst = req.dst
    /\ at = "stack" =>
          /\ pkt.dst = req.dst
          /\ \/ pkt.src = req.src
             \/ req.src = LINKLOCAL_ADDR /\ pkt.src = GLOBAL_UNICAST_ADDR /\ Eligible(pkt)
    /\ at = "out" =>
          /\ pkt.src = req.dst
          /\ \/ pkt.dst = req.src
             \/ req.src = LINKLOCAL_ADDR /\ pkt.dst = GLOBAL_UNICAST_ADDR /\ Eligible(pkt)
    /\ at = "sent" /\ covered => pkt.src = req.dst /\ pkt.dst = req.src

HInv == FilterInv /\ PacketInv

-----------------------------------------------------------------------------
(* Sums up to multiples of 65535 *)

\* x and y differ by a multiple of 65535.
Cong(x, y) == \E k \in Int : x = y + k * Ones

\* Sums that differ so have the same remainder.
LEMMA ModIsCong ==
    ASSUME NEW x \in Int, NEW y \in Int
    PROVE  x % Ones = y % Ones <=> Cong(x, y)
<1>1. ASSUME NEW z \in Int
      PROVE  /\ z % Ones \in 0 .. Ones - 1 /\ z \div Ones \in Int
             /\ z = (z \div Ones) * Ones + (z % Ones)
  BY DEF Ones
<1>2. ASSUME x % Ones = y % Ones PROVE Cong(x, y)
  <2>1. PICK a \in Int, b \in Int : x = a * Ones + (x % Ones) /\ y = b * Ones + (y % Ones)
    BY <1>1
  <2>2. x % Ones \in Int /\ y % Ones \in Int
    BY <1>1 DEF Ones
  <2>3. x = y + (a - b) * Ones /\ a - b \in Int
    BY <1>2, <2>1, <2>2 DEF Ones
  <2> QED BY <2>3 DEF Cong
<1>3. ASSUME NEW k \in Int, x = y + k * Ones PROVE x % Ones = y % Ones
  BY <1>3 DEF Ones
<1> QED BY <1>2, <1>3 DEF Cong

\* Adding the carries back in (csum_fold's loop) changes a sum by such a multiple.
LEMMA FoldedIsCong ==
    ASSUME NEW s \in Int
    PROVE  Folded(s) \in Int /\ Cong(Folded(s), s)
<1>1. CASE s = 0
  BY <1>1 DEF Folded, Cong, Ones
<1>2. CASE s # 0
  <2>1. Folded(s) = ((s - 1) % Ones) + 1
    BY <1>2 DEF Folded
  <2>2. /\ (s - 1) % Ones \in Int /\ (s - 1) \div Ones \in Int
        /\ s - 1 = ((s - 1) \div Ones) * Ones + ((s - 1) % Ones)
    BY DEF Ones
  <2>3. Folded(s) = s + (0 - ((s - 1) \div Ones)) * Ones
    BY <2>1, <2>2 DEF Ones
  <2>4. 0 - ((s - 1) \div Ones) \in Int
    BY <2>2
  <2> QED BY <2>1, <2>2, <2>3, <2>4 DEF Cong
<1> QED BY <1>1, <1>2

\* The words of an address.
LEMMA AddressWords ==
    ASSUME NEW a \in Address
    PROVE  /\ DOMAIN a = 1 .. 8 /\ a = [i \in 1 .. 8 |-> a[i]]
           /\ a[1] \in Int /\ a[2] \in Int /\ a[3] \in Int /\ a[4] \in Int
           /\ a[5] \in Int /\ a[6] \in Int /\ a[7] \in Int /\ a[8] \in Int
<1>1. DOMAIN a = 1 .. 8 /\ a = [i \in 1 .. 8 |-> a[i]] /\ \A i \in 1 .. 8 : a[i] \in 0 .. Ones
  BY DEF Address
<1>2. \A i \in 1 .. 8 : a[i] \in Int
  BY <1>1
<1>3. 1 \in 1 .. 8 /\ 2 \in 1 .. 8 /\ 3 \in 1 .. 8 /\ 4 \in 1 .. 8 /\ 5 \in 1 .. 8 /\ 6 \in 1 .. 8 /\ 7 \in 1 .. 8 /\ 8 \in 1 .. 8
  OBVIOUS
<1> QED BY <1>1, <1>2, <1>3

\* The two addresses of the probe.
LEMMA AddressFacts ==
    /\ GLOBAL_UNICAST_ADDR \in Address /\ LINKLOCAL_ADDR \in Address
    /\ GLOBAL_UNICAST_ADDR # LINKLOCAL_ADDR
<1>1. GLOBAL_UNICAST_ADDR[2] # LINKLOCAL_ADDR[2]
  BY DEF GLOBAL_UNICAST_ADDR, LINKLOCAL_ADDR
<1>3. /\ 0 \in 0 .. Ones /\ 1 \in 0 .. Ones /\ 4194 \in 0 .. Ones /\ 4660 \in 0 .. Ones
      /\ 9731 \in 0 .. Ones /\ 22136 \in 0 .. Ones /\ 39612 \in 0 .. Ones /\ 65152 \in 0 .. Ones
  BY DEF Ones
<1>4. GLOBAL_UNICAST_ADDR \in Address
  <2>1. <<9731, 4194, 0, 1, 65152, 4660, 22136, 39612>> \in Address
    BY <1>3 DEF Address
  <2> QED BY <2>1 DEF GLOBAL_UNICAST_ADDR
<1>5. LINKLOCAL_ADDR \in Address
  <2>1. <<65152, 0, 0, 0, 0, 4660, 22136, 39612>> \in Address
    BY <1>3 DEF Address
  <2> QED BY <2>1 DEF LINKLOCAL_ADDR
<1> QED BY <1>1, <1>4, <1>5

\* The sum of an address is a number.
LEMMA WordSumIsInt == ASSUME NEW a \in Address PROVE WordSum(a) \in Int
  BY AddressWords DEF WordSum

\* bpf_csum_diff is the difference of the two sums, and eight times 65535.
LEMMA DiffIsCong ==
    ASSUME NEW a \in Address, NEW b \in Address
    PROVE  bpf_csum_diff(a, b) \in Int /\ bpf_csum_diff(a, b) = WordSum(b) - WordSum(a) + 8 * Ones
<1> DEFINE c == [i \in DOMAIN a |-> Ones - a[i]]
<1>1. /\ c[1] = Ones - a[1] /\ c[2] = Ones - a[2] /\ c[3] = Ones - a[3] /\ c[4] = Ones - a[4]
      /\ c[5] = Ones - a[5] /\ c[6] = Ones - a[6] /\ c[7] = Ones - a[7] /\ c[8] = Ones - a[8]
  BY AddressWords
<1>2. WordSum(c) = 8 * Ones - WordSum(a)
  BY <1>1, AddressWords DEF WordSum, Ones
<1> QED BY <1>2, WordSumIsInt DEF bpf_csum_diff, Ones

\* compare_ipv6_addr is equality.
LEMMA CompareIsEqual ==
    ASSUME NEW a \in Address, NEW b \in Address
    PROVE  compare_ipv6_addr(a, b) <=> a = b
<1>1. ASSUME \A i \in 1 .. 8 : a[i] = b[i] PROVE a = b
  <2>1. [i \in 1 .. 8 |-> a[i]] = [i \in 1 .. 8 |-> b[i]]
    BY <1>1
  <2> QED BY <2>1, AddressWords
<1> QED BY <1>1 DEF compare_ipv6_addr

-----------------------------------------------------------------------------
(* Packets *)

\* The sums of a packet's words.
LEMMA PacketSums ==
    ASSUME NEW p \in Packets
    PROVE  PseudoHeader(p) \in Int /\ p.payload \in Int /\ p.check \in Int /\ p.partial \in BOOLEAN
<1>1. p.src \in Address /\ p.dst \in Address /\ p.len \in Int
  BY DEF Packets
<1> QED BY <1>1, WordSumIsInt DEF Packets, PseudoHeader

\* The checksum a sender computes is valid.
LEMMA SentIsValid ==
    ASSUME NEW p \in Packets
    PROVE  Checksum(p) \in Int /\ ChecksumValid([p EXCEPT !.check = Checksum(p)])
<1> DEFINE q == [p EXCEPT !.check = Checksum(p)]
           h == PseudoHeader(p)
<1>0. h \in Int /\ p.payload \in Int /\ p.partial \in BOOLEAN
  BY PacketSums
<1>1. /\ q.src = p.src /\ q.dst = p.dst /\ q.len = p.len /\ q.payload = p.payload
      /\ q.partial = p.partial /\ q.check = Checksum(p)
  BY DEF Packets
<1>2. PseudoHeader(q) = h
  BY <1>1 DEF PseudoHeader
<1>3. CASE p.partial
  <2>1. Checksum(p) = Folded(h)
    BY <1>3 DEF Checksum
  <2>2. Checksum(p) \in Int /\ Checksum(p) % Ones = h % Ones
    BY <1>0, <2>1, FoldedIsCong, ModIsCong
  <2> QED BY <1>1, <1>2, <1>3, <2>2 DEF ChecksumValid
<1>4. CASE ~p.partial
  <2>1. Checksum(p) = Ones - Folded(h + p.payload)
    BY <1>4 DEF Checksum, csum_fold
  <2>2. PICK k \in Int : Folded(h + p.payload) = h + p.payload + k * Ones
    BY <1>0, FoldedIsCong DEF Cong
  <2>3. Checksum(p) \in Int /\ h + p.payload + Checksum(p) = 0 + (1 - k) * Ones
    BY <1>0, <2>1, <2>2 DEF Ones
  <2>4. (h + p.payload + Checksum(p)) % Ones = 0 % Ones
    <3>1. h + p.payload + Checksum(p) \in Int /\ 1 - k \in Int
      BY <1>0, <2>3
    <3> QED BY <2>3, <3>1, ModIsCong DEF Cong
  <2>5. 0 % Ones = 0
    BY DEF Ones
  <2> QED BY <1>1, <1>2, <1>4, <2>3, <2>4, <2>5 DEF ChecksumValid
<1> QED BY <1>0, <1>3, <1>4

\* The corrected checksum is an integer.
LEMMA ReplacedIsInt ==
    ASSUME NEW p \in Packets, NEW a \in Address, NEW b \in Address
    PROVE  bpf_l4_csum_replace(p, bpf_csum_diff(a, b)) \in Int
<1>1. p.check \in Int /\ bpf_csum_diff(a, b) \in Int
  BY PacketSums, DiffIsCong
<1>2. p.check + bpf_csum_diff(a, b) \in Int /\ Ones - p.check + bpf_csum_diff(a, b) \in Int
  BY <1>1 DEF Ones
<1>3. Folded(p.check + bpf_csum_diff(a, b)) \in Int /\ Folded(Ones - p.check + bpf_csum_diff(a, b)) \in Int
  BY <1>2, FoldedIsCong
<1> QED BY <1>3 DEF bpf_l4_csum_replace, csum_fold, Ones

\* bpf_l4_csum_replace by bpf_csum_diff: when an address a of the packet becomes
\* b, a valid checksum becomes a valid checksum, whether it is the sender's or
\* left to the device.
LEMMA TranslationKeepsSum ==
    ASSUME NEW p \in Packets, NEW q \in Packets, NEW a \in Address, NEW b \in Address,
           ChecksumValid(p),
           PseudoHeader(q) = PseudoHeader(p) - WordSum(a) + WordSum(b),
           q.payload = p.payload, q.partial = p.partial,
           q.check = bpf_l4_csum_replace(p, bpf_csum_diff(a, b))
    PROVE  ChecksumValid(q)
<1> DEFINE h == PseudoHeader(p)
           d == bpf_csum_diff(a, b)
<1>1. h \in Int /\ p.payload \in Int /\ p.check \in Int /\ q.check \in Int /\ PseudoHeader(q) \in Int
  BY PacketSums
<1>2. WordSum(a) \in Int /\ WordSum(b) \in Int /\ d \in Int /\ d = WordSum(b) - WordSum(a) + 8 * Ones
  BY WordSumIsInt, DiffIsCong
<1> HIDE DEF h, d
<1>h. PseudoHeader(q) = h - WordSum(a) + WordSum(b) /\ q.check = bpf_l4_csum_replace(p, d)
  BY DEF h, d
<1>3. CASE p.partial
  <2>1. PICK k \in Int : p.check = h + k * Ones
    <3>1. p.check % Ones = h % Ones
      BY <1>3 DEF ChecksumValid, h
    <3> QED BY <1>1, <3>1, ModIsCong DEF Cong
  <2>2. PICK j \in Int : q.check = p.check + d + j * Ones
    <3>1. q.check = Folded(p.check + d)
      BY <1>h, <1>3 DEF bpf_l4_csum_replace
    <3> QED BY <1>1, <1>2, <3>1, FoldedIsCong DEF Cong
  <2>3. q.check = PseudoHeader(q) + (k + j + 8) * Ones /\ k + j + 8 \in Int
    BY <1>1, <1>2, <1>h, <2>1, <2>2 DEF Ones
  <2>4. q.check % Ones = PseudoHeader(q) % Ones
    BY <1>1, <2>3, ModIsCong DEF Cong
  <2> QED BY <1>3, <2>4 DEF ChecksumValid
<1>4. CASE ~p.partial
  <2>1. PICK k \in Int : h + p.payload + p.check = k * Ones
    <3>1. (h + p.payload + p.check) % Ones = 0 % Ones
      BY <1>4 DEF ChecksumValid, h, Ones
    <3>2. h + p.payload + p.check \in Int
      BY <1>1
    <3>3. PICK k \in Int : h + p.payload + p.check = 0 + k * Ones
      BY <3>1, <3>2, ModIsCong DEF Cong
    <3>4. 0 + k * Ones = k * Ones
      BY DEF Ones
    <3> QED BY <3>3, <3>4
  <2>2. PICK j \in Int : q.check = Ones - (Ones - p.check + d + j * Ones)
    <3>1. q.check = Ones - Folded(Ones - p.check + d)
      BY <1>h, <1>4 DEF bpf_l4_csum_replace, csum_fold
    <3>2. Ones - p.check + d \in Int
      BY <1>1, <1>2 DEF Ones
    <3>3. PICK j \in Int : Folded(Ones - p.check + d) = Ones - p.check + d + j * Ones
      BY <3>2, FoldedIsCong DEF Cong
    <3> QED BY <3>1, <3>3
  <2>3. PseudoHeader(q) + q.payload + q.check = 0 + (k - j - 8) * Ones /\ k - j - 8 \in Int
    BY <1>1, <1>2, <1>h, <2>1, <2>2 DEF Ones
  <2>4. PseudoHeader(q) + q.payload + q.check \in Int
    BY <1>1
  <2>5. (PseudoHeader(q) + q.payload + q.check) % Ones = 0 % Ones
    BY <2>3, <2>4, ModIsCong DEF Cong
  <2>6. 0 % Ones = 0
    BY DEF Ones
  <2> QED BY <1>4, <2>5, <2>6 DEF ChecksumValid
<1> QED BY <1>3, <1>4

\* What the ingress classifier makes of a packet: it drops it, leaves it alone,
\* or changes the probe's source address and the checksum.
LEMMA IngressClassified ==
    ASSUME NEW p \in Packets, NEW q \in linklocal_to_gua(p), ChecksumValid(p)
    PROVE  \/ q = Shot
           \/ /\ q \in Packets /\ ChecksumValid(q) /\ q.dst = p.dst
              /\ \/ q = p
                 \/ p.src = LINKLOCAL_ADDR /\ q.src = GLOBAL_UNICAST_ADDR /\ Eligible(q)
<1> DEFINE L == LINKLOCAL_ADDR
           G == GLOBAL_UNICAST_ADDR
           c == bpf_l4_csum_replace(p, bpf_csum_diff(L, G))
           r == [[p EXCEPT !["src"] = G] EXCEPT !.check = c]
<1>0. L \in Address /\ G \in Address /\ p.src \in Address /\ p.dst \in Address
  BY AddressFacts DEF Packets
<1>1. CASE Eligible(p) /\ compare_ipv6_addr(p.src, L)
  <2>1. p.src = L
    BY <1>0, <1>1, CompareIsEqual
  <2>2. q \in {Shot, r}
    BY <1>1 DEF linklocal_to_gua, Translated
  <2>3. c \in Int
    BY <1>0, ReplacedIsInt
  <2>4. /\ r.src = G /\ r.dst = p.dst /\ r.nexthdr = p.nexthdr /\ r.payload = p.payload /\ r.len = p.len
        /\ r.short = p.short /\ r.partial = p.partial /\ r.check = c /\ r \in Packets
    BY <1>0, <2>3 DEF Packets
  <2>5. PseudoHeader(r) = PseudoHeader(p) - WordSum(L) + WordSum(G)
    <3> HIDE DEF r, L, G
    <3>1. WordSum(G) \in Int /\ WordSum(L) \in Int /\ WordSum(p.dst) \in Int /\ p.len \in Int
      BY <1>0, WordSumIsInt DEF Packets
    <3>2. PseudoHeader(r) = WordSum(G) + WordSum(p.dst) + p.len
      BY <2>4 DEF PseudoHeader
    <3>3. PseudoHeader(p) = WordSum(L) + WordSum(p.dst) + p.len
      BY <2>1 DEF PseudoHeader
    <3> QED BY <3>1, <3>2, <3>3
  <2>6. ChecksumValid(r)
    BY <1>0, <2>4, <2>5, TranslationKeepsSum
  <2>7. Eligible(r)
    BY <1>1, <2>4 DEF Eligible
  <2> QED BY <2>1, <2>2, <2>4, <2>6, <2>7
<1>2. CASE ~(Eligible(p) /\ compare_ipv6_addr(p.src, L))
  BY <1>2 DEF linklocal_to_gua, Translated
<1> QED BY <1>1, <1>2

\* What the egress classifier makes of a packet: it drops it, leaves it alone if
\* it is not for the probe, or changes the destination address and the checksum.
LEMMA EgressClassified ==
    ASSUME NEW p \in Packets, NEW q \in gua_to_linklocal(p), ChecksumValid(p)
    PROVE  \/ q = Shot
           \/ /\ q \in Packets /\ ChecksumValid(q) /\ q.src = p.src
              /\ \/ q = p /\ ~(p.dst = GLOBAL_UNICAST_ADDR /\ Eligible(p))
                 \/ p.dst = GLOBAL_UNICAST_ADDR /\ q.dst = LINKLOCAL_ADDR
<1> DEFINE L == LINKLOCAL_ADDR
           G == GLOBAL_UNICAST_ADDR
           c == bpf_l4_csum_replace(p, bpf_csum_diff(G, L))
           r == [[p EXCEPT !["dst"] = L] EXCEPT !.check = c]
<1>0. L \in Address /\ G \in Address /\ p.src \in Address /\ p.dst \in Address
  BY AddressFacts DEF Packets
<1>1. CASE Eligible(p) /\ compare_ipv6_addr(p.dst, G)
  <2>1. p.dst = G
    BY <1>0, <1>1, CompareIsEqual
  <2>2. q \in {Shot, r}
    BY <1>1 DEF gua_to_linklocal, Translated
  <2>3. c \in Int
    BY <1>0, ReplacedIsInt
  <2>4. /\ r.src = p.src /\ r.dst = L /\ r.nexthdr = p.nexthdr /\ r.payload = p.payload /\ r.len = p.len
        /\ r.short = p.short /\ r.partial = p.partial /\ r.check = c /\ r \in Packets
    BY <1>0, <2>3 DEF Packets
  <2>5. PseudoHeader(r) = PseudoHeader(p) - WordSum(G) + WordSum(L)
    <3> HIDE DEF r, L, G
    <3>1. WordSum(G) \in Int /\ WordSum(L) \in Int /\ WordSum(p.src) \in Int /\ p.len \in Int
      BY <1>0, WordSumIsInt DEF Packets
    <3>2. PseudoHeader(r) = WordSum(p.src) + WordSum(L) + p.len
      BY <2>4 DEF PseudoHeader
    <3>3. PseudoHeader(p) = WordSum(p.src) + WordSum(G) + p.len
      BY <2>1 DEF PseudoHeader
    <3> QED BY <3>1, <3>2, <3>3
  <2>6. ChecksumValid(r)
    BY <1>0, <2>4, <2>5, TranslationKeepsSum
  <2> QED BY <2>1, <2>2, <2>4, <2>6
<1>2. CASE ~(Eligible(p) /\ compare_ipv6_addr(p.dst, G))
  BY <1>0, <1>2, CompareIsEqual DEF gua_to_linklocal, Translated
<1> QED BY <1>1, <1>2

\* A packet is not the verdict TC_ACT_SHOT.
LEMMA PacketIsNotShot == ASSUME NEW p \in Packets PROVE p # Shot
<1>1. "src" \in DOMAIN p
  BY DEF Packets
<1>2. DOMAIN Shot = {"shot"}
  BY DEF Shot
<1> QED BY <1>1, <1>2

\* A side with no filter lets the packet pass, one with a filter classifies it.
LEMMA ThroughFilters ==
    ASSUME FilterInv, NEW d \in Dirs, NEW p \in Packets
    PROVE  /\ filters[d] = 0 => Through(d, p) = {p}
           /\ filters[d] = 1 => Through(d, p) = Classify(d, p)
           /\ filters[d] \in {0, 1}
<1>1. filters[d] \in {0, 1}
  BY DEF FilterInv
<1>2. OneFilter(d, {p}) = Classify(d, p)
  BY PacketIsNotShot DEF OneFilter
<1>3. filters[d] = 0 => Through(d, p) = {p}
  BY DEF Through
<1>4. filters[d] = 1 => Through(d, p) = OneFilter(d, {p})
  BY DEF Through
<1> QED BY <1>1, <1>2, <1>3, <1>4

-----------------------------------------------------------------------------
(* The steps *)

\* The installer.
LEMMA InstallerKeepsFilters ==
    ASSUME FilterInv, Start \/ DeleteTable \/ Kill \/ \E d \in Dirs : DeleteFilter(d) \/ AddFilter(d)
    PROVE  FilterInv' /\ UNCHANGED pktVars
<1>0. filters \in [Dirs -> {0, 1}] /\ \A d \in Dirs : main = Adding(d) => filters[d] = 0
  BY DEF FilterInv
<1>1. \A d, e \in Dirs : /\ Adding(d) # "nft" /\ Adding(d) # "exited" /\ Adding(d) # e
                         /\ Added(d) # Adding(e) /\ (Adding(d) = Adding(e) => d = e)
  BY DEF Adding, Added, Dirs
<1>2. CASE Start \/ DeleteTable \/ Kill
  <2>1. UNCHANGED <<filters, pktVars>> /\ main' \in {"nft", "egress", "exited"}
    BY <1>2 DEF Start, DeleteTable, Kill, Goto
  <2>2. \A d \in Dirs : main' # Adding(d)
    BY <2>1 DEF Adding, Dirs
  <2> QED BY <1>0, <2>1, <2>2 DEF FilterInv
<1>3. ASSUME NEW d \in Dirs, DeleteFilter(d) PROVE FilterInv' /\ UNCHANGED pktVars
  <2>1. \/ main' = Adding(d) /\ filters' = [filters EXCEPT ![d] = IF filters[d] > 0 THEN filters[d] - 1 ELSE 0]
        \/ main' \in {Added(d), "exited"} /\ UNCHANGED filters
    BY <1>3 DEF DeleteFilter, Goto
  <2>2. UNCHANGED pktVars
    BY <1>3 DEF DeleteFilter, Goto
  <2>3. CASE main' = Adding(d) /\ filters' = [filters EXCEPT ![d] = IF filters[d] > 0 THEN filters[d] - 1 ELSE 0]
    <3>1. (IF filters[d] > 0 THEN filters[d] - 1 ELSE 0) = 0
      BY <1>0
    <3>2. filters' = [filters EXCEPT ![d] = 0]
      BY <2>3, <3>1
    <3>3. filters' \in [Dirs -> {0, 1}] /\ filters'[d] = 0
      BY <1>0, <3>2
    <3> QED BY <1>1, <2>2, <2>3, <3>3 DEF FilterInv
  <2>4. CASE main' \in {Added(d), "exited"} /\ UNCHANGED filters
    BY <1>0, <1>1, <2>2, <2>4 DEF FilterInv
  <2> QED BY <2>1, <2>3, <2>4
<1>4. ASSUME NEW d \in Dirs, AddFilter(d) PROVE FilterInv' /\ UNCHANGED pktVars
  <2>1. main = Adding(d) /\ main' = Added(d) /\ UNCHANGED pktVars
    BY <1>4 DEF AddFilter, Goto
  <2>2. filters[d] = 0
    BY <1>0, <2>1
  <2>3. UNCHANGED filters \/ filters' = [filters EXCEPT ![d] = 1]
    BY <1>4, <2>2 DEF AddFilter
  <2>4. filters' \in [Dirs -> {0, 1}]
    BY <1>0, <2>3
  <2> QED BY <1>1, <2>1, <2>4 DEF FilterInv
<1> QED BY <1>2, <1>3, <1>4

\* A packet that arrives.
LEMMA ArriveKeepsInv == ASSUME HInv, Arrive PROVE HInv' /\ RouteInv'
<1>1. PICK src \in Peers \cup {LINKLOCAL_ADDR}, nexthdr \in {"TCP", "UDP"}, w \in Payloads, short \in BOOLEAN :
        pkt' = [Packet(src, nexthdr, w, short) EXCEPT !.check = Checksum(Packet(src, nexthdr, w, short))]
  BY DEF Arrive
<1> DEFINE p == Packet(src, nexthdr, w, short)
<1>2. src \in Address /\ Node \in Address /\ w \in Nat
  BY HPConstants, AddressFacts
<1>3. p \in Packets /\ p.src = src
  BY <1>2 DEF Packet, Packets
<1> HIDE DEF p
<1>4. pkt' = [p EXCEPT !.check = Checksum(p)]
  BY <1>1 DEF p
<1>5. Checksum(p) \in Int /\ ChecksumValid(pkt')
  BY <1>3, <1>4, SentIsValid
<1>6. pkt' \in Packets /\ pkt'.src = src
  BY <1>3, <1>4, <1>5 DEF Packets
<1>7. req' = pkt' /\ at' = "wire" /\ covered' = TRUE /\ UNCHANGED instVars
  BY DEF Arrive
<1>8. PacketInv'
  BY <1>5, <1>6, <1>7 DEF PacketInv, ChecksumValid, PseudoHeader
<1>9. FilterInv'
  BY <1>7 DEF HInv, FilterInv, instVars
<1>10. RouteInv'
  BY <1>1, <1>6, <1>7 DEF RouteInv
<1> QED BY <1>8, <1>9, <1>10 DEF HInv

\* Ingress: the packet that goes on has a valid checksum, and its source is the
\* one that arrived or stands for the probe's.
LEMMA IngressKeepsInv ==
    ASSUME HInv, Ingress
    PROVE  HInv' /\ (RouteInv => RouteInv')
<1>0. pkt \in Packets /\ ChecksumValid(pkt) /\ FilterInv /\ at = "wire" /\ covered \in BOOLEAN
  BY DEF HInv, PacketInv, Ingress
<1>1. PICK q \in Through("ingress", pkt) :
        IF q = Shot THEN at' = "gone" /\ UNCHANGED pkt ELSE at' = "stack" /\ pkt' = q
  BY DEF Ingress, Pass
<1>2. covered' \in BOOLEAN /\ UNCHANGED <<req, filters, main>>
  BY DEF Ingress, Pass, instVars
<1>3. FilterInv'
  BY <1>0, <1>2 DEF FilterInv
<1>4. \/ q = Shot
      \/ /\ q \in Packets /\ ChecksumValid(q) /\ q.dst = pkt.dst
         /\ \/ q = pkt
            \/ pkt.src = LINKLOCAL_ADDR /\ q.src = GLOBAL_UNICAST_ADDR /\ Eligible(q)
  <2>1. "ingress" \in Dirs
    BY DEF Dirs
  <2>2. q = pkt \/ q \in linklocal_to_gua(pkt)
    BY <1>0, <1>1, <2>1, ThroughFilters DEF Classify
  <2> QED BY <1>0, <2>2, IngressClassified
<1>5. CASE q = Shot
  <2>1. at' = "gone" /\ pkt' = pkt
    BY <1>1, <1>5
  <2> QED BY <1>0, <1>2, <1>3, <2>1 DEF HInv, PacketInv, RouteInv
<1>6. CASE q # Shot
  <2>1. at' = "stack" /\ pkt' = q
    BY <1>1, <1>6
  <2>2. PacketInv'
    BY <1>2, <1>4, <1>6, <2>1 DEF PacketInv, ChecksumValid, PseudoHeader
  <2>3. RouteInv => RouteInv'
    BY <1>0, <1>2, <1>4, <1>6, <2>1 DEF RouteInv, Eligible
  <2> QED BY <1>3, <2>2, <2>3 DEF HInv
<1> QED BY <1>5, <1>6

\* The stack answers the source it sees.
LEMMA AnswerKeepsInv ==
    ASSUME HInv, Answer
    PROVE  HInv' /\ (RouteInv => RouteInv')
<1>0. pkt \in Packets /\ FilterInv /\ at = "stack" /\ covered \in BOOLEAN
  BY DEF HInv, PacketInv, Answer
<1>1. UNCHANGED <<req, covered, filters, main>>
  BY DEF Answer, instVars
<1>2. FilterInv'
  BY <1>0, <1>1 DEF FilterInv
<1>3. CASE pkt.short \/ ~ChecksumValid(pkt)
  <2>1. at' = "gone" /\ pkt' = pkt
    BY <1>3 DEF Answer
  <2> QED BY <1>0, <1>1, <1>2, <2>1 DEF HInv, PacketInv, RouteInv
<1>4. CASE ~(pkt.short \/ ~ChecksumValid(pkt))
  <2>1. PICK partial \in BOOLEAN, w \in Payloads :
          LET p == [pkt EXCEPT !.src = pkt.dst, !.dst = pkt.src, !.partial = partial, !.payload = w]
          IN  pkt' = [p EXCEPT !.check = Checksum(p)]
    BY <1>4 DEF Answer
  <2> DEFINE p == [pkt EXCEPT !.src = pkt.dst, !.dst = pkt.src, !.partial = partial, !.payload = w]
  <2>2. w \in Nat
    BY HPConstants
  <2>3. /\ p \in Packets /\ p.src = pkt.dst /\ p.dst = pkt.src
        /\ p.nexthdr = pkt.nexthdr /\ p.short = pkt.short
    BY <1>0, <2>2 DEF Packets
  <2>4. pkt' = [p EXCEPT !.check = Checksum(p)]
    BY <2>1
  <2> HIDE DEF p
  <2>5. Checksum(p) \in Int /\ ChecksumValid(pkt')
    BY <2>3, <2>4, SentIsValid
  <2>6. /\ pkt' \in Packets /\ pkt'.src = pkt.dst /\ pkt'.dst = pkt.src
        /\ pkt'.nexthdr = pkt.nexthdr /\ pkt'.short = pkt.short
    BY <2>3, <2>4, <2>5 DEF Packets
  <2>7. at' = "out"
    BY <1>4 DEF Answer
  <2>8. PacketInv'
    BY <1>0, <1>1, <2>5, <2>6, <2>7 DEF PacketInv, ChecksumValid, PseudoHeader
  <2>9. RouteInv => RouteInv'
    BY <1>0, <1>1, <2>6, <2>7 DEF RouteInv, Eligible
  <2> QED BY <1>2, <2>8, <2>9 DEF HInv
<1> QED BY <1>3, <1>4

\* Egress: the answer to the probe gets the probe's address back, unless no
\* filter is in place.
LEMMA EgressKeepsInv ==
    ASSUME HInv, Egress
    PROVE  HInv' /\ (ProbeAddressIsFree /\ RouteInv => RouteInv')
<1>0. pkt \in Packets /\ ChecksumValid(pkt) /\ FilterInv /\ at = "out" /\ covered \in BOOLEAN
  BY DEF HInv, PacketInv, Egress
<1>1. PICK q \in Through("egress", pkt) :
        IF q = Shot THEN at' = "gone" /\ UNCHANGED pkt ELSE at' = "sent" /\ pkt' = q
  BY DEF Egress, Pass
<1>2. covered' \in BOOLEAN /\ UNCHANGED <<req, filters, main>>
  BY DEF Egress, Pass, instVars
<1>c. covered' => (pkt.dst = GLOBAL_UNICAST_ADDR => filters["egress"] > 0)
  BY DEF Egress, Pass
<1>3. FilterInv'
  BY <1>0, <1>2 DEF FilterInv
<1>4. /\ filters["egress"] = 0 => q = pkt
      /\ filters["egress"] = 1 => q \in gua_to_linklocal(pkt)
      /\ filters["egress"] \in {0, 1}
  <2>1. "egress" \in Dirs
    BY DEF Dirs
  <2> QED BY <1>0, <1>1, <2>1, ThroughFilters DEF Classify
<1>5. \/ q = Shot
      \/ /\ q \in Packets /\ ChecksumValid(q) /\ q.src = pkt.src
         /\ \/ q = pkt /\ (filters["egress"] = 1 => ~(pkt.dst = GLOBAL_UNICAST_ADDR /\ Eligible(pkt)))
            \/ pkt.dst = GLOBAL_UNICAST_ADDR /\ q.dst = LINKLOCAL_ADDR
  <2>1. CASE filters["egress"] = 0
    BY <1>0, <1>4, <2>1
  <2>2. CASE filters["egress"] = 1
    BY <1>0, <1>4, <2>2, EgressClassified
  <2> QED BY <1>4, <2>1, <2>2
<1>6. CASE q = Shot
  <2>1. at' = "gone" /\ pkt' = pkt
    BY <1>1, <1>6
  <2> QED BY <1>0, <1>2, <1>3, <2>1 DEF HInv, PacketInv, RouteInv
<1>7. CASE q # Shot
  <2>1. at' = "sent" /\ pkt' = q
    BY <1>1, <1>7
  <2>2. PacketInv'
    BY <1>2, <1>5, <1>7, <2>1 DEF PacketInv, ChecksumValid, PseudoHeader
  <2>3. ASSUME ProbeAddressIsFree, RouteInv PROVE RouteInv'
    <3>1. /\ req.src \in Peers \cup {LINKLOCAL_ADDR} /\ pkt.src = req.dst
          /\ \/ pkt.dst = req.src
             \/ req.src = LINKLOCAL_ADDR /\ pkt.dst = GLOBAL_UNICAST_ADDR /\ Eligible(pkt)
      BY <1>0, <2>3 DEF RouteInv
    <3>2. req.src # GLOBAL_UNICAST_ADDR
      BY <2>3, <3>1, AddressFacts DEF ProbeAddressIsFree
    <3>3. ASSUME covered' PROVE q.src = req.dst /\ q.dst = req.src
      <4>1. CASE pkt.dst = req.src
        BY <1>5, <1>7, <3>1, <3>2, <4>1
      <4>2. CASE req.src = LINKLOCAL_ADDR /\ pkt.dst = GLOBAL_UNICAST_ADDR /\ Eligible(pkt)
        <5>1. filters["egress"] = 1
          BY <1>c, <1>4, <3>3, <4>2
        <5> QED BY <1>5, <1>7, <3>1, <4>2, <5>1
      <4> QED BY <3>1, <4>1, <4>2
    <3> QED BY <1>2, <2>1, <3>1, <3>3 DEF RouteInv
  <2> QED BY <1>3, <2>2, <2>3 DEF HInv
<1> QED BY <1>6, <1>7

\* No filter, no packet.
LEMMA InitIsRight == HInit => HInv /\ RouteInv
<1> SUFFICES ASSUME HInit PROVE HInv /\ RouteInv
  OBVIOUS
<1>1. FilterInv
  BY DEF HInit, FilterInv, Adding, Dirs
<1>2. pkt \in Packets
  BY HPConstants DEF HInit, Packet, Packets
<1>3. PacketInv /\ RouteInv
  BY <1>2 DEF HInit, PacketInv, RouteInv
<1> QED BY <1>1, <1>3 DEF HInv

\* The installer and the packets together.
LEMMA NextKeepsInv ==
    ASSUME HInv, [HNext]_hvars
    PROVE  HInv' /\ (ProbeAddressIsFree /\ RouteInv => RouteInv')
<1>1. ASSUME UNCHANGED pktVars, FilterInv' PROVE HInv' /\ (RouteInv => RouteInv')
  <2>1. UNCHANGED <<req, pkt, at, covered>>
    BY <1>1 DEF pktVars
  <2>2. PacketInv'
    BY <2>1 DEF HInv, PacketInv, ChecksumValid, PseudoHeader
  <2>3. RouteInv => RouteInv'
    BY <2>1 DEF RouteInv, Eligible
  <2> QED BY <1>1, <2>2, <2>3 DEF HInv
<1>2. CASE Start \/ DeleteTable \/ Kill \/ \E d \in Dirs : DeleteFilter(d) \/ AddFilter(d)
  BY <1>1, <1>2, InstallerKeepsFilters DEF HInv
<1>3. CASE UNCHANGED hvars
  <2>1. UNCHANGED <<pktVars, filters, main>>
    BY <1>3 DEF hvars, instVars
  <2>2. FilterInv'
    BY <2>1 DEF HInv, FilterInv
  <2> QED BY <1>1, <2>1, <2>2
<1>4. CASE Arrive \/ Ingress \/ Answer \/ Egress
  BY <1>4, ArriveKeepsInv, IngressKeepsInv, AnswerKeepsInv, EgressKeepsInv
<1> QED BY <1>2, <1>3, <1>4 DEF HNext

-----------------------------------------------------------------------------
(* The theorems *)

\* Packets stay well formed with valid checksums and filters single in every
\* behaviour of the classifiers and their installer.
THEOREM HealthProbeInvariant == HSpec => []HInv
  BY InitIsRight, NextKeepsInv, PTL DEF HSpec

\* Both classifiers keep the TCP checksum of every packet valid, for all
\* addresses and payloads: the incremental correction by bpf_csum_diff and
\* bpf_l4_csum_replace is right where sums wrap around 65535 too.
THEOREM ChecksumsKept == HSpec => []ChecksumKept
<1>1. HInv => ChecksumKept
  BY DEF HInv, PacketInv, ChecksumKept
<1> QED BY <1>1, HealthProbeInvariant, PTL

\* However often the installer runs, fails or is killed, each side of eth0 has
\* at most one ipv6_hp filter (SetupEgressFilter, SetupIngressFilter).
THEOREM AtMostOneFilter == HSpec => []NoDuplicates
<1>1. ASSUME HInv PROVE NoDuplicates
  <2>1. \A d \in Dirs : filters[d] \in {0, 1}
    BY <1>1 DEF HInv, FilterInv
  <2>2. \A n \in {0, 1} : n <= 1
    OBVIOUS
  <2> QED BY <2>1, <2>2 DEF NoDuplicates
<1> QED BY <1>1, HealthProbeInvariant, PTL

\* If no other peer has the probe's global address, an answer goes back from the
\* address asked to the address that asked, unless a filter was missing when
\* the packet passed (linklocal_to_gua, gua_to_linklocal).
THEOREM AnswersReturn == ASSUME ProbeAddressIsFree PROVE HSpec => []RoundTrip
<1>1. HInv /\ RouteInv => RoundTrip
  BY DEF RouteInv, RoundTrip
<1>2. HInv /\ RouteInv /\ [HNext]_hvars => RouteInv'
  BY NextKeepsInv
<1> QED BY <1>1, <1>2, InitIsRight, HealthProbeInvariant, PTL DEF HSpec

=============================================================================
