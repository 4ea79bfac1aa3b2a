------------------------------ MODULE MCIPv6HP ------------------------------
(***************************************************************************)
(* Instances of IPv6HP for TLC: a peer with a global address, one whose    *)
(* link-local address differs from the probe's in its last word, and       *)
(* payloads that bring the checksum to 0, to its largest value and to      *)
(* values in between.                                                      *)
(***************************************************************************)
EXTENDS IPv6HP, TLC

TheNode == <<64768, 0, 0, 0, 0, 0, 0, 10>>
OtherPeers == {<<64768, 0, 0, 0, 0, 0, 0, 11>>, <<65152, 0, 0, 0, 0, 4660, 22136, 39613>>}

\* The payload that makes the words of a probe, and of its answer, add up to
\* a multiple of 65535, and some around it.
ToZero(a) == Ones - ((WordSum(a) + WordSum(TheNode) + 26) % Ones)
SomePayloads ==
    {0, 1} \cup UNION {{ToZero(a), ToZero(a) - 1, ToZero(a) + 1} : a \in {LINKLOCAL_ADDR, GLOBAL_UNICAST_ADDR}}

=============================================================================
