------------------------- MODULE MCIptablesMonitor -------------------------
(***************************************************************************)
(* An instance of IptablesMonitor, and with it of BlockIptables, for TLC.  *)
(***************************************************************************)
EXTENDS IptablesMonitor, TLC

\* cilium-agent, the script nfsv4mountscript, and a shell.
ThreeComms == {<<"cilium-agent">>, <<"nfs", "v4mountscript">>, <<"bash">>}

\* The buffer with messages of the given lengths, rules at some places, and a
\* number of bytes behind the last message.
Buffer(lens, rules, tail) ==
    LET at(i) == FoldLeft(LAMBDA s, n : s + NLMSG_ALIGN(n), 0, SubSeq(lens, 1, i - 1))
        n == Len(lens)
    IN  [msgs |-> [i \in 1 .. n |-> [new_rule |-> i \in rules, at |-> at(i), len |-> lens[i]]],
         skb_len |-> (IF n = 0 THEN 0 ELSE at(n) + lens[n]) + tail]

\* Up to five messages with rules at none, at one or at all of the places: all
\* of the shortest length, all longer, one of a length that is not aligned; and
\* up to a header and the padding behind the last.
Whole ==
    {Buffer(lens, rules, tail) :
        lens \in {[i \in 1 .. n |-> IF i = odd THEN 17 ELSE len] : n \in 0 .. 5, odd \in 0 .. 5, len \in {16, 20}},
        rules \in {{}, 1 .. 5} \cup {{i} : i \in 1 .. 5},
        tail \in {0, 15, 18}}

\* A last header that states no length, less than its own, or more than is left.
Broken ==
    {[msgs |-> <<[new_rule |-> rule, at |-> 0, len |-> len]>>, skb_len |-> 32] :
        rule \in BOOLEAN, len \in {0, 8, 36, U32 - 1}}

AllBatches == Whole \cup Broken

=============================================================================
