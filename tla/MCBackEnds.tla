----------------------------- MODULE MCBackEnds -----------------------------
\* The back ends on a small instance
EXTENDS BackEnds, TLC

TwoKeys == {[eport |-> 1, proto |-> "UDP"], [eport |-> 2, proto |-> "UDP"]}

Symmetry == Permutations(Iaddrs)

OnePeer == {[proto |-> "UDP", rhost |-> "peer", rport |-> 80, eaddr |-> "ext",
             eport |-> 2, iaddr |-> "host", iport |-> 1]}

AllPrograms ==
    {RuleSetDnat(m.proto, 0, m.eport, m.iaddr, m.iport) : m \in Mapping}
        \cup {RuleSetFilter(m.proto, h, m.iaddr, m.iport) : m \in Mapping, h \in Rhosts \cup Junk}
        \cup {RuleSetSnat(p.proto, p.rhost, p.rport, p.eaddr, p.eport, p.iaddr, p.iport) :
               p \in Peers}

\* Linux does not take back what it added, and nftables answers 0 when the
\* kernel refuses to remove a rule: see the README
AnyRefusal ==
    {"pf"} \X {"rdr", "filter", "unfilter"} \cup {"ipf"} \X {"unrdr", "filter"}
        \cup {"ipfw"} \X {"rdr", "unrdr"} \cup {"nft"} \X {"rdr"}
=============================================================================
