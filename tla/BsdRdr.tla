------------------------------- MODULE BsdRdr -------------------------------
(***************************************************************************)
(* The back ends for pf (pf/obsdrdr.c), ipfilter (ipf/ipfrdr.c) and ipfw   *)
(* (ipfw/ipfwrdr.c): what their operations do to the redirections and the  *)
(* filter rules of the kernel and to the list with the ends of the leases  *)
(* that each of them keeps in the daemon's memory.                         *)
(*                                                                         *)
(* A state `s' has the sequences s.rdr, s.filter, s.nat (the rules of pf   *)
(* for port triggering) and s.stamps. `fails' names the steps that the     *)
(* kernel refuses in a call: "get" a list of rules, add ("rdr") or remove  *)
(* ("unrdr") a redirection, add ("filter") or remove ("unfilter") a filter *)
(* rule. A key is an external port with a protocol.                        *)
(***************************************************************************)
EXTENDS Integers, Sequences, Calls

Key(m) == [eport |-> m.eport, proto |-> m.proto]

FirstOf(q, k) == SelectInSeq(q, LAMBDA e : Key(e) = k)

LastOf(q, k) == SelectLastInSeq(q, LAMBDA e : Key(e) = k)

Without(q, i) == IF i = 0 THEN q ELSE RemoveAt(q, i)

Stamp(k, time) == [eport |-> k.eport, proto |-> k.proto, time |-> time]

\* The time a list holds for a mapping; 0 means that it never ends
TimeIn(stamps, k) ==
    IF FirstOf(stamps, k) = 0 THEN 0 ELSE stamps[FirstOf(stamps, k)].time

AddStamp(s, k, time) == [s EXCEPT !.stamps = <<Stamp(k, time)>> \o @]

DelStamp(s, k) == [s EXCEPT !.stamps = Without(@, FirstOf(@, k))]

-----------------------------------------------------------------------------
\* pf. With ENABLE_PORT_TRIGGERING a UDP mapping has a nat rule as well,
\* whose failure nobody looks at ("nat").
PfAddNat(s, m, fails) ==
    IF m.proto # "UDP" \/ "nat" \in fails THEN s
    ELSE [s EXCEPT !.nat = Append(@, [eport |-> m.eport, iaddr |-> m.iaddr,
                                      iport |-> m.iport])]

PfDeleteNat(s, m, fails) ==
    IF m.proto # "UDP" \/ fails \cap {"get", "unnat"} # {} THEN s
    ELSE [s EXCEPT !.nat =
            Without(@, SelectInSeq(@, LAMBDA e : /\ e.iport = m.iport
                                                 /\ e.iaddr = m.iaddr))]

PfAddRedirect(s, m, time, fails) ==
    LET added == [s EXCEPT !.rdr = Append(@, m)]
        timed == IF time > 0 THEN AddStamp(added, Key(m), time) ELSE added
    IN  IF "rdr" \in fails THEN Out(s, -1)
        ELSE Out(PfAddNat(timed, m, fails), 0)

\* The filter lets the packets through that were redirected already
PfAddFilter(s, m, fails) ==
    IF "filter" \in fails THEN Out(s, -1)
    ELSE Out([s EXCEPT !.filter =
                Append(@, [iaddr |-> m.iaddr, port |-> m.iport, proto |-> m.proto,
                           rhost |-> m.rhost])], 0)

\* Mutant of PfDeleteRedirect: the entry with the time stays
PfDeleteRedirectKeepsTime(s, k, fails) ==
    IF FirstOf(s.rdr, k) = 0 \/ fails \cap {"get", "unrdr"} # {} THEN Out(s, -1)
    ELSE Out([s EXCEPT !.rdr = Without(@, FirstOf(@, k))], 0)

PfDeleteRedirect(s, k, fails) ==
    IF FirstOf(s.rdr, k) = 0 \/ fails \cap {"get", "unrdr"} # {} THEN Out(s, -1)
    ELSE Out(DelStamp([s EXCEPT !.rdr = Without(@, FirstOf(@, k))], k), 0)

PfDeleteFilter(s, m, fails) ==
    LET i == SelectInSeq(s.filter, LAMBDA e : /\ e.port = m.iport
                                              /\ e.proto = m.proto
                                              /\ e.iaddr = m.iaddr)
    IN  IF i = 0 \/ fails \cap {"get", "unfilter"} # {} THEN Out(s, -1)
        ELSE Out([s EXCEPT !.filter = RemoveAt(@, i)], 0)

\* delete_redirect_and_filter_rules()
PfDelete(s, k, fails) ==
    LET old == s.rdr[FirstOf(s.rdr, k)]
        rest(del) == IF del.r # 0 THEN del
                     ELSE PfDeleteFilter(PfDeleteNat(del.s, old, fails), old, fails)
    IN  On(PfDeleteRedirect(s, k, fails), rest)

\* What both update functions do once the old rule is gone
PfReplace(s, old, m, time, fails) ==
    LET filtered(add) == IF add.r < 0 THEN add ELSE PfAddFilter(add.s, m, fails)
        opened(del)   == IF del.r < 0 THEN del
                         ELSE On(PfAddRedirect(del.s, m, time, fails), filtered)
    IN  On(PfDeleteFilter(s, old, fails), opened)

\* update_portmapping(); the nat rule of the old port stays
PfUpdate(s, k, iport, time, fails) ==
    LET old == s.rdr[FirstOf(s.rdr, k)]
    IN  On(PfDeleteRedirect(s, k, fails), LAMBDA del :
           IF del.r < 0 THEN del
           ELSE PfReplace(del.s, old, [old EXCEPT !.iport = iport], time, fails))

\* update_portmapping_desc_timestamp(); `same' says that the description is
\* the one the rule has
PfUpdateTime(s, k, time, same, fails) ==
    LET i == FirstOf(s.rdr, k)
    IN  IF i = 0 \/ "get" \in fails THEN Out(s, -1)
        ELSE IF same THEN Out(AddStamp(DelStamp(s, k), k, time), 0)
        ELSE PfUpdate(s, k, s.rdr[i].iport, time, fails)

\* get_redirect_rule(): the place of the rule, or 0
PfGet(s, k, fails) == IF "get" \in fails THEN 0 ELSE FirstOf(s.rdr, k)

\* get_redirect_rule_by_index(); the kernel tells how many rules there are
PfByIndex(s, index) ==
    IF index >= Len(s.rdr) THEN Out(s, -1) ELSE Out(s.rdr[index + 1], 0)

\* get_portmappings_in_range()
PfInRange(s, from, to, proto) ==
    Those(s.rdr, LAMBDA e : e.proto = proto /\ e.eport \in from .. to)

-----------------------------------------------------------------------------
\* ipfilter
IpfAddRedirect(s, m, time, fails) ==
    IF "rdr" \in fails THEN Out(s, -1)
    ELSE Out(AddStamp([s EXCEPT !.rdr = Append(@, m)], Key(m), time), 0)

\* Here the filter looks at the external port
IpfAddFilter(s, m, fails) ==
    IF "filter" \in fails THEN Out(s, -1)
    ELSE Out([s EXCEPT !.filter =
                Append(@, [iaddr |-> m.iaddr, port |-> m.eport, proto |-> m.proto,
                           rhost |-> m.rhost])], 0)

\* del_redirect_desc() never moves `last' on: an entry that is not the first
\* takes all those before it with it
IpfDelDesc(s, k) ==
    LET i == FirstOf(s.stamps, k)
    IN  IF i = 0 THEN s ELSE [s EXCEPT !.stamps = SubSeq(@, i + 1, Len(@))]

\* real_delete_redirect_rule(): the description goes whatever the kernel says
IpfRealDelete(s, k, fails) ==
    IF FirstOf(s.rdr, k) = 0 \/ "get" \in fails THEN Out(s, -1)
    ELSE IF "unrdr" \in fails THEN Out(IpfDelDesc(s, k), -1)
    ELSE Out(IpfDelDesc([s EXCEPT !.rdr = Without(@, FirstOf(@, k))], k), 0)

\* delete_redirect_rule() tries twice
IpfDeleteRedirect(s, k, fails) ==
    On(IpfRealDelete(s, k, fails), LAMBDA first :
       IF first.r = -1 THEN IpfRealDelete(first.s, k, fails \ {"get"}) ELSE first)

IpfDeleteFilter(s, k, fails) ==
    LET i == SelectInSeq(s.filter, LAMBDA e : e.port = k.eport /\ e.proto = k.proto)
    IN  IF i = 0 \/ fails \cap {"get", "unfilter"} # {} THEN Out(s, -1)
        ELSE Out([s EXCEPT !.filter = RemoveAt(@, i)], 0)

IpfUpdateTime(s, k, time) == Out(AddStamp(IpfDelDesc(s, k), k, time), 0)

\* get_redirect_rule() goes through all rules and keeps the last
IpfGet(s, k, fails) == IF "get" \in fails THEN 0 ELSE LastOf(s.rdr, k)

\* get_redirect_rule_by_index(): the iterator ends with the last rule
IpfByIndex(s, index) ==
    IF index >= Len(s.rdr) THEN Out(s, -1) ELSE Out(s.rdr[index + 1], 0)

IpfInRange(s, from, to, proto) ==
    Those(s.rdr, LAMBDA e : e.proto = proto /\ e.eport \in from .. to)

-----------------------------------------------------------------------------
\* ipfw. The kernel's list ends in the default rule, which no loop over the
\* rules looks at; the list is fetched in pieces of `chunk', as long as a
\* whole piece comes.
Default == [eport |-> 0, proto |-> "any"]

IpfwRules(s) == Append(s.rdr, Default)

FetchRuleset(s, chunk) ==
    LET rules   == IpfwRules(s)
        upto(n) == IF n * chunk > Len(rules) THEN Len(rules) ELSE n * chunk
        turns   == CHOOSE n \in 1 .. Len(rules) \div chunk + 1 :
                       /\ upto(n) - upto(n - 1) # chunk
                       /\ \A i \in 1 .. n - 1 : upto(i) - upto(i - 1) = chunk
    IN  SubSeq(rules, 1, upto(turns))

\* The loops stop before the last of the rules they fetched
IpfwFind(s, k, chunk) == FirstOf(Front(FetchRuleset(s, chunk)), k)

IpfwGet(s, k, chunk, fails) == IF "get" \in fails THEN 0 ELSE IpfwFind(s, k, chunk)

IpfwAddRedirect(s, m, time, fails) ==
    IF "rdr" \in fails THEN Out(s, -1)
    ELSE Out(AddStamp([s EXCEPT !.rdr = Append(@, m)], Key(m), time), 0)

IpfwDeleteRedirect(s, k, chunk, fails) ==
    LET i == IpfwFind(s, k, chunk)
    IN  IF i = 0 \/ fails \cap {"get", "unrdr"} # {} THEN Out(s, -1)
        ELSE Out(DelStamp([s EXCEPT !.rdr = RemoveAt(@, i)], k), 0)

\* update_portmapping() deletes the rule and adds it again
IpfwUpdate(s, k, iport, time, chunk, fails) ==
    LET old == s.rdr[IpfwFind(s, k, chunk)]
    IN  On(IpfwDeleteRedirect(s, k, chunk, fails), LAMBDA del :
           IF del.r < 0 THEN del
           ELSE IpfwAddRedirect(del.s, [old EXCEPT !.iport = iport], time, fails))

IpfwUpdateTime(s, k, time) == Out(AddStamp(DelStamp(s, k), k, time), 0)

\* get_redirect_rule_by_index() fetches as many rules as the index asks for,
\* and the default rule has no protocol
IpfwByIndex(s, index) ==
    LET rules == IpfwRules(s)
    IN  IF index >= Len(rules) \/ rules[index + 1] = Default THEN Out(s, -1)
        ELSE Out(rules[index + 1], 0)

IpfwInRange(s, from, to, proto, chunk) ==
    Those(Front(FetchRuleset(s, chunk)),
          LAMBDA e : e.proto = proto /\ e.eport \in from .. to)

=============================================================================
