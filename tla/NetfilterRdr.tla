---------------------------- MODULE NetfilterRdr ----------------------------
(***************************************************************************)
(* The netfilter back end (netfilter/iptcrdr.c): what its operations do to *)
(* the three chains of the kernel and to the list of descriptions, which   *)
(* netfilter cannot hold and which therefore lives in the daemon's memory. *)
(*                                                                         *)
(* A state `s' is a record with the chains s.nat, s.filter and s.post and  *)
(* the list s.desc, next to what other modules keep in it.  Every commit   *)
(* to the kernel may fail; `fails' names the steps of a call that do.  An  *)
(* operation gives a state and the C function's return value.              *)
(*                                                                         *)
(* One protocol is enough: every search compares the protocol first.       *)
(***************************************************************************)
EXTENDS Integers, Sequences, SequencesExt, Calls

\* The rule a search finds is the first one that fits; 0 when there is none
NatIndex(s, eport) == SelectInSeq(s.nat, LAMBDA e : e.eport = eport)

PostIndex(s, eport) == SelectInSeq(s.post, LAMBDA e : e.eport = eport)

FilterIndex(s, iaddr, iport) ==
    SelectInSeq(s.filter, LAMBDA e : e.iaddr = iaddr /\ e.iport = iport)

DescIndex(s, eport) == SelectInSeq(s.desc, LAMBDA e : e.eport = eport)

-----------------------------------------------------------------------------
AddRedirectDesc(s, eport, timestamp) ==
    [s EXCEPT !.desc = <<[eport |-> eport, timestamp |-> timestamp]>> \o @]

DelRedirectDesc(s, eport) ==
    IF DescIndex(s, eport) = 0 THEN s
    ELSE [s EXCEPT !.desc = RemoveAt(@, DescIndex(s, eport))]

\* get_redirect_desc(): a rule without a description never expires
Timestamp(s, eport) ==
    IF DescIndex(s, eport) = 0 THEN 0 ELSE s.desc[DescIndex(s, eport)].timestamp

UpdateDescTimestamp(s, eport, timestamp) ==
    AddRedirectDesc(DelRedirectDesc(s, eport), eport, timestamp)

-----------------------------------------------------------------------------
\* add_redirect_rule2(): the DNAT rule, the description, the MASQUERADE rule
AddRedirectRule2(s, m, timestamp, fails) ==
    LET natted == AddRedirectDesc([s EXCEPT !.nat = Append(@, m)],
                                  m.eport, timestamp)
        snat   == [eport |-> m.eport, iaddr |-> m.iaddr, iport |-> m.iport]
    IN  IF "nat" \in fails THEN Out(s, -1)
        ELSE IF "post" \in fails THEN Out(natted, -1)
        ELSE Out([natted EXCEPT !.post = Append(@, snat)], 0)

\* add_filter_rule2()
AddFilterRule2(s, m, fails) ==
    IF "filter" \in fails THEN Out(s, -1)
    ELSE Out([s EXCEPT !.filter = Append(@, [iaddr |-> m.iaddr,
                                             iport |-> m.iport,
                                             rhost |-> m.rhost])], 0)

\* Mutant of UpdateFilter: the old port stays open
UpdateFilterForgotten(s, i, iport) == s

\* The two commits of update_portmapping() after the DNAT rule's
UpdateFilter(s, i, iport) == [s EXCEPT !.filter[i].iport = iport]

UpdateSnat(s, eport, iaddr, oldport, iport, fails) ==
    LET i == SelectInSeq(s.post, LAMBDA e : /\ e.eport = eport
                                            /\ e.iaddr = iaddr
                                            /\ e.iport = oldport)
    IN  IF i = 0 \/ "post" \in fails THEN s
        ELSE [s EXCEPT !.post[i].iport = iport]

\* update_portmapping()
UpdatePortmapping(s, eport, iport, timestamp, fails) ==
    LET i   == NatIndex(s, eport)
        old == s.nat[i]
        natted == [s EXCEPT !.nat[i].iport = iport]
        j   == FilterIndex(s, old.iaddr, old.iport)
        snatted == UpdateSnat(UpdateFilter(natted, j, iport), eport, old.iaddr,
                              old.iport, iport, fails)
    IN  IF i = 0 \/ "nat" \in fails THEN Out(s, -1)
        ELSE IF j = 0 \/ "filter" \in fails THEN Out(natted, -1)
        ELSE Out(UpdateDescTimestamp(snatted, eport, timestamp), 0)

DeleteFilter(s, iaddr, iport) ==
    IF FilterIndex(s, iaddr, iport) = 0 THEN s
    ELSE [s EXCEPT !.filter = RemoveAt(@, FilterIndex(s, iaddr, iport))]

\* The DNAT rule and the filter rule, for delete_redirect_and_filter_rules().
\* When the second iptc_init("nat") fails ("init"), r keeps the 0 of the
\* search and the code goes on to the filter rule.
DeleteNatAndFilter(s, eport, fails) ==
    LET i == NatIndex(s, eport)
        e == s.nat[i]
        unnatted == IF "init" \in fails THEN s ELSE [s EXCEPT !.nat = RemoveAt(@, i)]
    IN  IF i = 0 THEN Out(s, -1)
        ELSE IF "init" \notin fails /\ "nat" \in fails THEN Out(s, -1)
        ELSE IF "filter" \in fails
             THEN Out(unnatted, IF FilterIndex(s, e.iaddr, e.iport) = 0 THEN 0 ELSE -1)
        ELSE Out(DeleteFilter(unnatted, e.iaddr, e.iport), 0)

\* The MASQUERADE rule
DeletePost(s, eport, fails) ==
    IF PostIndex(s, eport) = 0 \/ "post" \in fails THEN Out(s, -1)
    ELSE Out([s EXCEPT !.post = RemoveAt(@, PostIndex(s, eport))], 0)

\* delete_redirect_and_filter_rules(); the two results are multiplied
DeleteRedirectAndFilterRules(s, eport, fails) ==
    LET deleted(first, second) ==
            Out(DelRedirectDesc(second.s, eport), first.r * second.r)
        rest(first) == On(DeletePost(first.s, eport, fails),
                          LAMBDA second : deleted(first, second))
    IN  IF "get" \in fails THEN Out(s, -1)
        ELSE On(DeleteNatAndFilter(s, eport, fails), rest)

=============================================================================
