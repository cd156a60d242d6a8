------------------------------- MODULE NftRdr -------------------------------
(***************************************************************************)
(* The nftables back end (netfilter_nft/nftnlrdr.c, nftnlrdr_misc.c).      *)
(*                                                                         *)
(* A rule goes to the kernel as a list of expressions, and what the daemon *)
(* knows of a rule is what it can read back from such a list. It keeps     *)
(* what it read of each chain until it changes the chain itself.           *)
(*                                                                         *)
(* s.chain[c] is chain c of the kernel, a sequence of rules with a handle; *)
(* s.cache[c] is the daemon's list for it and whether it is valid;         *)
(* s.stamps are the ends of the leases. `fails' as in BsdRdr.              *)
(***************************************************************************)
EXTENDS Integers, Sequences, Calls

CONSTANT Programs   \* the lists of expressions that rules can have

Chains == {"redirect", "filter", "peer"}

-----------------------------------------------------------------------------
\* Expressions. A payload is named for the base, the offset and the length
\* that make it up.
Payload(field) == [e |-> "payload", val |-> field]
Cmp(val)       == [e |-> "cmp", val |-> val]
Meta(key)      == [e |-> "meta", val |-> key]
Imm(reg, val)  == [e |-> "immediate", reg |-> reg, val |-> val]
NatExpr(type)  == [e |-> "nat", val |-> type]

Match(field, val) == <<Payload(field), Cmp(val)>>

\* expr_add_nat(): the address in register 1, the port in register 2
NatTo(type, addr, port) == <<Imm("reg1", addr), Imm("reg2", port), NatExpr(type)>>

OnInterface == <<Meta("iif"), Cmp("ext")>>

\* 0 is the address that stands for any host
FromHost(rhost) == IF rhost = 0 THEN <<>> ELSE Match("saddr", rhost)

RuleSetDnat(proto, rhost, eport, ihost, iport) ==
    OnInterface \o FromHost(rhost) \o Match("protocol", proto)
        \o Match("dport", eport) \o NatTo("dnat", ihost, iport)

RuleSetSnat(proto, rhost, rport, ehost, eport, ihost, iport) ==
    Match("daddr", ihost) \o Match("saddr", rhost) \o Match("protocol", proto)
        \o Match("dport", iport) \o Match("sport", rport)
        \o NatTo("snat", ehost, eport)

RuleSetFilterCommon(iport, rport) ==
    OnInterface \o Match("dport", iport)
        \o IF rport = 0 THEN <<>> ELSE Match("sport", rport)

RuleSetFilter(proto, rhost, iaddr, iport) ==
    RuleSetFilterCommon(iport, 0) \o Match("daddr", iaddr) \o FromHost(rhost)
        \o Match("protocol", proto) \o <<Imm("verdict", "accept")>>

RuleSetFilter6(proto, rhost6, iaddr6, iport, rport) ==
    RuleSetFilterCommon(iport, rport) \o Match("daddr6", iaddr6)
        \o (IF rhost6 = 0 THEN <<>> ELSE Match("saddr6", rhost6))
        \o Match("nexthdr", proto) \o <<Imm("verdict", "accept")>>

-----------------------------------------------------------------------------
\* Reading a rule back: what is known so far, and what the registers hold
Blank(type) ==
    [type |-> type, nat |-> "none", proto |-> "none", eport |-> 0, iport |-> 0,
     rport |-> 0, iaddr |-> 0, rhost |-> 0, eaddr |-> 0, iaddr6 |-> 0,
     rhost6 |-> 0, action |-> "none", handle |-> 0, reg1_type |-> "none",
     reg1_val |-> 0, reg2_val |-> 0]

\* parse_rule_payload() knows these; source ports only together with
\* destination ports
Known == {"daddr", "saddr", "protocol", "nexthdr", "daddr6", "saddr6", "dport"}

ParseRulePayload(r, field) ==
    IF field \in Known THEN [r EXCEPT !.reg1_type = field] ELSE r

\* The destination port of a filter rule ends up in eport, too
ParseRuleCmp(r, val) ==
    LET filter == r.type = "filter"
        known  == [r EXCEPT !.reg1_type = "none"]
    IN  CASE r.reg1_type = "iif"    -> known
          [] r.reg1_type = "saddr"  -> [known EXCEPT !.rhost = val]
          [] r.reg1_type = "saddr6" -> [known EXCEPT !.rhost6 = val]
          [] r.reg1_type = "daddr"  -> IF filter THEN [known EXCEPT !.iaddr = val]
                                                 ELSE [known EXCEPT !.rhost = val]
          [] r.reg1_type = "daddr6" -> IF filter THEN [known EXCEPT !.iaddr6 = val]
                                                 ELSE [known EXCEPT !.rhost6 = val]
          [] r.reg1_type \in {"protocol", "nexthdr"} -> [known EXCEPT !.proto = val]
          [] r.reg1_type = "dport"  -> [known EXCEPT !.eport = val]
          [] OTHER -> r

ParseRuleMeta(r, key) == [r EXCEPT !.reg1_type = key]

ParseRuleImmediate(r, reg, val) ==
    CASE reg = "reg1" -> [r EXCEPT !.reg1_type = "imm", !.reg1_val = val]
      [] reg = "reg2" -> [r EXCEPT !.reg2_val = val]
      [] OTHER        -> IF r.type = "filter" THEN [r EXCEPT !.action = val] ELSE r

\* The port of an SNAT rule is read from register 1 only, where it never is
ParseRuleNat(r, type) ==
    LET read == IF type = "dnat"
                THEN [r EXCEPT !.iaddr = r.reg1_val, !.iport = r.reg2_val]
                ELSE [r EXCEPT !.eaddr = r.reg1_val]
    IN  [read EXCEPT !.type = "nat", !.nat = type, !.reg1_type = "none"]

RuleExprCb(r, e) ==
    CASE e.e = "payload"   -> ParseRulePayload(r, e.val)
      [] e.e = "cmp"       -> ParseRuleCmp(r, e.val)
      [] e.e = "meta"      -> ParseRuleMeta(r, e.val)
      [] e.e = "immediate" -> ParseRuleImmediate(r, e.reg, e.val)
      [] e.e = "nat"       -> ParseRuleNat(r, e.val)

\* rule_expr_cb() for all expressions of a rule, the registers forgotten
ReadExprs(type, exprs) ==
    LET read[i \in 0 .. Len(exprs)] ==
            IF i = 0 THEN Blank(type)
            ELSE On(read[i - 1], LAMBDA r : RuleExprCb(r, exprs[i]))
    IN  [read[Len(exprs)] EXCEPT !.reg1_type = "none", !.reg1_val = 0, !.reg2_val = 0]

\* The rules there can be, each read once
Readings == [type \in {"filter", "nat"}, exprs \in Programs |-> ReadExprs(type, exprs)]

\* table_cb()
TableCb(type, rule) == [Readings[type, rule.exprs] EXCEPT !.handle = rule.handle]

-----------------------------------------------------------------------------
TypeOf(c) == IF c = "filter" THEN "filter" ELSE "nat"

\* The rules go to the head of the list as they come
Listed(s, c) ==
    Reverse([i \in 1 .. Len(s.chain[c]) |-> TableCb(TypeOf(c), s.chain[c][i])])

\* refresh_nft_cache_*(): a failure leaves an empty list that is not valid
Refresh(s, c, fails) ==
    IF s.cache[c].valid THEN s
    ELSE IF "get" \in fails THEN s
    ELSE [s EXCEPT !.cache[c] = [valid |-> TRUE, list |-> Listed(s, c)]]

\* Mutant of NftSendRule: the list is kept when a rule is removed
NftSendRuleKeepsList(s, c, chain, refused) ==
    LET sent == IF refused THEN s ELSE [s EXCEPT !.chain[c] = chain]
    IN  IF Len(chain) < Len(s.chain[c]) THEN sent
        ELSE [sent EXCEPT !.cache[c].valid = FALSE]

\* nft_send_rule(): what was read of the chain is no longer valid (and is
\* forgotten here, since the next refresh frees it before it reads)
NftSendRule(s, c, chain, refused) ==
    [IF refused THEN s ELSE [s EXCEPT !.chain[c] = chain] EXCEPT
        !.cache[c] = [valid |-> FALSE, list |-> <<>>]]

\* A handle that no rule of the chain has
FreeHandle(s, c) ==
    LET used == {s.chain[c][i].handle : i \in 1 .. Len(s.chain[c])}
    IN  CHOOSE h \in 1 .. Len(s.chain[c]) + 1 :
            h \notin used /\ \A g \in 1 .. h - 1 : g \in used

NewRule(s, c, exprs, refused) ==
    NftSendRule(s, c, Append(s.chain[c], [handle |-> FreeHandle(s, c),
                                          exprs  |-> exprs]), refused)

\* rule_del_handle() and NFT_MSG_DELRULE
DelRule(s, c, handle, refused) ==
    NftSendRule(s, c, SelectSeq(s.chain[c], LAMBDA e : e.handle # handle), refused)

-----------------------------------------------------------------------------
NftStamp(s, k, time) ==
    [s EXCEPT !.stamps = <<[eport |-> k.eport, proto |-> k.proto, time |-> time]>> \o @]

NftUnstamp(s, k) ==
    LET i == SelectInSeq(s.stamps, LAMBDA e : e.eport = k.eport /\ e.proto = k.proto)
    IN  IF i = 0 THEN s ELSE [s EXCEPT !.stamps = RemoveAt(@, i)]

NftTime(s, k) ==
    LET i == SelectInSeq(s.stamps, LAMBDA e : e.eport = k.eport /\ e.proto = k.proto)
    IN  IF i = 0 THEN 0 ELSE s.stamps[i].time

\* add_redirect_rule2() leaves the remote host to the filter
NftAddRedirect(s, m, time, fails) ==
    LET sent == NewRule(s, "redirect",
                        RuleSetDnat(m.proto, 0, m.eport, m.iaddr, m.iport),
                        "rdr" \in fails)
    IN  IF "rdr" \in fails THEN Out(sent, -4) ELSE Out(NftStamp(sent, m, time), 0)

NftAddFilter(s, m, rhost, fails) ==
    Out(NewRule(s, "filter", RuleSetFilter(m.proto, rhost, m.iaddr, m.iport),
                "filter" \in fails),
        IF "filter" \in fails THEN -4 ELSE 0)

NftAddPeer(s, p) ==
    Out(NewRule(s, "peer", RuleSetSnat(p.proto, p.rhost, p.rport, p.eaddr, p.eport,
                                       p.iaddr, p.iport), FALSE), 0)

RedirectIndex(s, k) ==
    SelectInSeq(s.cache["redirect"].list,
                LAMBDA e : e.eport = k.eport /\ e.proto = k.proto)

\* get_nat_redirect_rule(): the state with what was read, and the rule's
\* place in the list
NftGet(s, k, fails) ==
    On(Refresh(s, "redirect", fails), LAMBDA read : Out(read, RedirectIndex(read, k)))

\* get_redirect_rule_by_index()
NftByIndex(s, index) ==
    On(Refresh(s, "redirect", {}).cache["redirect"].list, LAMBDA list :
       IF index >= Len(list) THEN Out(s, -1) ELSE Out(list[index + 1], 0))

\* get_portmappings_in_range()
NftInRange(s, from, to, proto) ==
    SelectSeq(Refresh(s, "redirect", {}).cache["redirect"].list,
              LAMBDA e : e.proto = proto /\ e.eport \in from .. to)

\* Both parts of delete_redirect_and_filter_rules() that remove a filter rule
\* for a rule that went: its protocol is not looked at
NftDeleteFilter(s, gone, fails) ==
    LET unfilter(read) ==
            LET list == read.cache["filter"].list
                i    == SelectInSeq(list, LAMBDA e : /\ e.eport = gone.iport
                                                     /\ e.iaddr = gone.iaddr
                                                     /\ e.type = "filter")
            IN  IF i = 0 THEN read
                ELSE DelRule(read, "filter", list[i].handle, "unfilter" \in fails)
    IN  IF gone.iaddr = 0 \/ gone.iport = 0 THEN s
        ELSE On(Refresh(s, "filter", fails), unfilter)

\* Removing the rule of a chain that has the port, and its filter rule
NftDeleteIn(s, c, nat, k, fails) ==
    LET unlist(read) ==
            LET list == read.cache[c].list
                i == SelectInSeq(list, LAMBDA e : /\ e.eport = k.eport
                                                  /\ e.proto = k.proto
                                                  /\ e.type = "nat" /\ e.nat = nat)
            IN  IF i = 0 THEN read
                ELSE NftDeleteFilter(DelRule(read, c, list[i].handle, "unrdr" \in fails),
                                     list[i], fails)
    IN  On(Refresh(s, c, fails), unlist)

\* delete_redirect_and_filter_rules(): 0 whatever happened, and the time stays
NftDelete(s, k, fails) ==
    Out(NftDeleteIn(NftDeleteIn(s, "redirect", "dnat", k, fails),
                    "peer", "snat", k, fails), 0)

NftUpdateTime(s, k, time) == Out(NftStamp(NftUnstamp(s, k), k, time), 0)

\* update_portmapping(). get_redirect_rule() does not touch rhost, which is
\* not initialised: the new filter rule has `junk' for its remote host.
NftUpdate(s, k, iport, time, junk, fails) ==
    LET opened(m, add) == IF add.r < 0 THEN Out(add.s, -1)
                          ELSE On(NftAddFilter(add.s, m, junk, fails), LAMBDA open :
                                  Out(open.s, IF open.r < 0 THEN -1 ELSE 0))
        replace(got) ==
            LET old == got.s.cache["redirect"].list[got.r]
                m   == [eport |-> k.eport, proto |-> k.proto, iaddr |-> old.iaddr,
                        iport |-> iport]
            IN  IF got.r = 0 THEN Out(got.s, -1)
                ELSE On(NftAddRedirect(NftDelete(got.s, k, fails).s, m, time, fails),
                        LAMBDA add : opened(m, add))
    IN  On(NftGet(s, k, fails), replace)

=============================================================================
