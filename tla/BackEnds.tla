------------------------------ MODULE BackEnds ------------------------------
(***************************************************************************)
(* The redirection layer (upnpredirect.c) on the firewall back ends other  *)
(* than iptables: pf, ipfilter, ipfw and nftables. The daemon is built for *)
(* one of them, `kind'. Each call of a client is one step; the kernel may  *)
(* refuse one step of a call. The lease file and the clean-up, which are   *)
(* the same for all back ends, are in Redirect.                            *)
(***************************************************************************)
EXTENDS BsdRdr, NftRdr, FiniteSets

CONSTANTS
    Kinds,      \* back ends
    Keys,       \* external ports, each with a protocol
    Iaddrs,     \* internal addresses
    Iports,     \* internal ports
    Rhosts,     \* remote hosts; 0 is any host
    Times,      \* ends of leases; 0 is never
    Refusals,   \* pairs of a back end and a step that its kernel may refuse
    NoTarget,   \* stands for no mapping
    Junk,       \* what memory that is not initialised may hold for a host
    Chunk,      \* rules that ipfw_fetch_ruleset() asks for at a time
    MaxRules,   \* bound on the mappings
    MaxLists,   \* bound on the entries of the lists
    MaxRefused, \* bound on the steps that the kernel refuses
    Peers       \* connections for PCP PEER

ASSUME BackEndsAssumption ==
    /\ Kinds \subseteq {"pf", "ipf", "ipfw", "nft"}
    /\ Keys \subseteq [eport : Nat \ {0}, proto : {"TCP", "UDP"}]
    /\ NoTarget \notin [iaddr : Iaddrs, iport : Iports]
    /\ 0 \in Rhosts /\ Rhosts \subseteq Nat /\ Times \subseteq Nat
    /\ Chunk \in Nat \ {0} /\ MaxRules \in Nat

VARIABLES
    kind,      \* the back end of this build
    fw,        \* the kernel's rules and what the back end remembers
    table,     \* auxiliary: what get_redirect_rule() finds in fw
    reply,     \* the last call and its answer
    refused,   \* the steps that were refused
    granted    \* history: the mapping a client was told it has, unless a call
               \* about it failed since the port was free

bvars == <<kind, fw, table, reply, refused, granted>>

\* The text 0.0.0.0, which is not the empty text of any host
ZeroAddr == -1

-----------------------------------------------------------------------------
\* get_redirect_rule(): the state, and the place of the rule or 0
GetRule(s, k, fails) ==
    CASE kind = "nft"  -> NftGet(s, k, fails)
      [] kind = "pf"   -> Out(s, PfGet(s, k, fails))
      [] kind = "ipf"  -> Out(s, IpfGet(s, k, fails))
      [] kind = "ipfw" -> Out(s, IpfwGet(s, k, Chunk, fails))

\* The client, and the remote host as a caller of get_redirect_rule() sees it:
\* nftables leaves it empty, ipfilter writes 0.0.0.0 for any host
OldRule(s, i) ==
    LET rule == IF kind = "nft" THEN s.cache["redirect"].list[i] ELSE s.rdr[i]
    IN  [iaddr |-> rule.iaddr, iport |-> rule.iport,
         rhost |-> CASE kind = "nft" -> 0
                     [] kind = "ipf" /\ rule.rhost = 0 -> ZeroAddr
                     [] OTHER -> rule.rhost]

AddRedirectRule(s, m, time, fails) ==
    CASE kind = "nft"  -> NftAddRedirect(s, m, time, fails)
      [] kind = "pf"   -> PfAddRedirect(s, m, time, fails)
      [] kind = "ipf"  -> IpfAddRedirect(s, m, time, fails)
      [] kind = "ipfw" -> IpfwAddRedirect(s, m, time, fails)

AddFilterRule(s, m, fails) ==
    CASE kind = "nft"  -> NftAddFilter(s, m, m.rhost, fails)
      [] kind = "pf"   -> PfAddFilter(s, m, fails)
      [] kind = "ipf"  -> IpfAddFilter(s, m, fails)
      [] kind = "ipfw" -> Out(s, 0)

\* Nothing is cleaned up on Linux
CleanUpRedirect(s, k, fails) ==
    CASE kind = "nft"  -> s
      [] kind = "pf"   -> PfDeleteRedirect(s, k, fails).s
      [] kind = "ipf"  -> IpfDeleteRedirect(s, k, fails).s
      [] kind = "ipfw" -> IpfwDeleteRedirect(s, k, Chunk, fails).s

\* upnp_redirect_internal()
RedirectInternal(s, m, time, fails) ==
    LET opened(open) == IF open.r >= 0 THEN Out(open.s, 0)
                        ELSE Out(CleanUpRedirect(open.s, Key(m), fails), -1)
    IN  On(AddRedirectRule(s, m, time, fails), LAMBDA add :
           IF add.r < 0 THEN Out(add.s, -1)
           ELSE On(AddFilterRule(add.s, m, fails), opened))

UpdatePortMapping(s, k, iport, time, junk, fails) ==
    CASE kind = "nft"  -> NftUpdate(s, k, iport, time, junk, fails)
      [] kind = "pf"   -> PfUpdate(s, k, iport, time, fails)
      [] kind = "ipf"  -> Out(s, -1)
      [] kind = "ipfw" -> IpfwUpdate(s, k, iport, time, Chunk, fails)

UpdateTime(s, k, time, same, fails) ==
    CASE kind = "nft"  -> NftUpdateTime(s, k, time)
      [] kind = "pf"   -> PfUpdateTime(s, k, time, same, fails)
      [] kind = "ipf"  -> IpfUpdateTime(s, k, time)
      [] kind = "ipfw" -> IpfwUpdateTime(s, k, time)

\* The mapping is changed twice over; at says which of the two is refused
OverwriteRule(s, m, iport_old, time, same, junk, at, fails) ==
    LET change(x, n, unchanged) ==
            IF m.iport # iport_old
            THEN UpdatePortMapping(x, Key(m), m.iport, time, junk,
                                   IF n = at THEN fails ELSE {})
            ELSE UpdateTime(x, Key(m), time, unchanged, IF n = at THEN fails ELSE {})
    IN  On(change(s, 1, same), LAMBDA first : change(first.s, 2, first.r = 0 \/ same))

\* Mutant of RedirectRule: the client of the old mapping is not compared
RedirectRuleAnyClient(s, m, time, same, junk, at, fails) ==
    LET known(got) ==
            LET old == OldRule(got.s, got.r)
            IN  IF got.r = 0 THEN RedirectInternal(got.s, m, time, fails)
                ELSE OverwriteRule(got.s, m, old.iport, time, same, junk, at, fails)
    IN  On(GetRule(s, Key(m), fails), known)

\* upnp_redirect()
RedirectRule(s, m, time, same, junk, at, fails) ==
    LET known(got) ==
            LET old == OldRule(got.s, got.r)
            IN  IF got.r = 0 THEN RedirectInternal(got.s, m, time, fails)
                ELSE IF m.iaddr # old.iaddr \/ m.rhost # old.rhost
                     THEN Out(got.s, -2)
                ELSE OverwriteRule(got.s, m, old.iport, time, same, junk, at, fails)
    IN  On(GetRule(s, Key(m), fails), known)

\* _upnp_delete_redir()
DeleteRule(s, k, fails) ==
    CASE kind = "nft"  -> NftDelete(s, k, fails)
      [] kind = "pf"   -> PfDelete(s, k, fails)
      [] kind = "ipf"  -> On(IpfDeleteRedirect(s, k, fails), LAMBDA del :
                             Out(IpfDeleteFilter(del.s, k, fails).s, del.r))
      [] kind = "ipfw" -> IpfwDeleteRedirect(s, k, Chunk, fails)

-----------------------------------------------------------------------------
\* get_redirect_rule_by_index()
ByIndex(s, index) ==
    CASE kind = "nft"  -> NftByIndex(s, index)
      [] kind = "pf"   -> PfByIndex(s, index)
      [] kind = "ipf"  -> IpfByIndex(s, index)
      [] kind = "ipfw" -> IpfwByIndex(s, index)

\* What a loop over the indexes sees, as upnp_get_portmapping_number_of_entries()
Listing(s) ==
    LET end == CHOOSE n \in 0 .. MaxRules + 1 : /\ ByIndex(s, n).r = -1
                                                /\ \A i \in 0 .. n - 1 : ByIndex(s, i).r = 0
    IN  [i \in 1 .. end |-> ByIndex(s, i - 1).s]

\* get_portmappings_in_range()
PortsInRange(s, from, to, proto) ==
    LET rules == CASE kind = "nft"  -> NftInRange(s, from, to, proto)
                   [] kind = "pf"   -> PfInRange(s, from, to, proto)
                   [] kind = "ipf"  -> IpfInRange(s, from, to, proto)
                   [] kind = "ipfw" -> IpfwInRange(s, from, to, proto, Chunk)
    IN  {rules[i].eport : i \in 1 .. Len(rules)}

\* The end of the lease as get_redirect_rule() finds it
TimeOf(s, k) == IF kind = "nft" THEN NftTime(s, k) ELSE TimeIn(s.stamps, k)

\* The mapping that get_redirect_rule() finds
Found(s, k) ==
    On(GetRule(s, k, {}), LAMBDA got :
       IF got.r = 0 THEN NoTarget
       ELSE [iaddr |-> OldRule(got.s, got.r).iaddr, iport |-> OldRule(got.s, got.r).iport])

Fails == {{}} \cup {{f[2]} : f \in {g \in Refusals : g[1] = kind /\ refused < MaxRefused}}

Mapping ==
    LET of(k, a, p, h) == [eport |-> k.eport, proto |-> k.proto, iaddr |-> a,
                           iport |-> p, rhost |-> h]
    IN  {of(k, a, p, h) : k \in Keys, a \in Iaddrs, p \in Iports, h \in Rhosts}

\* The bound on what is left behind
Room == /\ Len(fw.filter) < MaxLists /\ Len(fw.nat) < MaxLists
        /\ Len(fw.stamps) < MaxLists /\ Len(fw.chain["filter"]) < MaxLists

\* A call ends in state s with answer r
Done(op, k, want, s, r, fails) ==
    /\ fw' = s
    /\ refused' = refused + Cardinality(fails)
    /\ table' = On(IF kind = "nft" THEN Refresh(s, "redirect", {}) ELSE s,
                   LAMBDA read : [x \in Keys |-> Found(read, x)])
    /\ reply' = [op |-> op, key |-> k, want |-> want, r |-> r]
    /\ UNCHANGED kind

\* AddPortMapping. The description (for pf), the uninitialised memory (for
\* nftables) and which of two changes is refused matter for a port that is
\* mapped already only.
BackAdd(m, time, same, junk, at) ==
    /\ LET old == table[Key(m)]
       IN  /\ old = NoTarget \/ kind # "pf" \/ old.iport # m.iport => same
           /\ old = NoTarget \/ kind # "nft" \/ old.iport = m.iport => junk = 0
           /\ old = NoTarget => at = 1
    /\ Cardinality({k \in Keys : table[k] # NoTarget} \cup {Key(m)}) <= MaxRules
    /\ Room
    /\ \E fails \in Fails : \E out \in {RedirectRule(fw, m, time, same, junk, at, fails)} :
           /\ fails = {} => at = 1
           /\ Done("add", Key(m), [iaddr |-> m.iaddr, iport |-> m.iport], out.s, out.r, fails)
           /\ granted' = IF out.r = -2 THEN granted
                         ELSE IF out.r = 0 /\ (table[Key(m)] = NoTarget \/ granted[Key(m)] # <<>>)
                         THEN [granted EXCEPT ![Key(m)] = <<m, time>>]
                         ELSE [granted EXCEPT ![Key(m)] = <<>>]

\* DeletePortMapping
BackDelete(k) ==
    /\ \E fails \in Fails : \E out \in {DeleteRule(fw, k, fails)} :
           Done("delete", k, NoTarget, out.s, out.r, fails)
    /\ granted' = [granted EXCEPT ![k] = <<>>]

\* The PCP server adds a rule for a connection to a peer
BackPeer(p) ==
    /\ kind = "nft"
    /\ fw.chain["peer"] = <<>>
    /\ Done("peer", Key(p), NoTarget, NftAddPeer(fw, p).s, 0, {})
    /\ UNCHANGED granted

BackInit ==
    /\ kind \in Kinds
    /\ fw = [rdr |-> <<>>, filter |-> <<>>, nat |-> <<>>, stamps |-> <<>>,
             chain |-> [c \in Chains |-> <<>>],
             cache |-> [c \in Chains |-> [valid |-> FALSE, list |-> <<>>]]]
    /\ table = [k \in Keys |-> NoTarget]
    /\ reply = [op |-> "none", key |-> NoTarget, want |-> NoTarget, r |-> 0]
    /\ refused = 0
    /\ granted = [k \in Keys |-> <<>>]

BackNext ==
    \/ \E m \in Mapping, t \in Times, same \in BOOLEAN, junk \in Junk, at \in 1 .. 2 :
           BackAdd(m, t, same, junk, at)
    \/ \E k \in Keys : BackDelete(k)
    \/ \E p \in Peers : BackPeer(p)

BackSpec == BackInit /\ [][BackNext]_bvars

-----------------------------------------------------------------------------
\* The rules of the build are rules of the right kind, and no more of them
\* than were asked for
BackTypeOK ==
    /\ kind \in Kinds
    /\ Range(fw.rdr) \subseteq Mapping
    /\ Range(fw.stamps) \subseteq {Stamp(k, t) : k \in Keys, t \in Times}
    /\ Len(fw.chain["peer"]) <= 1
    /\ refused \in 0 .. MaxRefused
    /\ kind # "nft" => \A c \in Chains : fw.chain[c] = <<>>
    /\ granted \in [Keys -> {<<>>} \cup Mapping \X Times]

\* PortMaps, with table, what get_redirect_rule() finds in the rules, for its own
Promise == INSTANCE PortMaps WITH
             Targets <- [iaddr : Iaddrs, iport : Iports]

\* Each back end is the table of commonrdr.h: a call changes the mapping it is
\* about only, an answer of 0 is true, and a failure leaves no third thing,
\* also when the kernel refuses one of the steps of the call.
IsPortMaps == Promise!AbsSpec

\* The rules by index are the mappings, each of them once, and so are the ports
\* in a range: neither the end of the list, nor the pieces it is fetched in, nor
\* what was kept of it hides one. (nftables: what its lists say is what the kernel
\* has, as long as they count as valid.)
ListingTrue ==
    LET list == Listing(fw)
        ports(proto) == {k.eport : k \in {x \in Keys : x.proto = proto /\ table[x] # NoTarget}}
        all == {k.eport : k \in Keys}
    IN  /\ {Key(list[i]) : i \in 1 .. Len(list)} = {k \in Keys : table[k] # NoTarget}
        /\ Cardinality({Key(list[i]) : i \in 1 .. Len(list)}) = Len(list)
        /\ \A proto \in {"TCP", "UDP"}, from \in all, to \in all :
               PortsInRange(fw, from, to, proto) = ports(proto) \cap from .. to
        /\ \A c \in Chains : fw.cache[c].valid => fw.cache[c].list = Listed(fw, c)

LetsIn(f, m, port) ==
    /\ f.iaddr = m.iaddr /\ f.port = port /\ f.proto = m.proto
    /\ f.rhost \in {0, m.rhost}

\* A client that was told of success keeps what it was granted.
\* Its packets have a filter rule, also after others deleted or moved mappings
\* to the same internal port (pf, which filters by the internal port, and
\* ipfilter, which does by the external one), as long as the kernel refuses
\* nothing: upnp_redirect() changes a mapping twice and answers for the second
\* time only. And the end of the lease that the clean-up will find is the one
\* that was granted, not one of an earlier mapping of the port (not ipfilter:
\* see IpfDelDesc). And with pf's port triggering the packets of every UDP
\* mapping's client leave with a port of their own, although several mappings
\* may share one internal port.
GrantedKept ==
    /\ \A k \in {x \in Keys : granted[x] # <<>>} :
          LET m == granted[k][1]
          IN  /\ kind \in {"pf", "ipf"} /\ refused = 0 =>
                     \E i \in 1 .. Len(fw.filter) :
                         LetsIn(fw.filter[i], m, IF kind = "pf" THEN m.iport ELSE m.eport)
              /\ kind # "ipf" => TimeOf(fw, k) = granted[k][2]
    /\ kind = "pf" =>
          \A a \in Iaddrs, p \in Iports :
              Cardinality({i \in 1 .. Len(fw.rdr) : /\ fw.rdr[i].proto = "UDP"
                                                    /\ fw.rdr[i].iaddr = a /\ fw.rdr[i].iport = p})
                <= Cardinality({i \in 1 .. Len(fw.nat) : /\ fw.nat[i].iaddr = a
                                                         /\ fw.nat[i].iport = p})

=============================================================================
