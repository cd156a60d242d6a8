----------------------------- MODULE MCServices -----------------------------
(***************************************************************************)
(* Parts of the daemon that share no state, checked one by one in one run, *)
(* as in MCDaemon.                                                         *)
(***************************************************************************)
EXTENDS MapServers, Stun, TokenAuth, JsonStore, DescGen

VARIABLE part

-----------------------------------------------------------------------------
\* Two hosts of the network: addresses of two bits
A == {1}
B == {1, 2}
SomeHosts == {A, B}

-----------------------------------------------------------------------------
\* Permissions: everything for everyone; rules that overlap, the first of which
\* decides; a range that ends within a word; a line that cannot be read
Line(type, eport, address, mask, iport) ==
    [type |-> type, eport |-> eport, good |-> TRUE, address |-> address, mask |-> mask,
     iport |-> iport]

SomeLines ==
    {<<>>,
     << Line("deny", <<4, 5>>, B, {1, 2}, <<0, 5>>), Line("allow", <<2>>, A, {}, <<1, 5>>),
        Line("deny", <<0, 4>>, A, {2}, <<0, 5>>) >>,
     << Line("allow", <<5, 2>>, A, {1}, <<0, 5>>), Line("deny", <<1, 5>>, B, {1}, <<0, 5>>) >>}

\* A socket of the router, and a redirection that it did not make
Used(what, port, addr, iport) ==
    [what |-> what, port |-> port, proto |-> "TCP", addr |-> addr, iport |-> iport]

SomeUsed == {{}, {Used("socket", 3, "any", 0), Used("socket", 1, "lan", 0),
                  Used("redirection", 5, A, 1)}}

NatpmpReq(iaddr, version, opcode, iport, eport, lifetime) ==
    [iaddr |-> iaddr, version |-> version, opcode |-> opcode, iport |-> iport, eport |-> eport,
     lifetime |-> lifetime]

SomeNatpmp ==
    {NatpmpReq(A, 0, 2, 1, eport, 1) : eport \in {0, 2, 5}} \cup {NatpmpReq(B, 0, 2, 1, 2, 1)}
    \cup {NatpmpReq(A, 0, 2, iport, 0, 0) : iport \in {0, 1}}
    \cup {NatpmpReq(A, 0, 1, 1, 2, 1), NatpmpReq(A, 0, 2, 0, 2, 1), NatpmpReq(A, 0, 0, 0, 0, 0),
          NatpmpReq(A, 1, 2, 0, 0, 0), NatpmpReq(A, 0, 3, 0, 0, 0)}

PcpReq(iaddr, opcode, lifetime, iport, eport, nonce, options) ==
    [iaddr |-> iaddr, int_ip |-> iaddr, version |-> 2, opcode |-> opcode, size |-> "whole",
     lifetime |-> lifetime, proto |-> "TCP", iport |-> iport, eport |-> eport, ext_ip |-> "any",
     nonce |-> nonce, options |-> options, rhost |-> 9, conn |-> 0, v6 |-> FALSE,
     tolerance |-> <<0, 1, 2>>, app |-> "voice"]

Option(kind) == [kind |-> kind, good |-> TRUE, addr |-> B]

Plain == PcpReq(A, "MAP", 1, 2, 2, 1, <<>>)

SomePcp ==
    {PcpReq(A, "MAP", 9, 1, 1, 1, <<>>), PcpReq(B, "MAP", 1, 1, 2, 2, <<>>),
     PcpReq(A, "MAP", 2, 0, 0, 1, <<>>),
     [PcpReq(A, "MAP", 2, 0, 5, 1, <<>>) EXCEPT !.proto = "all"],
     PcpReq(A, "MAP", 0, 1, 0, 1, <<>>), PcpReq(A, "MAP", 0, 0, 0, 2, <<>>),
     PcpReq(A, "PEER", 2, 1, 2, 1, <<>>), PcpReq(A, "PEER", 0, 1, 2, 1, <<>>),
     [PcpReq(A, "PEER", 2, 1, 0, 1, <<>>) EXCEPT !.conn = 1]}
    \cup {[Plain EXCEPT !.options = options] :
            options \in {<<Option("prefer")>>, <<Option("prefer"), Option("prefer")>>,
                         <<Option("third")>>, <<Option("third"), Option("third")>>,
                         <<Option("mandatory"), Option("filter")>>, <<Option("optional")>>,
                         <<[Option("filter") EXCEPT !.good = FALSE], Option("prefer")>>}}
    \cup {[Plain EXCEPT !.options = <<Option("third")>>, !.iaddr = B, !.int_ip = B],
          [Plain EXCEPT !.options = <<Option("prefer")>>, !.eport = 0],
          [Plain EXCEPT !.options = <<Option("prefer")>>, !.ext_ip = "other"],
          [Plain EXCEPT !.options = <<Option("prefer")>>, !.opcode = "PEER"],
          [Plain EXCEPT !.options = <<Option("filter")>>, !.opcode = "PEER"],
          [Plain EXCEPT !.int_ip = B], [Plain EXCEPT !.proto = "all"],
          [Plain EXCEPT !.v6 = TRUE], [Plain EXCEPT !.v6 = TRUE, !.opcode = "PEER"],
          [Plain EXCEPT !.size = "odd"], [Plain EXCEPT !.size = "cut"],
          [Plain EXCEPT !.version = 3],
          [Plain EXCEPT !.version = 1, !.opcode = "ANNOUNCE"], [Plain EXCEPT !.opcode = "ANNOUNCE"],
          [Plain EXCEPT !.opcode = "SADSCP"],
          [Plain EXCEPT !.opcode = "SADSCP", !.tolerance = <<3, 0, 0>>],
          [Plain EXCEPT !.opcode = "SADSCP", !.tolerance = <<2, 0, 0>>]}

SomeDscp == << [name |-> "video", tolerance |-> <<0, 1, 2>>, dscp |-> 1],
               [name |-> "voice", tolerance |-> <<0, 1, 2>>, dscp |-> 2],
               [name |-> "", tolerance |-> <<0, 1, 2>>, dscp |-> 3] >>

AnyReq(iaddr, iport, eport) ==
    [iaddr |-> iaddr, good |-> TRUE, own |-> TRUE, proto |-> "TCP", iport |-> iport,
     eport |-> eport, life |-> 7]

SomeAny == {AnyReq(A, 1, eport) : eport \in {1, 3, 5}} \cup {AnyReq(B, 1, 3)}
           \cup {AnyReq(A, 2, 0), AnyReq(A, 0, 1), [AnyReq(A, 1, 1) EXCEPT !.good = FALSE],
                 [AnyReq(A, 1, 1) EXCEPT !.own = FALSE]}

SomeListings ==
    {[what |-> "index", good |-> index # 0, index |-> index] : index \in {0, 1, 2}}
    \cup {[what |-> "range", good |-> TRUE, proto |-> "TCP", start |-> range[1], end |-> range[2],
           number |-> number] : range \in {<<1, 5>>, <<3, 2>>, <<0, 0>>}, number \in {0, 1}}
    \cup {[what |-> "range", good |-> FALSE]}

-----------------------------------------------------------------------------
\* Tokens: every length of prefix, several ranges of ports, ranges that are empty,
\* upside down, too wide or not numbers, and tokens that are not good for a reason
ListOf(list) == [array |-> TRUE, list |-> list]

MCNet(parts, mask) == [parts |-> parts, mask |-> mask]

MCToken(ports, addrs) ==
    [whole |-> TRUE, ca |-> TRUE, json |-> TRUE, key |-> TRUE, signed |-> TRUE,
     ports |-> ListOf(ports), addrs |-> ListOf(addrs)]

GoodToken == MCToken(<< <<2, 3>> >>, << MCNet(<<1, 2>>, 3) >>)

SomeTokens ==
    {MCToken(<< <<2, 3>> >>, << MCNet(<<1, 2>>, mask) >>) : mask \in -1 .. 5}
    \cup {MCToken(ports, << MCNet(<<3, 0>>, 2) >>) :
            ports \in {<<>>, << <<1, 1>>, <<6, 7>> >>, << <<5, 2>> >>, << <<0, 4>> >>, << <<3>> >>,
                       << <<9, 12>> >>, << <<2, 2>>, <<-1, 3>> >>}}
    \cup {MCToken(<< <<2, 3>> >>, addrs) :
            addrs \in {<<>>, << MCNet(<<4, 0>>, 4) >>, << MCNet(<<1>>, 2) >>,
                       << MCNet(<<1, -1>>, 2) >>,
                       << MCNet(<<0, 0>>, 4), MCNet(<<1, 4>>, 1) >>}}
    \cup {[GoodToken EXCEPT !.whole = FALSE], [GoodToken EXCEPT !.ca = FALSE],
          [GoodToken EXCEPT !.json = FALSE], [GoodToken EXCEPT !.key = FALSE],
          [GoodToken EXCEPT !.signed = FALSE], [GoodToken EXCEPT !.ports.array = FALSE],
          [GoodToken EXCEPT !.addrs.array = FALSE]}

SomeTargets == {<<a, b>> : a \in 0 .. 4, b \in 0 .. 3} \cup {<<1>>, <<1, -1>>}

-----------------------------------------------------------------------------
\* STUN: no router, routers that change ports or addresses or let in some answers
Direct == [pass |-> Reqs, kept |-> TRUE, one |-> TRUE, rewrites |-> FALSE, moved |-> FALSE]

SomeNats ==
    {Direct, [Direct EXCEPT !.kept = FALSE], [Direct EXCEPT !.one = FALSE],
     [Direct EXCEPT !.moved = TRUE], [Direct EXCEPT !.pass = {0, 1}],
     [Direct EXCEPT !.pass = {0}, !.rewrites = TRUE],
     [Direct EXCEPT !.one = FALSE, !.rewrites = TRUE]}

SomeStyles == {<<"MAPPED">>, <<"XOR", "MAPPED">>, <<"cut", "MAPPED">>, <<"MAPPED", "cut", "XOR">>}

-----------------------------------------------------------------------------
\* json-c: two of the keys have the same hash
SomeHash == <<0, 0, 1>>
SomeTypes == <<"object","array","leaf">>

-----------------------------------------------------------------------------
\* Descriptions: the options that go together. DeviceProtection and the IPv6 firewall
\* are part of IGD 2; the table of the root device has room for two services
SomeBuilds ==
    {b \in [v2 : BOOLEAN, l3f : BOOLEAN, dummy : BOOLEAN, dp : BOOLEAN, six : BOOLEAN] :
        (b.dp \/ b.six => b.v2) /\ ~ (b.l3f /\ b.dummy /\ b.dp)}

-----------------------------------------------------------------------------
mcvars == <<part, msvars, svars, tvars, jvars, desc>>

Init ==
    /\ part \in {"maps", "stun", "token", "json", "desc"}
    /\ MsInit /\ SInit /\ TInit /\ JInit /\ DInit
    /\ third = (used # {})
    /\ part # "maps" => perms = <<>> /\ used = {}

Next ==
    /\ UNCHANGED part
    /\ \/ part = "maps" /\ MsNext /\ UNCHANGED <<svars, tvars, jvars, desc>>
       \/ part = "stun" /\ SNext /\ UNCHANGED <<msvars, tvars, jvars, desc>>
       \/ part = "token" /\ TNext /\ UNCHANGED <<msvars, svars, jvars, desc>>
       \/ part = "json" /\ JNext /\ UNCHANGED <<msvars, svars, tvars, desc>>
       \/ part = "desc" /\ DNext /\ UNCHANGED <<msvars, svars, tvars, jvars>>

Spec == Init /\ [][Next]_mcvars

=============================================================================
