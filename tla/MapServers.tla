----------------------------- MODULE MapServers -----------------------------
(***************************************************************************)
(* The servers that hand out external ports: NAT-PMP (natpmp.c), PCP       *)
(* (pcpserver.c) and the IGD actions that search for a port or list the    *)
(* mappings (upnpsoap.c), on one table of mappings. The table is what the  *)
(* back end answers for (its rules are in Redirect and BackEnds), with the *)
(* outcomes that callers have to expect: see Troubles. Lifetimes are kept  *)
(* as granted; how they run out is in Redirect.                            *)
(***************************************************************************)
EXTENDS Permissions, Calls

CONSTANTS
    Hosts,           \* hosts of the network, each the set of the bits of its address
    PermLists,       \* the lines of the configuration files
    InUse,           \* what the router itself has: sets of sockets and redirections
    NatpmpRequests, PcpRequests, AnyRequests, Listings,
    MinLifetime, MaxLifetime,
    DscpValues,      \* the lines of the configuration for SADSCP
    MaxMaps          \* bound on the mappings

ASSUME MapServersAssumption ==
    /\ MinLifetime \in Nat \ {0} /\ MaxLifetime \in Nat /\ MinLifetime <= MaxLifetime
ASSUME RequestsAssumption ==
    /\ \A req \in NatpmpRequests \cup PcpRequests :
           req.iport \in Ports /\ req.eport \in Ports /\ req.lifetime \in Nat
    /\ \A req \in PcpRequests :
           {"iaddr", "int_ip", "version", "opcode", "size", "lifetime", "proto", "iport", "eport",
            "ext_ip", "nonce", "options", "rhost", "conn", "v6"} \subseteq DOMAIN req
ASSUME PermListsAssumption ==
    \A lines \in PermLists :
        /\ Len(lines) \in Nat /\ DOMAIN lines = 1 .. Len(lines)
        /\ \A i \in DOMAIN lines : lines[i].eport \in Seq(Nat)

VARIABLES
    perms,     \* upnppermlist
    used,      \* sockets of the router, and redirections of chains not its own
    third,     \* PCP_ALLOWTHIRDPARTYMASK
    table,     \* mappings in the order of the chain
    peers,     \* rules for PCP PEER
    unsure,    \* history: a deletion failed, and its caller may not have been told
    reply      \* the answer to the last request, until it is sent

msvars == <<perms, used, third, table, peers, unsure, reply>>

NoReply == [op |-> "none"]

-----------------------------------------------------------------------------
\* The state a request works on; dels counts its deletions
Now == [table |-> table, peers |-> peers, dels |-> 0, unsure |-> FALSE]

\* What may go wrong in the back end during a request: the deletion number at
\* answers r, and the mapping is gone or not; adding a mapping is refused, and
\* the half of it that was added first may stay; there is no external address.
\* iptables answers 1 when both halves of a deletion fail.
NoTrouble == [at |-> 0, r |-> 0, gone |-> TRUE, add |-> "ok", addr |-> TRUE]
Troubles ==
    {NoTrouble, [NoTrouble EXCEPT !.addr = FALSE]}
    \cup {[NoTrouble EXCEPT !.at = at, !.r = r, !.gone = gone] :
            at \in 1 .. 2, r \in {-1, 1}, gone \in BOOLEAN}
    \cup {[NoTrouble EXCEPT !.add = add] : add \in {"refused", "half"}}

IsKey(m, eport, proto) == m.eport = eport /\ m.proto = proto

\* The place of a mapping, or 0: get_redirect_rule()
Find(rules, eport, proto) == SelectInSeq(rules, LAMBDA m : IsKey(m, eport, proto))

Without(rules, i) == IF i = 0 THEN rules ELSE RemoveAt(rules, i)

\* _upnp_delete_redir(): a rule for PEER with the external port goes as well
DeleteRedir(s, eport, proto, t) ==
    LET trouble == t.at = s.dels + 1
        stays == trouble /\ ~ t.gone
    IN  Out([s EXCEPT !.dels = @ + 1,
                      !.unsure = @ \/ trouble,
                      !.table = IF stays THEN @ ELSE Without(@, Find(@, eport, proto)),
                      !.peers = IF stays THEN @ ELSE Without(@, Find(@, eport, proto))],
            IF trouble THEN t.r ELSE 0)

\* upnp_redirect_internal()
RedirectInternal(s, m, t) ==
    Out(IF t.add = "refused" THEN s ELSE [s EXCEPT !.table = Append(@, m)],
        IF t.add = "ok" THEN 0 ELSE -1)

\* A redirection of another chain, unless it is to the same host and port
PortRedirected(eport, proto, iaddr, iport) ==
    \E u \in used : /\ u.what = "redirection" /\ u.port = eport /\ u.proto = proto
                   /\ ~ (u.addr = iaddr /\ u.iport = iport)

\* port_in_use(): a socket bound to the external address or to any
PortInUse(eport, proto, iaddr, iport) ==
    \/ \E u \in used : /\ u.what = "socket" /\ u.port = eport /\ u.proto = proto
                      /\ u.addr \in {"any", "external"}
    \/ PortRedirected(eport, proto, iaddr, iport)

Mapping(eport, proto, iaddr, iport, desc, life) ==
    [eport |-> eport, proto |-> proto, iaddr |-> iaddr, iport |-> iport, desc |-> desc,
     life |-> life]

-----------------------------------------------------------------------------
(***************************************************************************)
(* NAT-PMP. A request: [iaddr, version, opcode, iport, eport, lifetime].   *)
(* Opcodes: 0 external address, 1 UDP, 2 TCP.                              *)
(***************************************************************************)
NatpmpProto(opcode) == IF opcode = 1 THEN "UDP" ELSE "TCP"

NatpmpDesc == [by |-> "NAT-PMP", nonce |-> 0]

\* The port after this one; zero is skipped
NextPort(port) == IF port = TopPort THEN 1 ELSE port + 1

NatpmpMatches(m, req) ==
    /\ m.iaddr = req.iaddr /\ m.desc = NatpmpDesc
    /\ req.iport = 0 \/ (req.iport = m.iport /\ NatpmpProto(req.opcode) = m.proto)

\* Mutant of NatpmpDeleteStep: the rule that moves up is not looked at
NatpmpDeleteStepSkips(x, req, t) ==
    LET m == x.s.table[x.index]
    IN  IF x.code # 0 \/ x.index > Len(x.s.table) THEN x
        ELSE IF ~ NatpmpMatches(m, req) THEN [x EXCEPT !.index = @ + 1]
        ELSE On(DeleteRedir(x.s, m.eport, m.proto, t), LAMBDA del :
                [x EXCEPT !.s = del.s, !.code = IF del.r < 0 THEN 2 ELSE 0, !.index = @ + 1])

\* One turn of the loop over the rules: what comes after a rule that went takes
\* its index
NatpmpDeleteStep(x, req, t) ==
    LET m == x.s.table[x.index]
    IN  IF x.code # 0 \/ x.index > Len(x.s.table) THEN x
        ELSE IF ~ NatpmpMatches(m, req) THEN [x EXCEPT !.index = @ + 1]
        ELSE On(DeleteRedir(x.s, m.eport, m.proto, t), LAMBDA del :
                [x EXCEPT !.s = del.s, !.code = IF del.r < 0 THEN 2 ELSE 0])

\* A rule that is answered for as deleted and is still there would be tried again
\* without end; the turns are as many as a table without such rules takes
NatpmpDelete(req, t) ==
    LET turn(x, i) == NatpmpDeleteStep(x, req, t)
        end == Steps([s |-> Now, code |-> 0, index |-> 1], 2 * Len(table) + 1, turn)
    IN  [s |-> end.s, code |-> end.code, port |-> 0]

\* A mapping that NAT-PMP or PCP may replace: the same host and internal port
Own(m, req) == m.iaddr = req.iaddr /\ m.iport = req.iport

\* One turn of the search for an external port
NatpmpTry(x, i, req, t) ==
    LET proto == NatpmpProto(req.opcode)
        old   == Find(x.s.table, x.port, proto)
        next  == [x EXCEPT !.port = NextPort(@)]
        m     == Mapping(x.port, proto, req.iaddr, req.iport, NatpmpDesc, req.lifetime)
        add(s) == On(RedirectInternal(s, m, t), LAMBDA added :
                     [x EXCEPT !.s = added.s, !.done = TRUE, !.code = IF added.r < 0 THEN 3 ELSE 0])
    IN  IF x.done THEN x
        ELSE IF i > 1 /\ x.port = x.first
        THEN [x EXCEPT !.done = TRUE, !.code = IF x.any THEN 4 ELSE 2]
        ELSE IF ~ CheckPermissions(perms, x.port, req.iaddr, req.iport) THEN next
        ELSE IF \/ PortInUse(x.port, proto, req.iaddr, req.iport)
                \/ old # 0 /\ ~ Own(x.s.table[old], req)
        THEN [next EXCEPT !.any = TRUE]
        ELSE IF old = 0 THEN add(x.s)
        ELSE On(DeleteRedir(x.s, x.port, proto, t), LAMBDA del :
                IF del.r < 0 THEN [x EXCEPT !.s = del.s, !.done = TRUE] ELSE add(del.s))

NatpmpAdd(req, t) ==
    LET first == IF req.eport = 0 THEN req.iport ELSE req.eport
        try(x, i) == NatpmpTry(x, i, req, t)
    IN  Steps([s |-> Now, port |-> first, first |-> first, any |-> FALSE,
               done |-> FALSE, code |-> 0],
              TopPort + 1, try)

\* FillPublicAddressResponse()
PublicAddress(t) == IF t.addr THEN 0 ELSE 3

\* What a request leaves, and its answer
Finish(s, answer) ==
    /\ table' = s.table /\ peers' = s.peers
    /\ unsure' = (unsure \/ s.unsure)
    /\ reply' = answer
    /\ UNCHANGED <<perms, used, third>>

NatpmpReply(req, code, port) ==
    [op |-> "natpmp", req |-> req, code |-> code, port |-> port, life |-> req.lifetime]

\* ProcessIncomingNATPMPPacket(): a packet that is too short or is a response is
\* dropped, and is not a request here
Natpmp(req, t) ==
    /\ reply = NoReply
    /\ Len(table) < MaxMaps \/ req.lifetime = 0
    /\ IF req.version > 0 THEN Finish(Now, NatpmpReply(req, 1, 0))
       ELSE IF req.opcode = 0 THEN Finish(Now, NatpmpReply(req, PublicAddress(t), 0))
       ELSE IF req.opcode > 2 THEN Finish(Now, NatpmpReply(req, 5, 0))
       ELSE IF req.lifetime = 0
       THEN LET out == NatpmpDelete(req, t) IN Finish(out.s, NatpmpReply(req, out.code, out.port))
       ELSE IF req.iport = 0 THEN Finish(Now, NatpmpReply(req, 2, req.eport))
       ELSE LET out == NatpmpAdd(req, t) IN Finish(out.s, NatpmpReply(req, out.code, out.port))

-----------------------------------------------------------------------------
(***************************************************************************)
(* PCP. A request: [iaddr, int_ip, version, opcode, size, lifetime, proto, *)
(* iport, eport, ext_ip, nonce, options, rhost, conn, v6]. iaddr is the    *)
(* sender, conn the external port of the connection if the kernel already  *)
(* tracks it (PEER), and v6 is for an IPv6 host, which gets a pinhole (see *)
(* Pinholes) where an IPv4 host gets a mapping.                            *)
(***************************************************************************)
PCP_SUCCESS == 0
PCP_ERR_UNSUPP_VERSION == 1
PCP_ERR_NOT_AUTHORIZED == 2
PCP_ERR_MALFORMED_REQUEST == 3
PCP_ERR_UNSUPP_OPCODE == 4
PCP_ERR_UNSUPP_OPTION == 5
PCP_ERR_MALFORMED_OPTION == 6
PCP_ERR_NETWORK_FAILURE == 7
PCP_ERR_NO_RESOURCES == 8
PCP_ERR_USER_EX_QUOTA == 10
PCP_ERR_CANNOT_PROVIDE_EXTERNAL == 11
PCP_ERR_ADDRESS_MISMATCH == 12

\* Mutant of ClampLifetime: only what is too long is changed
ClampLifetimeLong(lifetime) == IF lifetime > MaxLifetime THEN MaxLifetime ELSE lifetime

\* parseCommonRequestHeader()
ClampLifetime(lifetime) ==
    CASE lifetime > MaxLifetime -> MaxLifetime
      [] lifetime < MinLifetime /\ lifetime # 0 -> MinLifetime
      [] OTHER -> lifetime

\* parsePCPOption(): an option that is too short or has not its length ends the
\* parsing, one that is not known and mandatory does not
PcpOption(x, opt, opcode) ==
    CASE x.stop -> x
      [] ~ x.stop /\ ~ opt.good -> [x EXCEPT !.code = PCP_ERR_MALFORMED_OPTION, !.stop = TRUE]
      [] ~ x.stop /\ opt.good ->
         CASE opt.kind = "third" ->
                IF x.thirdp # {} THEN [x EXCEPT !.code = PCP_ERR_MALFORMED_OPTION, !.stop = TRUE]
                ELSE [x EXCEPT !.thirdp = {opt.addr}, !.mapped = opt.addr]
           [] opt.kind = "prefer" ->
                [x EXCEPT !.pfailure = TRUE,
                          !.code = IF x.pfailure THEN PCP_ERR_MALFORMED_OPTION
                                   ELSE IF opcode # "MAP" THEN PCP_ERR_MALFORMED_REQUEST ELSE @]
           [] opt.kind = "filter" ->
                IF opcode = "MAP" THEN x
                ELSE [x EXCEPT !.code = PCP_ERR_MALFORMED_REQUEST, !.stop = TRUE]
           [] opt.kind = "mandatory" -> [x EXCEPT !.code = PCP_ERR_UNSUPP_OPTION]
           [] opt.kind = "optional" -> x

\* parsePCPOptions(), on what is known once the header and the part of the
\* opcode are parsed
PcpInfo(req) ==
    LET option(x, i) == PcpOption(x, req.options[i], req.opcode)
    IN  Steps([code |-> PCP_SUCCESS, stop |-> FALSE, thirdp |-> {}, mapped |-> req.int_ip,
               pfailure |-> FALSE], Len(req.options), option)

\* CheckExternalAddress(): the external address of an IPv6 host is its own
ExternalError(x, req, t) ==
    IF ~ req.v6 /\ ~ t.addr THEN PCP_ERR_NETWORK_FAILURE
    ELSE IF x.pfailure /\ req.ext_ip = "other" THEN PCP_ERR_CANNOT_PROVIDE_EXTERNAL
    ELSE PCP_SUCCESS

\* ValidatePCPMsg(): the first thing that is wrong
PcpError(x, req, t) ==
    CASE x.code # PCP_SUCCESS -> x.code
      [] x.code = PCP_SUCCESS ->
         IF req.int_ip # req.iaddr THEN PCP_ERR_ADDRESS_MISMATCH
         ELSE IF x.thirdp # {} /\ ~ third THEN PCP_ERR_UNSUPP_OPTION
         ELSE IF x.thirdp = {req.iaddr} THEN PCP_ERR_MALFORMED_REQUEST
         ELSE IF req.proto = "all" /\ req.iport # 0 THEN PCP_ERR_MALFORMED_REQUEST
         ELSE IF x.pfailure /\ req.ext_ip = "any" /\ req.eport = 0 THEN PCP_ERR_MALFORMED_OPTION
         ELSE ExternalError(x, req, t)

PcpDesc(req) == [by |-> req.opcode, nonce |-> req.nonce]

\* One turn of the search of CreatePCPMap_NAT()
PcpTry(x, i, req, t) ==
    LET old  == Find(x.s.table, x.port, req.proto)
        next == [x EXCEPT !.port = NextPort(@)]
        end(s, code) == [x EXCEPT !.s = s, !.done = TRUE, !.code = code]
        m == Mapping(x.port, req.proto, req.iaddr, req.iport, PcpDesc(req), req.lifetime)
        add(s) == On(RedirectInternal(s, m, t), LAMBDA added :
                     end(added.s, IF added.r < 0 THEN PCP_ERR_NO_RESOURCES ELSE PCP_SUCCESS))
    IN  IF x.done THEN x
        ELSE IF i > 1 /\ x.port = x.first
        THEN end(x.s, IF x.any THEN PCP_ERR_NO_RESOURCES ELSE PCP_ERR_NOT_AUTHORIZED)
        ELSE IF ~ CheckPermissions(perms, x.port, req.iaddr, req.iport)
        THEN IF x.pfailure THEN end(x.s, PCP_ERR_CANNOT_PROVIDE_EXTERNAL) ELSE next
        ELSE IF PortInUse(x.port, req.proto, req.iaddr, req.iport) THEN [next EXCEPT !.any = TRUE]
        ELSE IF old = 0 THEN add(x.s)
        ELSE IF ~ Own(x.s.table[old], req)
        THEN IF x.pfailure THEN end(x.s, PCP_ERR_CANNOT_PROVIDE_EXTERNAL)
             ELSE [next EXCEPT !.any = TRUE]
        ELSE On(DeleteRedir(x.s, x.port, req.proto, t), LAMBDA del :
                IF del.r = 0 THEN add(del.s)
                ELSE IF x.pfailure THEN end(del.s, PCP_ERR_CANNOT_PROVIDE_EXTERNAL)
                ELSE [next EXCEPT !.any = TRUE, !.s = del.s])

\* CreatePCPMap_NAT()
CreatePCPMap(req, pfailure, t) ==
    LET first == IF req.eport = 0 THEN req.iport ELSE req.eport
        try(x, i) == PcpTry(x, i, req, t)
    IN  Steps([s |-> Now, port |-> first, first |-> first, any |-> FALSE, pfailure |-> pfailure,
               done |-> first = 0,
               code |-> IF first = 0 THEN PCP_ERR_MALFORMED_REQUEST ELSE PCP_SUCCESS],
              TopPort + 1, try)

DeleteMatches(m, req) ==
    m.iaddr = req.iaddr /\ m.proto = req.proto /\ req.iport \in {0, m.iport}

\* Mutant of NonceError: anyone who knows the port may delete
NonceErrorNone(m, req) == FALSE

NonceError(m, req) == m.desc # PcpDesc(req)

\* DeletePCPMap(): the first rule that matches decides
DeletePCPMap(req, t) ==
    LET at == SelectInSeq(table, LAMBDA m : DeleteMatches(m, req))
    IN  IF at = 0 THEN [s |-> Now, code |-> PCP_ERR_NO_RESOURCES]
        ELSE IF NonceError(table[at], req) THEN [s |-> Now, code |-> PCP_ERR_NOT_AUTHORIZED]
        ELSE On(DeleteRedir(Now, table[at].eport, table[at].proto, t), LAMBDA del :
                [s |-> del.s, code |-> IF del.r >= 0 THEN PCP_SUCCESS ELSE PCP_ERR_NO_RESOURCES])

\* CreatePCPPeer_NAT(): the port of the connection, the one asked for, or the
\* internal one; whether it is free is not looked at
CreatePCPPeer(req, t) ==
    LET eport == CASE req.conn # 0 -> req.conn
                   [] req.conn = 0 /\ req.eport # 0 -> req.eport
                   [] OTHER -> req.iport
        rule == [eport |-> eport, proto |-> req.proto, iaddr |-> req.iaddr, iport |-> req.iport,
                 desc |-> PcpDesc(req), rhost |-> req.rhost]
    IN  IF t.add # "ok" THEN [s |-> Now, code |-> PCP_ERR_NO_RESOURCES, port |-> req.eport]
        ELSE [s |-> [Now EXCEPT !.peers = Append(@, rule)], code |-> PCP_SUCCESS, port |-> eport]

\* DeletePCPPeer(): a deletion that fails is not answered as such
DeletePCPPeer(req, t) ==
    LET at == SelectInSeq(peers, LAMBDA p : /\ p.iaddr = req.iaddr /\ p.rhost = req.rhost
                                            /\ p.proto = req.proto /\ p.iport = req.iport
                                            /\ p.desc = PcpDesc(req))
    IN  IF at = 0 THEN [s |-> Now, code |-> PCP_ERR_NO_RESOURCES]
        ELSE [s |-> DeleteRedir(Now, peers[at].eport, peers[at].proto, t).s, code |-> PCP_SUCCESS]

\* parseSADSCP() and get_dscp_value(): the first line of the configuration that
\* has the tolerances, and the name if it has one
SadscpError(req) == IF \E i \in DOMAIN req.tolerance : req.tolerance[i] = 3
                    THEN PCP_ERR_MALFORMED_REQUEST ELSE PCP_SUCCESS

DscpValue(req) ==
    LET at == SelectInSeq(DscpValues, LAMBDA v : /\ v.tolerance = req.tolerance
                                                 /\ v.name \in {"", req.app})
    IN  IF at = 0 THEN [dscp |-> 0, matched |-> FALSE]
        ELSE [dscp |-> DscpValues[at].dscp, matched |-> DscpValues[at].name # ""]

\* The lifetime of createPCPResponse(): errors last for long or for 30 seconds
AnswerLife(code, lifetime) ==
    CASE code = PCP_SUCCESS -> lifetime
      [] code \in {PCP_ERR_NETWORK_FAILURE, PCP_ERR_NO_RESOURCES, PCP_ERR_USER_EX_QUOTA} -> 30
      [] OTHER -> 0

\* CreatePCPMap_FW() and DeletePCPMap() of IPv6, whatever the pinholes say. Only an addition
\* sets the external port.
PinholeAnswers(req) ==
    LET at(code, port) == [s |-> Now, code |-> code, port |-> port]
    IN  IF req.lifetime = 0
        THEN {at(code, req.eport) : code \in {PCP_SUCCESS, PCP_ERR_NOT_AUTHORIZED,
                                              PCP_ERR_NO_RESOURCES}}
        ELSE {at(PCP_SUCCESS, port) : port \in {req.eport, req.iport}}
             \cup {at(PCP_ERR_NO_RESOURCES, req.eport)}

\* Mapped and peered hosts, for a request that is valid: CreatePCPMap(),
\* CreatePCPPeer() and their opposites
PcpServe(req, pfailure, t) ==
    LET at(out) == [s |-> out.s, code |-> out.code, port |-> req.eport]
    IN  CASE req.v6 /\ req.opcode = "PEER" ->
             {[s |-> Now, code |-> PCP_ERR_UNSUPP_OPCODE, port |-> req.eport]}
          [] req.v6 /\ req.opcode = "MAP" -> PinholeAnswers(req)
          [] ~ req.v6 /\ req.opcode = "PEER" ->
             {IF req.lifetime = 0 THEN at(DeletePCPPeer(req, t)) ELSE CreatePCPPeer(req, t)}
          [] ~ req.v6 /\ req.opcode = "MAP" ->
             {IF req.lifetime = 0 THEN at(DeletePCPMap(req, t)) ELSE CreatePCPMap(req, pfailure, t)}

\* more is what the answer has besides: an option, or the value for SADSCP
PcpReply(req, code, port, more) ==
    [op |-> "pcp", req |-> req, code |-> code, port |-> port,
     life |-> AnswerLife(code, req.lifetime), more |-> more]

\* MAP and PEER of processPCPRequest(), of either version
PcpMapOrPeer(req, t) ==
    LET x == PcpInfo(req)
        error == PcpError(x, req, t)
        asked == [req EXCEPT !.iaddr = x.mapped, !.lifetime = ClampLifetime(@)]
        bad(code) == Finish(Now, PcpReply(req, code, req.eport, <<>>))
    IN  IF req.size = "cut" THEN bad(PCP_ERR_MALFORMED_REQUEST)
        ELSE IF error # PCP_SUCCESS THEN bad(error)
        ELSE \E out \in PcpServe(asked, x.pfailure, t) :
                Finish(out.s, PcpReply(asked, out.code, out.port, [pfailure |-> x.pfailure]))

\* ProcessIncomingPCPPacket() and processPCPRequest(). A response, a packet of
\* less than three bytes and one from outside are dropped, and not requests here
Pcp(req, t) ==
    LET error(code) == Finish(Now, PcpReply(req, code, 0, <<>>))
    IN  /\ reply = NoReply
        /\ (Len(table) < MaxMaps /\ Len(peers) < MaxMaps) \/ req.lifetime = 0
        /\ IF req.size = "odd" THEN error(PCP_ERR_MALFORMED_REQUEST)
           ELSE IF req.version > 2 THEN error(PCP_ERR_UNSUPP_VERSION)
           ELSE CASE req.opcode \in {"MAP", "PEER"} -> PcpMapOrPeer(req, t)
                  [] req.opcode = "ANNOUNCE" /\ req.version = 2 -> error(PCP_SUCCESS)
                  [] req.opcode = "SADSCP" /\ req.version = 2 ->
                     Finish(Now, PcpReply(req, SadscpError(req), 0, DscpValue(req)))
                  [] OTHER -> error(PCP_ERR_UNSUPP_OPCODE)

-----------------------------------------------------------------------------
(***************************************************************************)
(* The IGD. A request of AddAnyPortMapping: [iaddr, good, own, proto,      *)
(* iport, eport, life]; own says that the client asks for itself.          *)
(***************************************************************************)
\* upnp_redirect(): a mapping of the same client is changed in its place
UpnpRedirect(s, req, eport, t) ==
    LET old == Find(s.table, eport, req.proto)
        m == Mapping(eport, req.proto, req.iaddr, req.iport, [by |-> "IGD", nonce |-> 0], req.life)
    IN  IF ~ CheckPermissions(perms, eport, req.iaddr, req.iport) THEN Out(s, -3)
        ELSE IF old # 0
        THEN IF s.table[old].iaddr # req.iaddr THEN Out(s, -2)
             ELSE IF t.add = "ok" THEN Out([s EXCEPT !.table[old] = m], 0) ELSE Out(s, -1)
        ELSE IF PortInUse(eport, req.proto, req.iaddr, req.iport) THEN Out(s, -4)
        ELSE RedirectInternal(s, m, t)

\* Mutant of AnyTried: the search ends before port 1
AnyTriedEarly(x) == x.below <= 2 /\ x.above = TopPort

AnyTried(x) == x.below <= 1 /\ x.above = TopPort

\* The next port of the search, +1, -1, +2, -2 ...
AnyMove(x) ==
    IF x.above = TopPort \/ (x.port > x.below /\ x.below > 1)
    THEN [x EXCEPT !.below = @ - 1, !.port = x.below - 1]
    ELSE [x EXCEPT !.above = @ + 1, !.port = x.above + 1]

AnyTry(x, allowed, req, t) ==
    LET y == AnyMove(x)
    IN  IF x.r \in {-1, 0, 1} THEN x
        ELSE IF AnyTried(x) THEN [x EXCEPT !.r = 1]
        ELSE IF y.port \notin allowed THEN y
        ELSE On(UpnpRedirect(y.s, req, y.port, t), LAMBDA out : [y EXCEPT !.s = out.s, !.r = out.r])

\* What AddAnyPortMapping does from the first port on
AnySearch(req, eport, t) ==
    LET allowed == PermittedExtPorts(perms, req.iaddr, req.iport)
        try(x, i) == AnyTry(x, allowed, req, t)
    IN  On(UpnpRedirect(Now, req, eport, t), LAMBDA out :
           Steps([s |-> out.s, r |-> out.r, port |-> eport, below |-> eport, above |-> eport],
                 TopPort + 1, try))

AnyReply(req, code, port) ==
    [op |-> "any", req |-> req, code |-> code, port |-> port, life |-> req.life]

\* AddAnyPortMapping(), with secure_mode: for port 0 any port is tried first
AddAnyPortMapping(req, eport, t) ==
    /\ reply = NoReply /\ Len(table) < MaxMaps
    /\ req.eport \in {0, eport}
    /\ IF ~ req.good \/ req.iport = 0 THEN Finish(Now, AnyReply(req, 402, 0))
       ELSE IF ~ req.own THEN Finish(Now, AnyReply(req, 606, 0))
       ELSE LET out == AnySearch(req, eport, t)
            IN  Finish(out.s, AnyReply(req, CASE out.r = 1 -> 728 [] out.r = 0 -> 0 [] OTHER -> 501,
                                       out.port))

NoEntries(code) == [op |-> "list", code |-> code, entries |-> <<>>]

\* GetGenericPortMappingEntry()
GetGenericPortMappingEntry(req) ==
    IF ~ req.good THEN NoEntries(402)
    ELSE IF req.index \notin DOMAIN table THEN NoEntries(713)
    ELSE [op |-> "list", code |-> 0, entries |-> <<table[req.index]>>]

\* GetListOfPortMappings(): the ports of the mappings in the range first, then
\* each of them is looked up, for as many entries as were asked for
GetListOfPortMappings(req) ==
    LET listed == SelectSeq(table, LAMBDA m : /\ m.proto = req.proto
                                              /\ req.start <= m.eport /\ m.eport <= req.end)
        entries == [i \in DOMAIN listed |-> table[Find(table, listed[i].eport, req.proto)]]
        number == IF req.number = 0 THEN 1000 ELSE req.number
    IN  IF ~ req.good THEN NoEntries(402)
        ELSE IF req.start > req.end THEN NoEntries(733)
        ELSE IF listed = <<>> THEN NoEntries(730)
        ELSE [op |-> "list", code |-> 0,
              entries |-> 
                SubSeq(entries, 1, IF number < Len(entries) THEN number ELSE Len(entries))]

List(req) ==
    /\ reply = NoReply
    /\ Finish(Now, IF req.what = "index" THEN GetGenericPortMappingEntry(req)
                   ELSE GetListOfPortMappings(req))

-----------------------------------------------------------------------------
\* The answer goes out
Send == /\ reply # NoReply
        /\ reply' = NoReply
        /\ UNCHANGED <<perms, used, third, table, peers, unsure>>

MsInit ==
    /\ perms \in {PermList(lines) : lines \in PermLists}
    /\ used \in InUse
    /\ third \in BOOLEAN
    /\ table = <<>> /\ peers = <<>>
    /\ unsure = FALSE
    /\ reply = NoReply

\* A bound: nothing goes wrong after a deletion that did
Trouble == IF unsure THEN {NoTrouble} ELSE Troubles

MsNext ==
    \/ \E req \in NatpmpRequests, t \in Trouble : Natpmp(req, t)
    \/ \E req \in PcpRequests, t \in Trouble : Pcp(req, t)
    \/ \E req \in AnyRequests, t \in Trouble, eport \in Ports \ {0} :
           AddAnyPortMapping(req, eport, t)
    \/ \E req \in Listings : List(req)
    \/ Send

MsSpec == MsInit /\ [][MsNext]_msvars

-----------------------------------------------------------------------------
(***************************************************************************)
(* Properties.                                                             *)
(***************************************************************************)
MapType == [eport : Ports \ {0}, proto : {"TCP", "UDP", "all"}, iaddr : Hosts, iport : Ports,
            desc : [by : {"NAT-PMP", "MAP", "IGD"}, nonce : Nat], life : Nat]

\* Every mapping has an external port that is not 0 and belongs to a host.
MsTypeOK ==
    /\ \A i \in DOMAIN table : table[i] \in MapType
    /\ \A i \in DOMAIN peers : peers[i].iaddr \in Hosts /\ peers[i].eport \in Ports
    /\ third \in BOOLEAN /\ unsure \in BOOLEAN

\* The answer grants an external port for a time
Grants ==
    \/ reply.op = "natpmp" /\ reply.code = 0 /\ reply.req.opcode \in {1, 2} /\ reply.life # 0
    \/ /\ reply.op = "pcp" /\ reply.code = 0 /\ reply.life # 0
       /\ reply.req.opcode = "MAP" /\ ~ reply.req.v6
    \/ reply.op = "any" /\ reply.code = 0

GrantedProto == IF reply.op = "natpmp" THEN NatpmpProto(reply.req.opcode) ELSE reply.req.proto

\* A port that is granted is mapped to the host and port of the request and to no
\* other, for the time that is answered, and is one the permissions allow: whichever
\* of the servers had it before, wherever the search began and whatever it met, as
\* long as no deletion failed. (PCP: and the time is within its limits.)
Granted ==
    Grants /\ ~ unsure =>
        /\ \E i \in DOMAIN table :
              /\ Own(table[i], reply.req) /\ table[i].life = reply.life
              /\ {j \in DOMAIN table : IsKey(table[j], reply.port, GrantedProto)} = {i}
        /\ CheckPermissions(perms, reply.port, reply.req.iaddr, reply.req.iport)
        /\ reply.op = "pcp" => MinLifetime <= reply.life /\ reply.life <= MaxLifetime

\* A port that a request could have had in the state before
Available(eport, proto, req) ==
    LET old == Find(table, eport, proto)
    IN  /\ CheckPermissions(perms, eport, req.iaddr, req.iport)
        /\ ~ PortInUse(eport, proto, req.iaddr, req.iport)
        /\ old = 0 \/ Own(table[old], req)

\* NAT-PMP and AddAnyPortMapping say that there is no port only when each of the
\* ports is denied, used or another's: the search leaves out none on its way
\* round.
NoneLeftOut ==
    [][\/ reply'.op = "natpmp" /\ reply'.req.version = 0 /\ reply'.req.opcode \in {1, 2}
            /\ reply'.req.lifetime # 0 /\ reply'.req.iport # 0 /\ reply'.code \in {2, 4}
       \/ reply'.op = "any" /\ reply'.code = 728
       => LET proto == IF reply'.op = "natpmp" THEN NatpmpProto(reply'.req.opcode)
                       ELSE reply'.req.proto
          IN  \A eport \in Ports \ {0} : ~ Available(eport, proto, reply'.req)]_msvars

\* Once NAT-PMP has answered a deletion, none of the mappings it was for is
\* there: the loop looks at every rule although rules go while it runs.
DeletesAll ==
    [][reply'.op = "natpmp" /\ reply'.code = 0 /\ reply'.req.version = 0 /\ ~ unsure'
         /\ reply'.req.opcode \in {1, 2} /\ reply'.req.lifetime = 0
       => \A i \in DOMAIN table' : ~ NatpmpMatches(table'[i], reply'.req)]_msvars

\* A request takes mappings from no host but the one it is for, and PCP deletes
\* one for no one who has not the nonce it was made with, unless a deletion has
\* failed before: then NAT-PMP may have given a port a second rule, and deleting
\* the second by its port takes the first. (PEER is left out: what it deletes goes
\* by the external port alone.)
OnlyOwnMaps ==
    [][\A i \in DOMAIN table :
          \/ \E j \in DOMAIN table' : table'[j] = table[i]
          \/ reply'.op = "pcp" /\ reply'.req.opcode = "PEER"
          \/ /\ reply'.req.iaddr = table[i].iaddr
             /\ reply'.op = "pcp" /\ reply'.req.lifetime = 0 /\ ~ unsure
                => table[i].desc = PcpDesc(reply'.req)
      ]_msvars

\* The table of ports that AddAnyPortMapping goes by, filled word by word from
\* the last rule to the first, has the ports that the rules allow one by one.
PermittedSame ==
    reply.op = "any" =>
        PermittedExtPorts(perms, reply.req.iaddr, reply.req.iport)
            = {eport \in Ports : CheckPermissions(perms, eport, reply.req.iaddr, reply.req.iport)}

=============================================================================
