------------------------------ MODULE DescGen ------------------------------
(***************************************************************************)
(* The descriptions of the device and of its services, and the values in   *)
(* events (upnpdescgen.c): XML made from tables that refer to each other   *)
(* by number, in a buffer that grows. What a build has of services depends *)
(* on its options, and so do the numbers. The other side of a service's    *)
(* description is the SOAP handler of each action (upnpsoap.c): what it    *)
(* reads of a request and what its response has. Attributes, and the       *)
(* random part that RANDOMIZE_URLS puts before paths, are left out.        *)
(*                                                                         *)
(* Elements are tokens. The name of a state variable is a pair of the      *)
(* beginning that the code looks for and the rest. Lengths, which matter   *)
(* for the buffer only, are small numbers.                                 *)
(***************************************************************************)
EXTENDS Integers, Sequences, Calls

CONSTANTS
    Builds,      \* options of the build: records of booleans v2, l3f, dummy, dp and six
    StackSize,   \* GENXML_STACK_SIZE
    Quantum,     \* by which a buffer grows: 256
    BufSize,     \* of a new buffer: 2048
    NameLen,     \* bound: the length of a name
    DataLens,    \* bound: the lengths of configured texts
    MaxGrow      \* bound: the number of the realloc() that may fail

ASSUME DescGenAssumption ==
    /\ {StackSize, Quantum, BufSize, NameLen} \subseteq Nat \ {0}
    /\ DataLens \subseteq Nat /\ MaxGrow \in Nat

VARIABLE desc   \* the last text that was made

-----------------------------------------------------------------------------
(***************************************************************************)
(* The buffer: len characters of size are in use. fail is the number of    *)
(* the growth that realloc() refuses: what was to be written then is left  *)
(* out, which drops counts. over says that something was written behind    *)
(* the end.                                                                *)
(***************************************************************************)
Buffer(fail) == [len |-> 1, size |-> BufSize, grown |-> 0, fail |-> fail, over |-> FALSE, drops |-> 0]

Refused(b) == b.grown + 1 = b.fail

Room(b, n, more) == IF b.size > b.len + n THEN b ELSE [b EXCEPT !.size = @ + more, !.grown = @ + 1]

\* strcat_str(): n characters and the zero after them
StrcatStr(b, n) ==
    IF b.size <= b.len + n /\ Refused(b) THEN [b EXCEPT !.grown = @ + 1, !.drops = @ + 1]
    ELSE LET c == Room(b, n, IF n < Quantum THEN Quantum ELSE n + 1)
         IN  [c EXCEPT !.len = @ + n, !.over = @ \/ c.len + n + 1 > c.size]

\* strcat_char()
StrcatChar(b) ==
    IF b.size <= b.len + 1 /\ Refused(b) THEN [b EXCEPT !.grown = @ + 1, !.drops = @ + 1]
    ELSE LET c == Room(b, 1, Quantum) IN [c EXCEPT !.len = @ + 1, !.over = @ \/ c.len + 1 > c.size]

Tag(b, n) == StrcatChar(StrcatStr(StrcatChar(b), n))

\* The tag at the end of a node, character by character
EndTag(b) == Steps(b, NameLen + 3, LAMBDA c, k : StrcatChar(c))

-----------------------------------------------------------------------------
(***************************************************************************)
(* The table of the root description. A node has its children at the       *)
(* numbers first .. first + n - 1, counted from 0; a leaf has a text, and  *)
(* all texts of one device or service have its name as owner.              *)
(***************************************************************************)
Node(name, first, n) == << [name |-> name, kind |-> "node", first |-> first, n |-> n] >>
Leaf(owner, name) == << [name |-> name, kind |-> "leaf", owner |-> owner] >>
End == << [kind |-> "end"] >>

Leaves(owner, names) == FlattenSeq([i \in 1 .. Len(names) |-> Leaf(owner, names[i])])

DeviceTexts == <<"deviceType", "friendlyName", "manufacturer", "manufacturerURL",
                 "modelDescription", "modelName", "modelNumber", "modelURL", "serialNumber", "UDN">>
ServiceTexts == <<"serviceType", "serviceId", "SCPDURL", "controlURL", "eventSubURL">>

If(cond, list) == IF cond THEN list ELSE <<>>

\* The services of the root device, in the order of their texts
RootServices(b) == If(b.dummy, <<"Dummy">>) \o If(b.l3f, <<"L3F">>) \o If(b.dp, <<"DP">>)

\* Mutant of ServicesOffset: the texts of WANIPv6FirewallControl are not counted
ServicesOffsetSame(b) == 58

\* SERVICES_OFFSET
ServicesOffset(b) == IF b.six THEN 63 ELSE 58

\* rootDesc
RootDesc(b) ==
    LET n   == Len(RootServices(b))
        off == ServicesOffset(b)
    IN  Node("root", 1, 2) \o Node("specVersion", 3, 2) \o Node("device", 5, IF n > 0 THEN 13 ELSE 12)
        \o Leaves("upnp", <<"major", "minor">>) \o Leaves("IGD", DeviceTexts)
        \o If(n > 0, Node("serviceList", off, n))
        \o Node("deviceList", 18, 1) \o Leaf("IGD", "presentationURL") \o If(n = 0, End)
        \o Node("device", 19, 13) \o Leaves("WAN", DeviceTexts \o <<"UPC">>)
        \o Node("serviceList", 32, 1) \o Node("deviceList", 38, 1)
        \o Node("service", 33, 5) \o Leaves("WANCfg", ServiceTexts)
        \o Node("device", 39, 12) \o Leaves("WANC", DeviceTexts \o <<"UPC">>)
        \o Node("serviceList", 51, IF b.six THEN 2 ELSE 1)
        \o Node("service", 53, 5) \o Node("service", 58, 5)
        \o Leaves("WANIPC", ServiceTexts) \o If(b.six, Leaves("6FC", ServiceTexts))
        \o If(n > 0, Node("service", off + 2, 5) \o Node("service", off + 7, 5))
        \o FlattenSeq([i \in 1 .. n |-> Leaves(RootServices(b)[i], ServiceTexts)]) \o End

-----------------------------------------------------------------------------
\* The types that FORCEIGDDESCV1 makes those of version 1 again
Versioned(e) == e.name = "deviceType" \/ (e.name = "serviceType" /\ e.owner = "WANIPC")

Version(e, b, force) == IF ~ Versioned(e) THEN 0 ELSE IF b.v2 /\ ~ force THEN 2 ELSE 1

\* What becomes of an element of which a piece was left out
Torn == <<"torn">>

\* The text goes on with an element, and the buffer is buf then
Emit(s, elt, buf) ==
    [s EXCEPT !.buf = buf, !.out = Append(@, IF buf.drops = s.buf.drops THEN elt ELSE Torn)]

\* A leaf, which is left out if it has no text
LeafOut(s, e) ==
    IF s.dlen = 0 THEN s
    ELSE Emit(s, <<"text", e.owner, e.name, Version(e, s.build, s.force)>>,
              Tag(StrcatStr(Tag(s.buf, NameLen), s.dlen), NameLen + 1))

\* The end of a node
EndOut(s, p) == Emit(s, <<"end", p.name>>, EndTag(s.buf))

\* After a leaf: the innermost list that has more elements goes on with the next
\* one, and those inside it end
Onward(s) ==
    LET more == {l \in 1 .. Len(s.pile) : s.pile[l].i + 1 # s.pile[l].j}
        top  == IF more = {} THEN 0 ELSE CHOOSE l \in more : \A m \in more : m <= l
        n    == Len(s.pile)
        t    == Steps(s, n - top, LAMBDA u, k : EndOut(u, s.pile[n + 1 - k]))
    IN  [t EXCEPT !.pile = [l \in 1 .. top |-> IF l = top THEN [@[l] EXCEPT !.i = @ + 1] ELSE @[l]],
                  !.i = IF top = 0 THEN @ ELSE s.pile[top].i + 1,
                  !.done = top = 0]

\* A node: its children are next
Into(s, e) ==
    [Emit(s, <<"begin", e.name>>, Tag(s.buf, NameLen)) EXCEPT
        !.i = e.first,
        !.pile = IF Len(@) = StackSize THEN @
                 ELSE Append(@, [i |-> e.first, j |-> e.first + e.n, name |-> e.name])]

\* A turn of the loop of genXML()
GenXML(s, table) ==
    LET e == table[s.i + 1]
    IN  CASE s.done                          -> s
          [] ~ s.done /\ e.kind = "end"      -> [s EXCEPT !.done = TRUE]
          [] ~ s.done /\ e.kind = "leaf"     -> Onward(LeafOut(s, e))
          [] ~ s.done /\ e.kind = "node"     -> Into(s, e)

\* genRootDesc(). No description has more elements than its table has entries.
GenRootDesc ==
    \E b \in Builds, dlen \in DataLens, fail \in 0 .. MaxGrow, force \in BOOLEAN :
      \E table \in {RootDesc(b)} :
        LET start == [build |-> b, force |-> force, dlen |-> dlen, buf |-> Buffer(fail), i |-> 0,
                      pile |-> <<>>, out |-> <<>>, done |-> FALSE]
        IN  \E last \in {Steps(start, Len(table) + 1,
                                LAMBDA s, k : On(s, LAMBDA t : GenXML(t, table)))} :
              desc' = [what |-> "root", build |-> b, force |-> force, dlen |-> dlen,
                       out |-> last.out, buf |-> last.buf, done |-> last.done]

-----------------------------------------------------------------------------
(***************************************************************************)
(* The tables of the services. A variable has a name, a type, whether it   *)
(* is in events, the numbers of its default and of its allowed values or   *)
(* range, and what its value in an event is: a number of an allowed value, *)
(* or a name for the ones that are worked out.                             *)
(***************************************************************************)
Fixed(n) == <<"fixed", n>>
Magical(what) == <<"magical", what>>

Var(pre, rest, type, default, allowed) ==
    << [name |-> <<pre, rest>>, type |-> type, events |-> FALSE, default |-> default,
        allowed |-> allowed, value |-> Fixed(0)] >>

Evented(var, value) == << [var[1] EXCEPT !.events = TRUE, !.value = value] >>

Null == "(null)"
UpnpDefaultValues == <<"IP_Routed", "3600", "Unconfigured", "0", "1", "ERROR_NONE">>
UpnpAllowedValues == <<"DSL", "POTS", "Cable", "Ethernet", Null, "Up", "Down", "Initializing",
    "Unavailable", Null, "TCP", "UDP", Null, "Unconfigured", "IP_Routed", "IP_Bridged", Null,
    "Unconfigured", "Connecting", "Connected", "PendingDisconnect", "Disconnecting",
    "Disconnected", Null, "ERROR_NONE", Null, "", Null>>
UpnpAllowedRanges == <<0, 604800, 1, 65535, 1, 86400, 100, 200>>

MagicArgName(b) ==
    <<"StartPort", "EndPort", "RemoteHost", "RemotePort", "InternalClient", "InternalPort",
      "IsWorking">>
    \o If(b.dp, <<"ProtocolType", "InMessage", "OutMessage", "ProtocolList", "RoleList">>)

WANIPCnVars(b) ==
    Var("", "ConnectionType", "string", 1, 0)
    \o Evented(Var("", "PossibleConnectionTypes", "string", 0, 14), Fixed(15))
    \o Evented(Var("", "ConnectionStatus", "string", 3, 18), Magical("status"))
    \o Var("", "Uptime", "ui4", 0, 0) \o Var("", "LastConnectionError", "string", 6, 25)
    \o Var("", "RSIPAvailable", "boolean", 4, 0) \o Var("", "NATEnabled", "boolean", 5, 0)
    \o Evented(Var("", "ExternalIPAddress", "string", 0, 0), Magical("address"))
    \o Evented(Var("PortMapping", "NumberOfEntries", "ui2", 0, 0), Magical("entries"))
    \o Var("PortMapping", "Enabled", "boolean", 0, 0)
    \o Var("PortMapping", "LeaseDuration", "ui4", 2, 1) \o Var("", "RemoteHost", "string", 0, 0)
    \o Var("", "ExternalPort", "ui2", 0, 0) \o Var("", "InternalPort", "ui2", 0, 3)
    \o Var("PortMapping", "Protocol", "string", 0, 11) \o Var("", "InternalClient", "string", 0, 0)
    \o Var("PortMapping", "Description", "string", 0, 0)
    \o If(b.v2, Evented(Var("", "SystemUpdateID", "ui4", 0, 0), Magical("update"))
                \o Var("A_ARG_TYPE_", "Manage", "boolean", 0, 0)
                \o Var("A_ARG_TYPE_", "PortListing", "string", 0, 0))

WANCfgVars ==
    Var("", "WANAccessType", "string", 0, 1) \o Var("", "Layer1UpstreamMaxBitRate", "ui4", 0, 0)
    \o Var("", "Layer1DownstreamMaxBitRate", "ui4", 0, 0)
    \o Evented(Var("", "PhysicalLinkStatus", "string", 0, 6), Fixed(6))
    \o Var("", "TotalBytesSent", "ui4", 0, 0) \o Var("", "TotalBytesReceived", "ui4", 0, 0)
    \o Var("", "TotalPacketsSent", "ui4", 0, 0) \o Var("", "TotalPacketsReceived", "ui4", 0, 0)

L3FVars == Evented(Var("", "DefaultConnectionService", "string", 0, 0), Magical("service"))

IPv6FCVars ==
    Evented(Var("", "FirewallEnabled", "boolean", 0, 0), Magical("enabled"))
    \o Var("A_ARG_TYPE_", "IPv6Address", "string", 0, 0) \o Var("A_ARG_TYPE_", "Port", "ui2", 0, 0)
    \o Var("A_ARG_TYPE_", "Protocol", "ui2", 0, 0) \o Var("A_ARG_TYPE_", "UniqueID", "ui2", 0, 0)
    \o Var("A_ARG_TYPE_", "LeaseTime", "ui4", 0, 5)
    \o Evented(Var("", "InboundPinholeAllowed", "boolean", 0, 0), Magical("inbound"))
    \o Var("A_ARG_TYPE_", "OutboundPinholeTimeout", "ui4", 0, 7)
    \o Var("A_ARG_TYPE_", "Boolean", "boolean", 0, 0)
    \o Var("A_ARG_TYPE_", "PinholePackets", "ui4", 0, 0)

DPVars ==
    Evented(Var("", "SetupReady", "boolean", 0, 0), Magical("ready"))
    \o Var("", "SupportedProtocols", "string", 0, 0) \o Var("A_ARG_TYPE_", "ACL", "string", 0, 0)
    \o Var("A_ARG_TYPE_", "IdentityList", "string", 0, 0)
    \o Var("A_ARG_TYPE_", "Identity", "string", 0, 0)
    \o Var("A_ARG_TYPE_", "Base64", "bin.base64", 0, 0)
    \o Var("A_ARG_TYPE_", "String", "string", 0, 0)

\* An argument has the number of a magic name, or 0, and that of its variable
Arg(dir, bare, x) == [dir |-> dir, bare |-> bare, magic |-> x[1], var |-> x[2]]
Plainly(nums) == [i \in 1 .. Len(nums) |-> <<0, nums[i]>>]
Action(name, in, out) ==
    << [name |-> name, args |-> [i \in 1 .. Len(in) |-> Arg("in", FALSE, in[i])]
                                \o [i \in 1 .. Len(out) |-> Arg("out", FALSE, out[i])]] >>

\* The same without "New"
BareAction(name, in, out) ==
    << [name |-> name, args |-> [i \in 1 .. Len(in) |-> Arg("in", TRUE, in[i])]
                                \o [i \in 1 .. Len(out) |-> Arg("out", TRUE, out[i])]] >>

WANIPCnActions(b) ==
    Action("SetConnectionType", Plainly(<<0>>), <<>>)
    \o Action("GetConnectionTypeInfo", <<>>, Plainly(<<0, 1>>))
    \o Action("RequestConnection", <<>>, <<>>) \o Action("ForceTermination", <<>>, <<>>)
    \o Action("GetStatusInfo", <<>>, Plainly(<<2, 4, 3>>))
    \o Action("GetNATRSIPStatus", <<>>, Plainly(<<5, 6>>))
    \o Action("GetGenericPortMappingEntry", Plainly(<<8>>), Plainly(<<11, 12, 14, 13, 15, 9, 16, 10>>))
    \o Action("GetSpecificPortMappingEntry", Plainly(<<11, 12, 14>>), Plainly(<<13, 15, 9, 16, 10>>))
    \o Action("AddPortMapping", Plainly(<<11, 12, 14, 13, 15, 9, 16, 10>>), <<>>)
    \o Action("DeletePortMapping", Plainly(<<11, 12, 14>>), <<>>)
    \o Action("GetExternalIPAddress", <<>>, Plainly(<<7>>))
    \o If(b.v2,
          Action("DeletePortMappingRange", << <<1, 12>>, <<2, 12>>, <<0, 14>>, <<0, 18>> >>, <<>>)
          \o Action("GetListOfPortMappings",
                    << <<1, 12>>, <<2, 12>>, <<0, 14>>, <<0, 18>>, <<0, 8>> >>, Plainly(<<19>>))
          \o Action("AddAnyPortMapping", Plainly(<<11, 12, 14, 13, 15, 9, 16, 10>>), Plainly(<<12>>)))

WANCfgActions ==
    Action("GetCommonLinkProperties", <<>>, Plainly(<<0, 1, 2, 3>>))
    \o Action("GetTotalBytesSent", <<>>, Plainly(<<4>>))
    \o Action("GetTotalBytesReceived", <<>>, Plainly(<<5>>))
    \o Action("GetTotalPacketsSent", <<>>, Plainly(<<6>>))
    \o Action("GetTotalPacketsReceived", <<>>, Plainly(<<7>>))

L3FActions == Action("SetDefaultConnectionService", Plainly(<<0>>), <<>>)
              \o Action("GetDefaultConnectionService", <<>>, Plainly(<<0>>))

\* Of UpdatePinhole() one argument has "New" and the other has not
IPv6FCActions ==
    LET flow == << <<3, 1>>, <<4, 2>>, <<5, 1>>, <<6, 2>>, <<0, 3>> >>
    IN  BareAction("GetFirewallStatus", <<>>, Plainly(<<0, 6>>))
        \o BareAction("GetOutboundPinholeTimeout", flow, Plainly(<<7>>))
        \o BareAction("AddPinhole", flow \o Plainly(<<5>>), Plainly(<<4>>))
        \o << [name |-> "UpdatePinhole",
               args |-> << Arg("in", TRUE, <<0, 4>>), Arg("in", FALSE, <<0, 5>>) >>] >>
        \o BareAction("DeletePinhole", Plainly(<<4>>), <<>>)
        \o BareAction("GetPinholePackets", Plainly(<<4>>), Plainly(<<9>>))
        \o BareAction("CheckPinholeWorking", Plainly(<<4>>), << <<7, 8>> >>)

DPActions ==
    BareAction("SendSetupMessage", << <<8, 6>>, <<9, 5>> >>, << <<10, 5>> >>)
    \o BareAction("GetSupportedProtocols", <<>>, << <<11, 1>> >>)
    \o BareAction("GetAssignedRoles", <<>>, << <<12, 6>> >>)

\* The services that a build describes
Scpds(b) ==
    <<[acts |-> WANIPCnActions(b), vars |-> WANIPCnVars(b)], [acts |-> WANCfgActions, vars |-> WANCfgVars]>>
    \o If(b.l3f, << [acts |-> L3FActions, vars |-> L3FVars] >>)
    \o If(b.six, << [acts |-> IPv6FCActions, vars |-> IPv6FCVars] >>)
    \o If(b.dp, << [acts |-> DPActions, vars |-> DPVars] >>)

-----------------------------------------------------------------------------
\* Mutant of Shortened: the description of a mapping loses "PortMapping" too
ShortenedAll(name) == name[1] = "PortMapping" /\ name[2] # "NumberOfEntries"

\* The names that lose their beginning
Shortened(name) ==
    name[1] = "PortMapping" /\ name[2] \notin {"NumberOfEntries", "Description"}

\* The name of an argument, from that of its variable. What the code has for the port that
\* AddAnyPortMapping answers with asks for 13 characters of "ExternalPort", which has 12
\* (upnpdescgen.c:1105), and is never reached.
ArgName(b, act, arg, vars) ==
    LET name == vars[arg.var + 1].name
        base == CASE arg.magic # 0 -> <<"", MagicArgName(b)[arg.magic]>>
                  [] arg.magic = 0 /\ name = <<"PortMapping", "NumberOfEntries">> ->
                     IF b.v2 /\ act = "GetListOfPortMappings" THEN <<"", "NumberOfPorts">>
                     ELSE <<"PortMapping", "Index">>
                  [] arg.magic = 0 /\ Shortened(name) -> <<"", name[2]>>
                  [] arg.magic = 0 /\ b.v2 /\ name[1] = "A_ARG_TYPE_" -> <<"", name[2]>>
                  [] OTHER -> name
    IN  <<IF arg.bare THEN "" ELSE "New", base[1], base[2]>>

DescribedAction(b, act, vars) ==
    [name |-> act.name,
     args |-> [j \in 1 .. Len(act.args) |->
                 [name |-> ArgName(b, act.name, act.args[j], vars), dir |-> act.args[j].dir,
                  var |-> vars[act.args[j].var + 1].name]]]

\* The allowed values from a number on, up to the next null
ValuesFrom(j) ==
    LET n == CHOOSE n \in j .. Len(UpnpAllowedValues) :
                /\ UpnpAllowedValues[n] = Null
                /\ \A m \in j .. n - 1 : UpnpAllowedValues[m] # Null
    IN  {UpnpAllowedValues[m] : m \in j .. n - 1}

DescribedVar(v) ==
    [name |-> v.name, events |-> v.events, type |-> v.type,
     default |-> IF v.default = 0 THEN Null ELSE UpnpDefaultValues[v.default],
     values |-> IF v.type = "string" /\ v.allowed # 0 THEN ValuesFrom(v.allowed) ELSE {},
     range |-> IF v.type = "string" \/ v.allowed = 0 THEN <<>>
               ELSE <<UpnpAllowedRanges[v.allowed], UpnpAllowedRanges[v.allowed + 1]>>]

\* genServiceDesc()
GenServiceDesc ==
    \E b \in Builds : \E i \in 1 .. Len(Scpds(b)) :
        LET s == Scpds(b)[i]
        IN  desc' = [what |-> "service", build |-> b,
                     acts |-> [k \in 1 .. Len(s.acts) |-> DescribedAction(b, s.acts[k], s.vars)],
                     vars |-> [k \in 1 .. Len(s.vars) |-> DescribedVar(s.vars[k])]]

\* The value of a variable in an event; get_wan_connection_status() is one of six
EventValue(v, status) ==
    CASE v.value = Magical("status")                     -> UpnpAllowedValues[18 + status]
      [] v.value[1] = "fixed" /\ v.value # Fixed(0)      -> UpnpAllowedValues[v.value[2]]
      [] v.value = Fixed(0)                              -> ""
      [] v.value[1] = "magical" /\ v.value[2] # "status" -> v.value[2]

\* genEventVars()
GenEventVars ==
    \E b \in Builds, status \in 0 .. 5 : \E i \in 1 .. Len(Scpds(b)) :
        LET s    == Scpds(b)[i]
            sent == SelectSeq(s.vars, LAMBDA v : v.events)
        IN  desc' = [what |-> "event", vars |-> [k \in 1 .. Len(s.vars) |-> DescribedVar(s.vars[k])],
                     props |-> [k \in 1 .. Len(sent) |-> <<sent[k].name, EventValue(sent[k], status)>>]]

DInit == desc = [what |-> "none"]

DNext == desc.what = "none" /\ (GenRootDesc \/ GenServiceDesc \/ GenEventVars)

DSpec == DInit /\ [][DNext]_desc

-----------------------------------------------------------------------------
(***************************************************************************)
(* The handlers of upnpsoap.c: the arguments that each reads, and the      *)
(* elements of its response.                                               *)
(***************************************************************************)
Handler(name, reads, writes) == [name |-> name, reads |-> reads, writes |-> writes]
WithNew(names) == [i \in 1 .. Len(names) |-> <<"New", "", names[i]>>]
Bare(names) == [i \in 1 .. Len(names) |-> <<"", "", names[i]>>]

NewDescription == <<"New", "PortMapping", "Description">>
EntryTexts == WithNew(<<"InternalPort", "InternalClient", "Enabled">>)
              \o <<NewDescription>> \o WithNew(<<"LeaseDuration">>)
MappingTexts == WithNew(<<"InternalClient", "RemoteHost", "InternalPort", "ExternalPort", "Protocol">>)
                \o <<NewDescription>> \o WithNew(<<"LeaseDuration">>)
PinholeTexts == Bare(<<"RemoteHost", "RemotePort", "InternalClient", "InternalPort", "Protocol">>)

\* soapMethods
SoapMethods(b) ==
    {Handler("GetTotalBytesSent", <<>>, WithNew(<<"TotalBytesSent">>)),
     Handler("GetTotalBytesReceived", <<>>, WithNew(<<"TotalBytesReceived">>)),
     Handler("GetTotalPacketsSent", <<>>, WithNew(<<"TotalPacketsSent">>)),
     Handler("GetTotalPacketsReceived", <<>>, WithNew(<<"TotalPacketsReceived">>)),
     Handler("GetCommonLinkProperties", <<>>,
             WithNew(<<"WANAccessType", "Layer1UpstreamMaxBitRate", "Layer1DownstreamMaxBitRate",
                   "PhysicalLinkStatus">>)),
     Handler("GetStatusInfo", <<>>, WithNew(<<"ConnectionStatus", "LastConnectionError", "Uptime">>)),
     Handler("GetConnectionTypeInfo", <<>>, WithNew(<<"ConnectionType", "PossibleConnectionTypes">>)),
     Handler("GetNATRSIPStatus", <<>>, WithNew(<<"RSIPAvailable", "NATEnabled">>)),
     Handler("GetExternalIPAddress", <<>>, WithNew(<<"ExternalIPAddress">>)),
     Handler("AddPortMapping", MappingTexts, <<>>),
     Handler("DeletePortMapping", WithNew(<<"ExternalPort", "Protocol", "RemoteHost">>), <<>>),
     Handler("GetGenericPortMappingEntry", << <<"New", "PortMapping", "Index">> >>,
             WithNew(<<"RemoteHost", "ExternalPort", "Protocol">>) \o EntryTexts),
     Handler("GetSpecificPortMappingEntry", WithNew(<<"RemoteHost", "ExternalPort", "Protocol">>),
             EntryTexts),
     Handler("SetConnectionType", WithNew(<<"ConnectionType">>), <<>>),
     Handler("RequestConnection", <<>>, <<>>), Handler("ForceTermination", <<>>, <<>>),
     Handler("AddAnyPortMapping", MappingTexts, WithNew(<<"ReservedPort">>)),
     Handler("DeletePortMappingRange", WithNew(<<"StartPort", "EndPort", "Protocol">>), <<>>),
     Handler("GetListOfPortMappings", WithNew(<<"StartPort", "EndPort", "Protocol", "NumberOfPorts">>),
             WithNew(<<"PortListing">>))}
    \cup (IF b.l3f
          THEN {Handler("SetDefaultConnectionService", WithNew(<<"DefaultConnectionService">>), <<>>),
                Handler("GetDefaultConnectionService", <<>>, WithNew(<<"DefaultConnectionService">>))}
          ELSE {})
    \cup (IF b.six
          THEN {Handler("GetFirewallStatus", <<>>, Bare(<<"FirewallEnabled", "InboundPinholeAllowed">>)),
                Handler("AddPinhole", PinholeTexts \o Bare(<<"LeaseTime">>), Bare(<<"UniqueID">>)),
                Handler("UpdatePinhole", Bare(<<"UniqueID">>) \o WithNew(<<"LeaseTime">>), <<>>),
                Handler("GetOutboundPinholeTimeout", PinholeTexts, Bare(<<"OutboundPinholeTimeout">>)),
                Handler("DeletePinhole", Bare(<<"UniqueID">>), <<>>),
                Handler("CheckPinholeWorking", Bare(<<"UniqueID">>), Bare(<<"IsWorking">>)),
                Handler("GetPinholePackets", Bare(<<"UniqueID">>), Bare(<<"PinholePackets">>))}
          ELSE {})
    \cup (IF b.dp
          THEN {Handler("SendSetupMessage", Bare(<<"ProtocolType", "InMessage">>), Bare(<<"OutMessage">>)),
                Handler("GetSupportedProtocols", <<>>, Bare(<<"ProtocolList">>)),
                Handler("GetAssignedRoles", <<>>, Bare(<<"RoleList">>))}
          ELSE {})

-----------------------------------------------------------------------------
\* The description as a tree: what a reader of the standard would write
El(name, inside) == << <<"begin", name>> >> \o inside \o << <<"end", name>> >>

Texts(owner, names) ==
    [i \in 1 .. Len(names) |->
        <<"text", owner, names[i],
          Version([owner |-> owner, name |-> names[i]], desc.build, desc.force)>>]

ServiceList(names) ==
    If(names # <<>>, El("serviceList", FlattenSeq([i \in 1 .. Len(names) |->
                                          El("service", Texts(names[i], ServiceTexts))])))

TreeOf(b) ==
    LET upc  == DeviceTexts \o <<"UPC">>
        wanc == El("device", Texts("WANC", upc)
                             \o ServiceList(<<"WANIPC">> \o If(b.six, <<"6FC">>)))
        wan  == El("device", Texts("WAN", upc) \o ServiceList(<<"WANCfg">>) \o El("deviceList", wanc))
    IN  El("root", El("specVersion", Texts("upnp", <<"major", "minor">>))
                   \o El("device", Texts("IGD", DeviceTexts) \o ServiceList(RootServices(b))
                                   \o El("deviceList", wan) \o Texts("IGD", <<"presentationURL">>)))

\* Whatever services are built in, the root description is the whole tree of devices
\* and services, each of them once with its own texts and every element closed, although
\* it comes from a flat table whose numbers the options move. A realloc() that fails tears
\* one element and no more: the rest of the tree is there, in its place. No text, however
\* long, is written behind the end of the buffer, also after such a failure.
DescribedWhole ==
    desc.what = "root" =>
        /\ ~ desc.buf.over /\ desc.buf.len < desc.buf.size
        /\ desc.done
        /\ desc.dlen # 0 =>
              LET tree == TreeOf(desc.build)
              IN  /\ Len(desc.out) = Len(tree)
                  /\ LET torn == {i \in 1 .. Len(tree) : desc.out[i] # tree[i]}
                     IN  /\ \A i \in torn : desc.out[i] = Torn
                         /\ Cardinality(torn) = desc.buf.drops /\ desc.buf.drops <= 1

OutNames(act) ==
    LET args == SelectSeq(act.args, LAMBDA a : a.dir = "out")
    IN  [k \in 1 .. Len(args) |-> args[k].name]

\* The comment in the table calls the port that AddAnyPortMapping answers with
\* "NewReservedPort / ExternalPort" (upnpdescgen.c:356), and this is the name that its
\* handler writes: that it is the described one too.
ReservedPortDescribed ==
    desc.what = "service" =>
        \A i \in 1 .. Len(desc.acts) :
            desc.acts[i].name = "AddAnyPortMapping" =>
                OutNames(desc.acts[i]) = WithNew(<<"ReservedPort">>)

\* What a service describes is what its handlers do: every action has a handler, which
\* reads no argument but those that go in under this name, and whose response has the
\* ones that come out, in their order (the port of AddAnyPortMapping apart, see
\* ReservedPortDescribed); a default, and the value in an event, is one of those that
\* are allowed; what is in events is sent.
SignaturesSame ==
    /\ desc.what = "service" =>
        \A i \in 1 .. Len(desc.acts) :
            LET act == desc.acts[i]
            IN  \E h \in SoapMethods(desc.build) :
                    /\ h.name = act.name
                    /\ \A k \in 1 .. Len(h.reads) :
                          \E a \in ToSet(act.args) : a.dir = "in" /\ a.name = h.reads[k]
                    /\ Len(h.writes) = Len(OutNames(act))
                    /\ h.writes = OutNames(act) \/ act.name = "AddAnyPortMapping"
    /\ desc.what = "service" =>
        \A i \in 1 .. Len(desc.vars) :
            LET v == desc.vars[i]
            IN  /\ v.default # Null /\ v.values # {} => v.default \in v.values
                /\ v.range # <<>> => v.range[1] <= v.range[2]
    /\ desc.what = "event" =>
        \A i \in 1 .. Len(desc.vars) :
            LET v == desc.vars[i]
                sent == {p \in ToSet(desc.props) : p[1] = v.name}
            IN  v.events => /\ sent # {}
                            /\ v.values # {} => \A p \in sent : p[2] \in v.values

=============================================================================
