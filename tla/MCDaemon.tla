------------------------------ MODULE MCDaemon ------------------------------
(***************************************************************************)
(* Parts of the daemon that share no state, checked one by one in one run: *)
(* a behaviour is one of the part that it starts with, and the variables   *)
(* of the others keep their first value.                                   *)
(***************************************************************************)
EXTENDS Pinholes, HttpServer, MainLoop

CONSTANTS c1, c2, r1    \* two hosts of the network, one outside

VARIABLE part

-----------------------------------------------------------------------------
\* Pinholes: for two hosts, for a remote host and port, and such as AddPinhole
\* refuses
MCHole(raddr, rport, iaddr, iport, proto) ==
    [raddr |-> raddr, rport |-> rport, iaddr |-> iaddr, iport |-> iport, proto |-> proto]

SomeHoles ==
    {MCHole(0, 0, c, 1024, "TCP") : c \in {c1, c2}}
    \cup {MCHole(r1, 7, c1, 1024, "TCP"), MCHole(0, 0, c1, 80, "TCP"),
          MCHole(0, 0, c1, 1024, "any")}

\* Requests: all that the HTTP server tells apart
Req(cmd, url, host, len, soap, arg, expect, cb, sid) ==
    [cmd |-> cmd, url |-> url, host |-> host, len |-> len, soap |-> soap, arg |-> arg,
     expect |-> expect, cb |-> cb, sid |-> sid]

Post(len, soap, arg, expect) == Req("POST", "ctl", "ip", len, soap, arg, expect, <<>>, "none")
Ask(cmd, url, host, cb, sid) == Req(cmd, url, host, 0, "none", "none", FALSE, cb, sid)

SomeRequests ==
    {Post(len, soap, "good", e) :
        len \in {-1, 0, 1, 2}, soap \in {"none", "GetStatusInfo"}, e \in BOOLEAN}
    \cup {Post(1, soap, arg, FALSE) :
            soap \in {"QueryStateVariable", "SetDefaultConnectionService", "SendSetupMessage",
                      "GetExternalIPAddress", "SetConnectionType", "RequestConnection", "Other"},
            arg \in {"none", "bad", "good"}}
    \cup {Ask("GET", url, host, <<>>, "none") :
            url \in {"desc", "ctl", "evt", "other"}, host \in {"ip", "name"}}
    \cup {Ask("SUBSCRIBE", url, "ip", cb, sid) :
            url \in {"evt", "other"}, cb \in {<<>>, <<"own">>, <<"bad", "own">>, <<"other">>},
            sid \in {"none", "known"}}
    \cup {Ask("UNSUBSCRIBE", "evt", "ip", <<>>, sid) : sid \in {"none", "known"}}
    \cup {Ask("HEAD", "desc", "ip", <<>>, "none")}

SomeServices == << [dev |-> FALSE] >>

\* What comes to the SSDP socket
SomePackets == {[lan |-> FALSE, kind |-> "M-SEARCH", st |-> "uuid"],
                [lan |-> TRUE, kind |-> "NOTIFY", st |-> "none"],
                [lan |-> TRUE, kind |-> "M-SEARCH", st |-> "uuid"]}

-----------------------------------------------------------------------------
mcvars == <<part, phvars, hvars, lvars>>

Init ==
    /\ part \in {"pinholes", "http", "loop", "signals"}
    /\ PhInit /\ HInit /\ LInit
    /\ part # "pinholes" => phKind = "ipt"
    /\ part # "loop" => phase = 0 /\ requests = 0 /\ intr = 0
    /\ part = "loop" => requests = MaxRequests /\ intr = MaxIntr
    /\ part # "signals" => ~ stun

Next ==
    /\ UNCHANGED part
    /\ \/ part = "pinholes" /\ PhNext /\ UNCHANGED <<hvars, lvars>>
       \/ part = "http" /\ HNext /\ UNCHANGED <<phvars, lvars>>
       \/ part = "loop" /\ LNext /\ addr' <= 1 /\ UNCHANGED <<phvars, hvars>>
       \/ part = "signals" /\ LNext /\ UNCHANGED <<phvars, hvars>>

Looping == part \in {"loop", "signals"}

\* HFair and LFair, each in the behaviours of its part
Fair ==
    /\ WF_hvars(part = "http" /\ Process) /\ WF_hvars(part = "http" /\ Delete)
    /\ WF_hvars(part = "http" /\ PeerReads) /\ WF_hvars(part = "http" /\ PeerSends)
    /\ WF_lvars(Looping /\ Loop) /\ WF_lvars(Looping /\ PassTick) /\ WF_lvars(Looping /\ Unblock)

Spec == Init /\ [][Next]_mcvars /\ Fair

=============================================================================
