-------------------------------- MODULE Stun --------------------------------
(***************************************************************************)
(* The STUN client (upnpstun.c) and what the daemon makes of its result.   *)
(* Four requests go to the server from four sockets; request i asks it to  *)
(* answer from another address (i \div 2) and another port (i % 2). A      *)
(* router between them may change addresses and ports and may let only     *)
(* some of the answers in. Datagrams are lost, doubled and late, and other *)
(* datagrams come to the same sockets.                                     *)
(***************************************************************************)
EXTENDS Integers, Sequences, FiniteSets, Calls

CONSTANTS
    Nats,        \* what may be between the daemon and the server, see NatType
    Styles,      \* the attributes of answers: sequences of attributes, see Attributes
    Rounds,      \* how often requests are sent: 3
    WaitTime,    \* ticks to wait for answers, 3 seconds
    MaxStray,    \* bound on other datagrams in a run
    MaxStuns     \* bound on runs

Reqs == 0 .. 3

\* pass: the requests whose answers come in; kept: ports are not changed; one:
\* there is one external address; rewrites: addresses in datagrams are changed
\* too; moved: answers seem to come from elsewhere
NatType == [pass : SUBSET Reqs, kept : BOOLEAN, one : BOOLEAN, rewrites : BOOLEAN, moved : BOOLEAN]

ASSUME StunAssumption ==
    /\ {Rounds, WaitTime} \subseteq Nat \ {0} /\ {MaxStray, MaxStuns} \subseteq Nat
    /\ Nats # {} /\ Nats \subseteq NatType /\ Styles # {} /\ Styles \subseteq Seq(STRING)

VARIABLES
    spc,         \* "idle", "send", "wait", "close"
    nat, style,  \* of this run
    round, time,
    asked,       \* requests that left
    responses,   \* responses_lens, responses: the answer of each socket, or None
    peer0,       \* peer_addrs[0]: "unset", "server" or "other"
    rules, socks,              \* filter rules and sockets of the run
    use_ext_ip_addr, disable_port_forwarding,
    started,     \* the first run was a success, or the daemon ended
    result,      \* of the last run: 0, -1, or 1 before the first
    stray, stuns

svars == <<spc, nat, style, round, time, asked, responses, peer0, rules, socks, use_ext_ip_addr,
           disable_port_forwarding, started, result, stray, stuns>>

None == <<>>

-----------------------------------------------------------------------------
\* The external address and port of socket i, as the server sees it; local
\* ports are named by the requests, and 9 is another port
Outside(n, i) == [addr |-> IF n.one \/ i = 0 THEN "ext" ELSE "ext2",
                  port |-> IF n.kept THEN i ELSE 9]

\* An attribute of the answer to request i. Only the XOR form survives a router
\* that changes addresses in datagrams.
Attribute(type, i) ==
    [type |-> type,
     at   |-> IF type = "MAPPED" /\ nat.rewrites THEN [Outside(nat, i) EXCEPT !.addr = "inner"]
              ELSE Outside(nat, i)]

Answer(i) == [k \in DOMAIN style |-> Attribute(style[k], i)]

\* parse_stun_response(): a truncated attribute ends it
ParseAttribute(x, a) ==
    CASE x.stop \/ a.type = "cut" -> [x EXCEPT !.stop = TRUE]
      [] ~ x.stop /\ a.type \in {"MAPPED", "XOR"} ->
         [x EXCEPT !.have = TRUE, !.at = IF x.xor THEN @ ELSE a.at, !.xor = @ \/ a.type = "XOR"]
      [] OTHER -> x

ParseStunResponse(r) ==
    LET attribute(x, k) == ParseAttribute(x, r[k])
    IN  Steps([have |-> FALSE, xor |-> FALSE, stop |-> FALSE, at |-> None], Len(r), attribute)

-----------------------------------------------------------------------------
\* perform_stun(): the host may be unknown, and a socket may fail, when the ones
\* before it are closed
FailEarly ==
    /\ result' = -1
    /\ started' = (stuns > 0)
    /\ UNCHANGED <<spc, round, time, asked, responses, peer0, rules, socks, use_ext_ip_addr,
                   disable_port_forwarding, stray>>

\* A filter rule that could not be added is only logged
Prepare ==
    /\ spc' = "send"
    /\ round' = 1 /\ time' = 0 /\ asked' = {} /\ stray' = MaxStray
    /\ responses' = [i \in Reqs |-> None]
    /\ peer0' = "unset"
    /\ socks' = Reqs
    /\ rules' \in {Reqs, Reqs \ {0}}
    /\ UNCHANGED <<use_ext_ip_addr, disable_port_forwarding, started, result>>

\* update_ext_ip_addr_from_stun(), at the start and when the address changed
Start ==
    /\ spc = "idle" /\ started /\ stuns < MaxStuns
    /\ stuns' = stuns + 1
    /\ nat' \in Nats /\ style' \in Styles
    /\ FailEarly \/ Prepare

\* The requests without an answer are sent; sendto() may fail for one, and then
\* the ones after it are not sent in this round
SendRequests ==
    /\ spc = "send"
    /\ \E bad \in {4} \cup {i \in Reqs : responses[i] = None} :
          asked' = asked \cup {i \in Reqs : i < bad /\ responses[i] = None}
    /\ time' = WaitTime
    /\ spc' = "wait"
    /\ UNCHANGED <<nat, style, round, responses, peer0, rules, socks, use_ext_ip_addr,
                   disable_port_forwarding, started, result, stray, stuns>>

\* What receive_stun_response() makes of a datagram: another one takes the place
\* of an answer that was there. "error" is a failure of recvfrom().
Received(i, kind) == IF kind = "answer" THEN Answer(i) ELSE None

PeerAfter(kind) == CASE kind = "answer" -> IF nat.moved THEN "other" ELSE "server"
                     [] kind = "stray"  -> "other"
                     [] kind = "error"  -> peer0

\* Answers that may come to socket i, once or more than once
Coming(i) == (IF i \in asked /\ i \in nat.pass THEN {"answer"} ELSE {})
             \cup (IF stray > 0 THEN {"stray", "error"} ELSE {})

AllIn(rs) == \A i \in Reqs : rs[i] # None

\* wait_for_stun_responses(): select() reports sockets, for as long as there is
\* time; the time that passed may be nothing
Receive ==
    /\ spc = "wait" /\ time > 0
    /\ \E ready \in SUBSET Reqs \ {{}} :
       \E kinds \in [ready -> {"answer", "stray", "error"}] :
          LET strays == Cardinality({i \in ready : kinds[i] # "answer"})
              now == [i \in Reqs |-> IF i \in ready THEN Received(i, kinds[i]) ELSE responses[i]]
          IN  /\ \A i \in ready : kinds[i] \in Coming(i)
              /\ strays <= stray
              /\ stray' = stray - strays
              /\ responses' = now
              /\ peer0' = IF 0 \in ready THEN PeerAfter(kinds[0]) ELSE peer0
              /\ spc' = IF AllIn(now) THEN "close" ELSE "wait"
    /\ time' \in {time, time - 1}
    /\ UNCHANGED <<nat, style, round, asked, rules, socks, use_ext_ip_addr,
                   disable_port_forwarding, started, result, stuns>>

\* Nothing more came: the next round, or the end after the last
NextRound ==
    /\ spc = "wait"
    /\ round' = round + 1
    /\ spc' = IF round = Rounds THEN "close" ELSE "send"
    /\ time' = 0
    /\ UNCHANGED <<nat, style, asked, responses, peer0, rules, socks, use_ext_ip_addr,
                   disable_port_forwarding, started, result, stray, stuns>>

\* select() fails: what came is used
SelectFails ==
    /\ spc = "wait" /\ spc' = "close"
    /\ UNCHANGED <<nat, style, round, time, asked, responses, peer0, rules, socks,
                   use_ext_ip_addr, disable_port_forwarding, started, result, stray, stuns>>

-----------------------------------------------------------------------------
\* The answers that have an address
Mapped == {i \in Reqs : responses[i] # None /\ ParseStunResponse(responses[i]).have}

MappedAt(i) == ParseStunResponse(responses[i]).at

\* ext_addr: of the first
ExtAddr == MappedAt(CHOOSE i \in Mapped : \A j \in Mapped : i <= j).addr

\* Mutant of Restrictive: answers that are missing do not count
RestrictiveFew(from) == \/ from # "server"
                        \/ \E i \in Mapped : MappedAt(i) # [addr |-> ExtAddr, port |-> i]

\* restrictive_nat: not all answers came, the first came from elsewhere, or a
\* port or an address was changed
Restrictive(from) ==
    \/ Cardinality(Mapped) < 4
    \/ from # "server"
    \/ \E i \in Mapped : MappedAt(i) # [addr |-> ExtAddr, port |-> i]

\* The end of perform_stun(); without an address the daemon keeps what it had,
\* and does not start without one. peer_addrs[0] may never have been written.
Close ==
    /\ spc = "close" /\ spc' = "idle"
    /\ rules' = {} /\ socks' = {}
    /\ IF Mapped = {}
       THEN /\ result' = -1
            /\ started' = (stuns > 1)
            /\ UNCHANGED <<use_ext_ip_addr, disable_port_forwarding>>
       ELSE /\ result' = 0
            /\ use_ext_ip_addr' = ExtAddr
            /\ \E from \in IF peer0 = "unset" THEN {"server", "other"} ELSE {peer0} :
                  disable_port_forwarding' = Restrictive(from)
            /\ UNCHANGED started
    /\ UNCHANGED <<nat, style, round, time, asked, responses, peer0, stray, stuns>>

SInit ==
    /\ spc = "idle" /\ nat = (CHOOSE n \in Nats : TRUE) /\ style = (CHOOSE s \in Styles : TRUE)
    /\ round = 0 /\ time = 0 /\ asked = {} /\ peer0 = "unset"
    /\ responses = [i \in Reqs |-> None]
    /\ rules = {} /\ socks = {}
    /\ use_ext_ip_addr = "none" /\ disable_port_forwarding = FALSE
    /\ started = TRUE /\ result = 1
    /\ stray = 0 /\ stuns = 0

SNext == Start \/ SendRequests \/ Receive \/ NextRound \/ SelectFails \/ Close

SSpec == SInit /\ [][SNext]_svars

-----------------------------------------------------------------------------
\* The answers have the address only in the form that the router changes
Hidden == /\ nat.rewrites
          /\ ~ \E k \in DOMAIN style : style[k] = "XOR" /\ \A j \in 1 .. k : style[j] # "cut"

\* Whatever was lost, came twice, late or from others: the address that STUN
\* reports is the external one, unless the answers have it only in the form that
\* the router changes; forwarding is enabled only where all answers come in and no
\* port is changed, and no address is, unless it cannot be seen for that reason;
\* and no run leaves a socket open or a rule that lets its ports in.
StunTrue ==
    spc = "idle" =>
        /\ rules = {} /\ socks = {}
        /\ result = 0 =>
              /\ use_ext_ip_addr \in {"ext", "ext2"} \/ Hidden
              /\ ~ disable_port_forwarding =>
                     nat.pass = Reqs /\ nat.kept /\ ~ nat.moved /\ (nat.one \/ Hidden)

=============================================================================
