----------------------------- MODULE HttpServer -----------------------------
(***************************************************************************)
(* One connection of the HTTP server (upnphttp.c), from accept() to its    *)
(* deletion by the main loop, with the peer at its other end. Sizes are in *)
(* units: a request has HeadLen of them up to the empty line and then its  *)
(* body; a response has RespLen, and "100 Continue" has ContLen. The       *)
(* kernel takes Room units until the peer reads. Connections share nothing *)
(* but the list of subscribers.                                            *)
(***************************************************************************)
EXTENDS Integers, Sequences, FiniteSets, SequencesExt

CONSTANTS
    Requests,   \* what peers ask for, see HttpTypeOK
    HeadLen, RespLen, ContLen, Room,
    Extra,      \* units a peer may send after its request
    MaxSubs,    \* bound on the subscribers
    MaxConns    \* bound on the connections, one after the other

ASSUME HttpAssumption ==
    /\ {HeadLen, RespLen, ContLen, Room} \subseteq Nat \ {0}
    /\ {Extra, MaxSubs, MaxConns} \subseteq Nat

\* Content-Length is read as an int, "Expect: 100-continue" is there or not
ASSUME RequestsAssumption == \A q \in Requests : q.len \in Int /\ q.expect \in BOOLEAN

VARIABLES
    h,      \* struct upnphttp, or <<>>
    peer,   \* the other end: what it asks, what it has sent, what was sent to it
    sids,   \* number of subscribers
    conns   \* connections so far

hvars == <<h, peer, sids, conns>>

\* enum httpStates
EWaitingForHttpRequest == 0
EWaitingForHttpContent == 1
ESendingContinue == 2
ESendingAndClosing == 3
EToDelete == 100

\* A message of n units, and the one that is in the buffer
Message(name, n) == [i \in 1 .. n |-> <<name, i>>]

Response(c) == Message(c.res, c.res_buflen)

-----------------------------------------------------------------------------
\* What reaches the peer of a response, in one go: as much as there is room
\* for, and nothing on a connection that was reset
Taken(c) == IF peer.reset THEN 0 ELSE
            LET rest == c.res_buflen - c.res_sent IN IF rest < peer.room THEN rest ELSE peer.room

Sent(c) == [c EXCEPT !.res_sent = @ + Taken(c)]

\* send() failed, or everything is sent: there is nothing to try again
SendDone(c) == peer.reset \/ Sent(c).res_sent = c.res_buflen

PutOut(c) ==
    peer' = [peer EXCEPT !.room = @ - Taken(c),
                         !.wire = @ \o SubSeq(Response(c), c.res_sent + 1, c.res_sent + Taken(c))]

SendRespAndClose(c) ==
    /\ PutOut(c)
    /\ h' = IF SendDone(c) THEN [Sent(c) EXCEPT !.state = EToDelete, !.socket = FALSE]
            ELSE [Sent(c) EXCEPT !.state = ESendingAndClosing]

\* SendResp(), and the state once it has finished
SendResp(c) ==
    /\ PutOut(c)
    /\ h' = IF SendDone(c) THEN [Sent(c) EXCEPT !.state = EWaitingForHttpContent]
            ELSE [Sent(c) EXCEPT !.state = ESendingContinue]

\* Mutant of BuildResp: what was sent of "100 Continue" counts as sent
BuildRespKeepsSent(c, code, nomem) ==
    IF nomem THEN c
    ELSE [c EXCEPT !.res = "final", !.res_buflen = RespLen, !.code = code]

\* BuildHeader(), BuildResp2(): without memory the old response stays
BuildResp(c, code, nomem) ==
    IF nomem THEN c
    ELSE [c EXCEPT !.res = "final", !.res_buflen = RespLen, !.res_sent = 0, !.code = code]

Answer(c, code, nomem) == SendRespAndClose(BuildResp(c, code, nomem))

Send404(c, nomem) == Answer(c, 404, nomem)
Send405(c, nomem) == Answer(c, 405, nomem)
Send501(c, nomem) == Answer(c, 501, nomem)

-----------------------------------------------------------------------------
\* The SOAP actions that read the state of the daemon or of the system;
\* "good" is an argument that is there and known. The other ones are
\* in Redirect, SdnRedirect and Pinholes.
QueryStateVariable(arg) == CASE arg = "none" -> 402 [] arg = "bad" -> 404 [] OTHER -> 200

SetDefaultConnectionService(arg) == IF arg = "none" THEN 402 ELSE 200

SendSetupMessage(arg) == CASE arg = "none" -> 402 [] arg = "bad" -> 600 [] OTHER -> 200

\* "bad": no address, or one that is reserved
GetExternalIPAddress(arg) == IF arg = "good" THEN 200 ELSE 501

\* These only report, also when the system has nothing to report
GetTotal == {"GetTotalBytesSent", "GetTotalBytesReceived", "GetTotalPacketsSent",
             "GetTotalPacketsReceived"}

LinkInfo == {"GetCommonLinkProperties", "GetStatusInfo", "GetNATRSIPStatus"}

ServiceInfo == {"GetDefaultConnectionService", "GetFirewallStatus", "GetSupportedProtocols",
             "GetAssignedRoles", "GetConnectionTypeInfo"}

ReadOnlyAction == {"RequestConnection", "ForceTermination", "SetConnectionType"}

\* ExecuteSoapAction(): the error code of the action, or 200
ExecuteSoapAction(q) ==
    CASE q.soap = "QueryStateVariable" -> QueryStateVariable(q.arg)
      [] q.soap = "SetDefaultConnectionService" -> SetDefaultConnectionService(q.arg)
      [] q.soap = "SendSetupMessage" -> SendSetupMessage(q.arg)
      [] q.soap = "GetExternalIPAddress" -> GetExternalIPAddress(q.arg)
      [] q.soap \in GetTotal \cup LinkInfo \cup ServiceInfo -> 200
      [] q.soap \in ReadOnlyAction -> IF q.soap = "SetConnectionType" THEN 731 ELSE 606
      [] OTHER -> 401

\* SoapError() answers with HTTP status 500
HttpStatus(code) == IF code = 200 THEN 200 ELSE 500

\* Mutant of BodyReceived: the headers count as a part of the body
BodyReceivedWithHead(c) == c.req_buflen >= c.req_contentlen

BodyReceived(c) == c.req_buflen - HeadLen >= c.req_contentlen

\* ProcessHTTPPOST(). Where there is no memory for "100 Continue" the code
\* writes through a null pointer; the model stops there.
ProcessHTTPPOST(c, nomem) ==
    IF BodyReceived(c)
    THEN IF c.q.soap # "none"
         THEN Answer([c EXCEPT !.execs = @ + 1], HttpStatus(ExecuteSoapAction(c.q)), nomem)
         ELSE Answer(c, 400, nomem)
    ELSE IF c.q.expect
    THEN SendResp([c EXCEPT !.res = "continue", !.res_buflen = ContLen, !.res_sent = 0])
    ELSE h' = [c EXCEPT !.state = EWaitingForHttpContent] /\ UNCHANGED peer

\* checkCallbackURL(): the first URL that leads back to the client
CheckCallbackURL(cb) == SelectInSeq(cb, LAMBDA url : url = "own")

\* GET: descriptions, and paths that take other methods
ProcessGet(c, nomem) ==
    CASE c.q.url = "desc"           -> \E code \in {200, 500} : Answer(c, code, nomem)
      [] c.q.url \in {"ctl", "evt"} -> Send405(c, nomem)
      [] OTHER                      -> Send404(c, nomem)

\* The list of subscribers takes a new one if it can and the path is one of an
\* event service; otherwise the answer is the same but for the missing SID
ProcessHTTPSubscribe(c, nomem) ==
    IF c.q.cb # <<>>
    THEN IF CheckCallbackURL(c.q.cb) = 0 THEN Answer(c, 412, nomem) /\ UNCHANGED sids
         ELSE /\ Answer(c, 200, nomem)
              /\ sids' \in {sids} \cup {n \in {sids + 1} : c.q.url = "evt" /\ sids < MaxSubs}
    ELSE Answer(c, IF c.q.sid = "known" /\ sids > 0 THEN 200 ELSE 412, nomem) /\ UNCHANGED sids

ProcessHTTPUnSubscribe(c, nomem) ==
    IF c.q.sid = "known" /\ sids > 0
    THEN Answer(c, 200, nomem) /\ sids' = sids - 1
    ELSE Answer(c, 412, nomem) /\ UNCHANGED sids

\* ParseHttpHeaders(): a negative length is taken for 0
ParseHttpHeaders(c) ==
    [c EXCEPT !.q = peer.q, !.req_contentlen = IF peer.q.len < 0 THEN 0 ELSE peer.q.len]

\* ProcessHttpQuery(): a host name is suspected of DNS rebinding
ProcessHttpQuery(c, nomem) ==
    IF c.q.host = "name" THEN Send404(c, nomem) /\ UNCHANGED sids ELSE
    CASE c.q.cmd = "POST"        -> ProcessHTTPPOST(c, nomem) /\ UNCHANGED sids
      [] c.q.cmd = "GET"         -> ProcessGet(c, nomem) /\ UNCHANGED sids
      [] c.q.cmd = "SUBSCRIBE"   -> ProcessHTTPSubscribe(c, nomem)
      [] c.q.cmd = "UNSUBSCRIBE" -> ProcessHTTPUnSubscribe(c, nomem)
      [] OTHER                   -> Send501(c, nomem) /\ UNCHANGED sids

-----------------------------------------------------------------------------
\* recv() has something to report, and the socket takes data
Readable == peer.sent > h.req_buflen \/ peer.fin \/ peer.reset
Writable == peer.room > 0 \/ peer.reset

\* Mutant of Selected: no socket is waited for to take data
SelectedRead == h.state <= EWaitingForHttpContent /\ Readable

\* The sets of descriptors the main loop waits for
Selected == \/ h.state <= EWaitingForHttpContent /\ Readable
            \/ h.state = ESendingAndClosing /\ Writable

\* recv() takes what there is, or n units of it. A peer that closed or reset the
\* connection, or no memory for what came, is the end.
Receive(n, nomem) ==
    LET c == [h EXCEPT !.req_buflen = @ + n]
    IN  IF n = 0 \/ nomem = "buf"
        THEN h' = [h EXCEPT !.state = EToDelete] /\ UNCHANGED <<peer, sids>>
        ELSE IF h.state = EWaitingForHttpRequest
        THEN IF c.req_buflen >= HeadLen
             THEN ProcessHttpQuery(ParseHttpHeaders(c), nomem = "res")
             ELSE h' = c /\ UNCHANGED <<peer, sids>>
        ELSE IF BodyReceived(c) THEN ProcessHTTPPOST(c, nomem = "res") /\ UNCHANGED sids
        ELSE h' = c /\ UNCHANGED <<peer, sids>>

\* Process_upnphttp(), for a socket that select() reported
Process ==
    /\ h # <<>> /\ Selected
    /\ UNCHANGED conns
    /\ \/ /\ h.state <= EWaitingForHttpContent
          /\ \E n \in IF peer.reset \/ peer.sent = h.req_buflen THEN {0}
                      ELSE 1 .. peer.sent - h.req_buflen,
                nomem \in {"no", "buf", "res"} : Receive(n, nomem)
       \/ h.state = ESendingAndClosing /\ SendRespAndClose(h) /\ UNCHANGED sids

\* Delete_upnphttp(), by the main loop
Delete == /\ h # <<>> /\ h.state >= EToDelete
          /\ h' = <<>>
          /\ UNCHANGED <<peer, sids, conns>>

\* New_upnphttp()
NewHttp == [state |-> EWaitingForHttpRequest, socket |-> TRUE, q |-> <<>>,
            req_buflen |-> 0, req_contentlen |-> 0,
            res |-> "none", res_buflen |-> 0, res_sent |-> 0, code |-> 0, execs |-> 0]

ProcessIncomingHTTP ==
    /\ h = <<>> /\ conns < MaxConns
    /\ conns' = conns + 1
    /\ h' = NewHttp
    /\ \E q \in Requests, room \in 1 .. Room :
          peer' = [q |-> q, sent |-> 0, fin |-> FALSE, reset |-> FALSE, room |-> room,
                   wire |-> <<>>]
    /\ UNCHANGED sids

-----------------------------------------------------------------------------
\* The peer sends its request in pieces and may add to it, closes its side,
\* goes away, or reads
Whole == HeadLen + IF peer.q.len < 0 THEN 0 ELSE peer.q.len

PeerSends == /\ h # <<>> /\ ~peer.fin /\ ~peer.reset
             /\ \E n \in 1 .. Whole + Extra - peer.sent : peer' = [peer EXCEPT !.sent = @ + n]
             /\ UNCHANGED <<h, sids, conns>>

PeerCloses == /\ h # <<>> /\ ~peer.fin
              /\ peer' = [peer EXCEPT !.fin = TRUE]
              /\ UNCHANGED <<h, sids, conns>>

PeerResets == /\ h # <<>> /\ ~peer.reset
              /\ peer' = [peer EXCEPT !.reset = TRUE]
              /\ UNCHANGED <<h, sids, conns>>

PeerReads == /\ h # <<>> /\ peer.room < Room
             /\ peer' = [peer EXCEPT !.room = Room]
             /\ UNCHANGED <<h, sids, conns>>

HInit ==
    /\ h = <<>> /\ sids = 0 /\ conns = 0
    /\ peer = [q |-> <<>>, sent |-> 0, fin |-> FALSE, reset |-> FALSE, room |-> Room, wire |-> <<>>]

HNext == \/ Process \/ Delete \/ ProcessIncomingHTTP
         \/ PeerSends \/ PeerCloses \/ PeerResets \/ PeerReads

\* The main loop turns; peers send their whole request or close their side, and read
HFair == /\ WF_hvars(Process) /\ WF_hvars(Delete)
         /\ WF_hvars(PeerReads) /\ WF_hvars(PeerSends)

HSpec == HInit /\ [][HNext]_hvars /\ HFair

-----------------------------------------------------------------------------
HttpTypeOK ==
    /\ sids \in 0 .. MaxSubs
    /\ peer.room \in 0 .. Room
    /\ h # <<>> => /\ h.res_sent \in 0 .. h.res_buflen
                   /\ h.req_buflen \in 0 .. Whole + Extra

\* A SOAP action is done at most once for a request, and not before the whole
\* body is there, in however many pieces it comes and the answer goes.
ActionOnce ==
    h # <<>> => /\ h.execs <= 1
                /\ h.execs = 1 => h.req_buflen >= Whole

\* "100 Continue" and the response go to the peer whole and in this order: no
\* piece is skipped, sent twice or mixed with the other message, and the server
\* closes the connection itself only after the last one, unless the peer is gone
\* or there was no memory for a response.
WireOrdered ==
    /\ \/ IsPrefix(peer.wire, Message("final", RespLen))
       \/ /\ peer.q.expect
          /\ IsPrefix(peer.wire, Message("continue", ContLen) \o Message("final", RespLen))
    /\ h # <<>> /\ ~h.socket /\ ~peer.reset /\ h.code # 0 =>
          peer.wire # <<>> /\ Last(peer.wire) = <<"final", RespLen>>

\* A connection ends, whatever the peer does, once it has closed its side or
\* sent its request; one whose "100 Continue" did not go out at once is left
\* out: nothing waits for its socket to take the rest.
ConnectionEnds == h # <<>> ~> h = <<>> \/ h.state = ESendingContinue

=============================================================================
