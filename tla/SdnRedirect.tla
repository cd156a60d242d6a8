----------------------------- MODULE SdnRedirect -----------------------------
(***************************************************************************)
(* Port mappings of the SDN build: the SOAP actions on port mappings       *)
(* (upnpsoap.c), the redirection layer (upnpredirect.c, USE_SDN), and the  *)
(* back end (sdn/iptcrdr.c, sdn/onosclient.c) that forwards every          *)
(* operation to the ONOS controller over an HTTP connection of its own     *)
(* (mongoose) and polls until `data.done' is set.  The mappings themselves *)
(* are kept by the controller.                                             *)
(*                                                                         *)
(* `data' is a local variable and the connection's callback is given its   *)
(* address.  A connection that outlives its call therefore keeps a pointer *)
(* into a dead stack frame: the same function called again has its `data'  *)
(* there, and for another function the access does nothing or kills the    *)
(* daemon.                                                                 *)
(***************************************************************************)
EXTENDS Naturals, Sequences, FiniteSets

CONSTANTS
    Keys,        \* (remote host, external port, protocol)
    Clients,     \* internal address and port of a mapping
    None,        \* no mapping, no JSON object (NULL)
    SyncErrors,  \* socket() or connect() may fail inside mg_http_connect()
    Breaks,      \* the controller may refuse or drop a connection
    Asks,        \* the operations that the control points ask for
    MaxConns,    \* bound on the connections left when a request comes
    MaxOrphans   \* bound on the requests that outlive their connection

ASSUME NoneAssumption == None \notin Clients
ASSUME KeysAssumption == IsFiniteSet(Keys)
ASSUME SwitchAssumption == SyncErrors \in BOOLEAN /\ Breaks \in BOOLEAN
ASSUME BoundsAssumption == MaxConns \in Nat \ {0} /\ MaxOrphans \in Nat

VARIABLES
    mapping,     \* the controller's table
    orphans,     \* requests the controller got on a connection that is gone
    conns,       \* mgr.conns, newest first
    phase,       \* where the daemon is
    pos,         \* position in conns of the pass mg_mgr_poll() is making
    data,        \* struct conn_runtime_vars of the call under way
    last,        \* the SOAP request just answered, and its answer
    held,        \* history: what the table said during the last request
    peak,        \* history: the most mappings there were meanwhile
    heard        \* history: a response came in during the call

vars == <<mapping, orphans, conns, phase, pos, data, last, held, peak, heard>>
daemonVars == <<phase, pos, data, last, heard>>

-----------------------------------------------------------------------------
Ops == {"add", "addAny", "delete", "deleteRange", "get", "count"}

ASSUME AsksAssumption == Asks \subseteq Ops

\* keys: the mapping named, the ports permitted (addAny), the range
Request == [op : Ops, keys : SUBSET Keys, client : Clients \cup {None},
            index : Nat]

Codes == {"200", "404", "409", "other"}

\* of: history, the request the controller answered
Answer == [of : Request, code : Codes, ret : {"ok", "conflict"},
           keys : SUBSET Keys, client : Clients \cup {None}]

Phases == {"idle", "call", "poll", "pass", "return", "down"}

\* "closing" is is_closing; "open" has the request in the send buffer
ConnStates == {"connecting", "open", "sent", "closing"}

\* The controller's side; "eof" also stands for a reset
PeerStates == {"pending", "accepted", "refused", "request", "answered", "eof"}

Conn == [req : Request, st : ConnStates, peer : PeerStates,
         ans : Answer \cup {None}]

\* The requests that may change the table
Changing(R) == {r \in R : r.op \notin {"get", "count"}}

Entries(m) == {k \in Keys : m[k] # None}
Table(m)   == {<<k, m[k]>> : k \in Keys}

\* data = { .request = jobj, .done = false }: the other fields are zero, and
\* the zero of enum http_response_code is OK_200
NewData(req) == [req |-> req, code |-> "200", resp |-> None, done |-> FALSE]

NoRequest == [op |-> "get", keys |-> {}, client |-> None, index |-> 0]

NoAnswer == [req |-> NoRequest, result |-> "none", resp |-> None]

-----------------------------------------------------------------------------
(***************************************************************************)
(* The controller (external): what it does with a request, as far as the   *)
(* daemon tells its answers apart.                                         *)
(***************************************************************************)
Reply(req, code, ret, keys, client) ==
    [of |-> req, code |-> code, ret |-> ret, keys |-> keys, client |-> client]

Mapped(m, ks, c) == [k \in Keys |-> IF k \in ks THEN c ELSE m[k]]

Runs(req) ==
    LET found == req.keys \cap Entries(mapping)
        free  == req.keys \ found
        yes(m, keys, c) == [map |-> m, ans |-> Reply(req, "200", "ok", keys, c)]
        no(code) == [map |-> mapping, ans |-> Reply(req, code, "ok", {}, None)]
        conflict == [map |-> mapping, ans |-> Reply(req, "200", "conflict", {}, None)]
    IN  {no("other")} \cup
        CASE req.op \in {"add", "addAny"} ->
                {conflict} \cup
                IF free = {} THEN {no("409")}
                ELSE {yes(Mapped(mapping, {k}, req.client), {k}, req.client) : k \in free}
          [] req.op \in {"delete", "deleteRange"} ->
                IF found = {} THEN {no("404")}
                ELSE {yes(Mapped(mapping, found, None), found, None)}
          [] req.op = "get" ->
                IF found = {} THEN {no("404")}
                ELSE {yes(mapping, {k}, mapping[k]) : k \in found}
          [] req.op = "count" ->
                IF req.index >= Cardinality(Entries(mapping)) THEN {no("404")}
                ELSE {yes(mapping, {k}, mapping[k]) : k \in Entries(mapping)}

\* The table becomes m
Tables(m) ==
    /\ mapping' = m
    /\ held' = IF phase = "idle" THEN held ELSE held \cup Table(m)
    /\ peak' = IF phase # "idle" /\ Cardinality(Entries(m)) > peak
               THEN Cardinality(Entries(m)) ELSE peak

\* The rest of the world moves while the daemon waits in a select(): what
\* happens at other times is seen by the next select() only
Waiting == phase \in {"idle", "poll"}

PeerMoves(i, from, c) ==
    /\ Waiting
    /\ i \in 1 .. Len(conns)
    /\ conns[i].peer \in from
    /\ conns' = [conns EXCEPT ![i] = c]

Accept(i) ==
    /\ PeerMoves(i, {"pending"}, [conns[i] EXCEPT !.peer = "accepted"])
    /\ UNCHANGED <<mapping, orphans, daemonVars, held, peak>>

Refuse(i) ==
    /\ Breaks
    /\ PeerMoves(i, {"pending"}, [conns[i] EXCEPT !.peer = "refused"])
    /\ UNCHANGED <<mapping, orphans, daemonVars, held, peak>>

\* The controller serves the request; its answer arrives, or is lost with the
\* connection
Serve(i) ==
    /\ Waiting
    /\ i \in 1 .. Len(conns) /\ conns[i].peer = "request"
    /\ \E run \in Runs(conns[i].req) :
        /\ Tables(run.map)
        /\ \/ PeerMoves(i, {"request"},
                  [conns[i] EXCEPT !.peer = "answered", !.ans = run.ans])
           \/ Breaks /\ PeerMoves(i, {"request"}, [conns[i] EXCEPT !.peer = "eof"])
    /\ UNCHANGED <<orphans, daemonVars>>

\* The connection is closed or reset before any answer; a request that was
\* sent is lost, or is served later all the same
Drop(i) ==
    /\ Breaks
    /\ PeerMoves(i, {"accepted", "request"}, [conns[i] EXCEPT !.peer = "eof"])
    /\ \/ UNCHANGED orphans
       \/ /\ conns[i].peer = "request"
          /\ Cardinality(orphans) < MaxOrphans
          /\ orphans' = orphans \cup Changing({conns[i].req})
    /\ UNCHANGED <<mapping, daemonVars, held, peak>>

ServeOrphan(req) ==
    /\ Waiting
    /\ req \in orphans
    /\ orphans' = orphans \ {req}
    /\ \E run \in Runs(req) : Tables(run.map)
    /\ UNCHANGED <<conns, daemonVars>>

\* The controller ends a mapping's lease
Expire(k) ==
    /\ Waiting
    /\ k \in Entries(mapping)
    /\ Tables(Mapped(mapping, {k}, None))
    /\ UNCHANGED <<orphans, conns, daemonVars>>

-----------------------------------------------------------------------------
\* Mutant of StartCall: `data' is static and keeps the last call's answer
StartCallKept(req) ==
    [req |-> req, code |-> IF last.resp = None THEN "200" ELSE last.resp.code,
     resp |-> last.resp, done |-> FALSE]

\* The request object and `data' of a call
StartCall(req) == NewData(req)

\* A SOAP action arrives whose arguments and authorisation were accepted. One
\* that is refused before that is answered an error and changes nothing.
Soap(req) ==
    /\ phase = "idle"
    /\ req.op \in Asks /\ Len(conns) < MaxConns
    /\ phase' = "call"
    /\ data' = StartCall(req)
    /\ heard' = FALSE
    /\ held' = Table(mapping)
    /\ peak' = Cardinality(Entries(mapping))
    /\ last' = NoAnswer
    /\ UNCHANGED <<mapping, orphans, conns, pos>>

NewConn(st, peer) == [req |-> data.req, st |-> st, peer |-> peer, ans |-> None]

\* mg_http_connect(): the connection is under way, or MG_EV_ERROR has set
\* `done' already and the loop that polls is not entered
Connect ==
    /\ phase = "call"
    /\ conns' = <<NewConn("connecting", "pending")>> \o conns
    /\ phase' = "poll"
    /\ UNCHANGED <<mapping, orphans, pos, data, last, held, peak, heard>>

ConnectFails ==
    /\ SyncErrors
    /\ phase = "call"
    /\ conns' = <<NewConn("closing", "refused")>> \o conns
    /\ data' = [data EXCEPT !.done = TRUE]
    /\ phase' = "return"
    /\ UNCHANGED <<mapping, orphans, pos, last, held, peak, heard>>

\* while(!data.done) mg_mgr_poll(&mgr, 1000): the select() of mg_iotest()
\* returns, for a descriptor or for its timeout
Select ==
    /\ phase = "poll"
    /\ phase' = "pass"
    /\ pos' = 1
    /\ UNCHANGED <<mapping, orphans, conns, data, last, held, peak, heard>>

\* The last event mg_mgr_poll() has for a connection in one pass. MG_EV_ERROR
\* and MG_EV_HTTP_MSG are followed by MG_EV_CLOSE, which adds nothing to them.
Event(c) ==
    CASE c.st = "closing" -> "close"
      [] c.st = "connecting" /\ c.peer \in {"accepted", "eof"} -> "connect"
      [] c.st = "connecting" /\ c.peer = "refused" -> "error"
      [] c.st \in {"open", "sent"} /\ c.peer = "eof" -> "close"
      [] c.st = "sent" /\ c.peer = "answered" -> "msg"
      [] c.st = "open" /\ c.peer = "accepted" -> "write"
      [] OTHER -> "none"

\* Mutant of Handler: MG_EV_CLOSE is ignored
HandlerNoClose(ev, d, c) ==
    CASE ev = "msg" -> [d EXCEPT !.code = c.ans.code, !.resp = c.ans, !.done = TRUE]
      [] ev = "error" -> [d EXCEPT !.done = TRUE]
      [] OTHER -> d

\* The Onos...() callbacks of sdn/onosclient.c, all alike
Handler(ev, d, c) ==
    CASE ev = "msg" -> [d EXCEPT !.code = c.ans.code, !.resp = c.ans, !.done = TRUE]
      [] ev \in {"error", "close"} -> [d EXCEPT !.done = TRUE]
      [] OTHER -> d

\* The callback's pointer reaches the `data' of the call under way
Mine(c) == c.req.op = data.req.op

\* Mutant of Closed: a connection stays in the list after its response
ClosedNotOnMessage(ev) == ev \in {"close", "error"}

Closed(ev) == ev \in {"close", "error", "msg"}

RemoveAt(s, i) == SubSeq(s, 1, i - 1) \o SubSeq(s, i + 1, Len(s))

\* What becomes of a connection that stays; the request is printed from
\* data->request when the connection is established
Stays(c, ev) ==
    CASE ev = "connect" -> [c EXCEPT !.st = "open",
                                     !.req = IF Mine(c) THEN data.req ELSE c.req]
      [] ev = "write" -> [c EXCEPT !.st = "sent", !.peer = "request"]
      [] OTHER -> c

\* One turn of the loop of mg_mgr_poll()
Visit ==
    LET c  == conns[pos]
        ev == Event(c)
    IN  /\ phase = "pass"
        /\ pos <= Len(conns)
        /\ conns' = IF Closed(ev) THEN RemoveAt(conns, pos)
                                  ELSE [conns EXCEPT ![pos] = Stays(c, ev)]
        /\ pos' = IF Closed(ev) THEN pos ELSE pos + 1
        /\ data' = IF Mine(c) THEN Handler(ev, data, c) ELSE data
        /\ heard' = (heard \/ (ev = "msg" /\ Mine(c)))
        /\ UNCHANGED <<mapping, orphans, phase, last, held, peak>>

\* A callback follows its pointer into a frame that is something else now
Wild ==
    /\ phase = "pass"
    /\ pos <= Len(conns)
    /\ ~Mine(conns[pos])
    /\ Event(conns[pos]) \notin {"none", "write"}
    /\ phase' = "down"
    /\ UNCHANGED <<mapping, orphans, conns, pos, data, last, held, peak, heard>>

\* The daemon is stopped, or died, and is started again; what it had sent may
\* still be served
Restart ==
    /\ phase \in {"idle", "down"}
    /\ phase' = "idle"
    /\ conns' = <<>>
    /\ data' = NewData(NoRequest)
    /\ orphans' = orphans \cup Changing({conns[i].req :
                      i \in {j \in 1 .. Len(conns) : conns[j].peer = "request"}})
    /\ pos' = 0
    /\ last' = NoAnswer
    /\ UNCHANGED <<mapping, held, peak, heard>>

EndOfPass ==
    /\ phase = "pass"
    /\ pos > Len(conns)
    /\ phase' = IF data.done THEN "return" ELSE "poll"
    /\ pos' = 0
    /\ UNCHANGED <<mapping, orphans, conns, data, last, held, peak, heard>>

-----------------------------------------------------------------------------
\* _add_redirect_and_filter_rules()
AddResult(d) ==
    CASE d.code = "409" -> "exists"
      [] d.code \notin {"409", "200"} -> "failure"
      [] d.code = "200" /\ d.resp = None -> "failure"
      [] OTHER -> d.resp.ret

\* add_redirect_and_filter_rules(), add_any_redirect_and_filter_rules()
AddRedirect(d) ==
    CASE AddResult(d) = "ok" -> "0"
      [] AddResult(d) = "conflict" -> "-4"
      [] AddResult(d) = "exists" -> "-2"
      [] AddResult(d) = "failure" -> "-1"

AddAnyRedirect(d) ==
    CASE AddResult(d) = "ok" -> "0"
      [] AddResult(d) = "exists" -> "1"
      [] AddResult(d) \in {"conflict", "failure"} -> "-1"

\* What the SOAP action answers: "ok" or the UPnP error code (IGD_V2)
AddPortMapping(d) ==
    CASE AddRedirect(d) = "0" -> "ok"
      [] AddRedirect(d) = "-4" -> "729"
      [] AddRedirect(d) = "-2" -> "718"
      [] AddRedirect(d) = "-1" -> "501"

AddAnyPortMapping(d) ==
    CASE AddAnyRedirect(d) = "0" -> "ok"
      [] AddAnyRedirect(d) = "1" -> "728"
      [] AddAnyRedirect(d) = "-1" -> "501"

\* delete_redirect_and_filter_rules() looks at the code and at nothing else
DeleteRedirect(d) == IF d.code = "200" THEN "0" ELSE "-1"

DeletePortMapping(d) == IF DeleteRedirect(d) = "0" THEN "ok" ELSE "714"

\* delete_portmappings_in_range(); the controller lists what it removed
DeleteInRange(d) == IF d.code = "200" /\ d.resp # None THEN "0" ELSE "-1"

DeletePortMappingRange(d) ==
    IF DeleteInRange(d) = "0" /\ d.resp.keys # {} THEN "ok" ELSE "730"

\* get_redirect_rule() compares the key it gets with the key it asked for
GetRedirectRule(d) ==
    IF d.code = "200" /\ d.resp # None /\ d.resp.keys = d.req.keys
    THEN "0" ELSE "-1"

GetSpecificPortMappingEntry(d) ==
    IF GetRedirectRule(d) = "0" THEN "ok" ELSE "714"

\* get_redirect_rule_by_index()
GetByIndex(d) == IF d.code = "200" /\ d.resp # None THEN "ok" ELSE "713"

\* Mutant of MoreToCount: one entry is counted before it was found
MoreToCountAnyway(d) ==
    d.req.op = "count" /\ (GetByIndex(d) = "ok" \/ d.req.index = 0)

\* upnp_get_portmapping_number_of_entries(): one call per index until one fails
MoreToCount(d) == d.req.op = "count" /\ GetByIndex(d) = "ok"

Result(d) ==
    CASE d.req.op = "add" -> AddPortMapping(d)
      [] d.req.op = "addAny" -> AddAnyPortMapping(d)
      [] d.req.op = "delete" -> DeletePortMapping(d)
      [] d.req.op = "deleteRange" -> DeletePortMappingRange(d)
      [] d.req.op = "get" -> GetSpecificPortMappingEntry(d)
      [] d.req.op = "count" -> "ok"

NextIndex ==
    /\ phase = "return"
    /\ MoreToCount(data)
    /\ phase' = "call"
    /\ data' = StartCall([data.req EXCEPT !.index = @ + 1])
    /\ heard' = FALSE
    /\ UNCHANGED <<mapping, orphans, conns, pos, last, held, peak>>

\* The SOAP response; a count is the index that failed
Return ==
    /\ phase = "return"
    /\ ~MoreToCount(data)
    /\ phase' = "idle"
    /\ last' = [req |-> data.req, result |-> Result(data), resp |-> data.resp]
    /\ data' = NewData(NoRequest)
    /\ UNCHANGED <<mapping, orphans, conns, pos, held, peak, heard>>

-----------------------------------------------------------------------------
Init ==
    /\ mapping = [k \in Keys |-> None]
    /\ orphans = {}
    /\ conns = <<>>
    /\ phase = "idle"
    /\ pos = 0
    /\ data = NewData(NoRequest)
    /\ last = NoAnswer
    /\ held = {}
    /\ peak = 0
    /\ heard = FALSE

\* The requests of the control points
Asked(op, keys, client) ==
    [op |-> op, keys |-> keys, client |-> client, index |-> 0]

SoapAction ==
    \/ \E k \in Keys :
           \/ \E c \in Clients : Soap(Asked("add", {k}, c))
           \/ Soap(Asked("delete", {k}, None))
           \/ Soap(Asked("get", {k}, None))
    \/ \E ks \in SUBSET Keys \ {{}} :
           \/ \E c \in Clients : Soap(Asked("addAny", ks, c))
           \/ Soap(Asked("deleteRange", ks, None))
    \/ Soap(Asked("count", {}, None))

Controller ==
    \/ \E i \in 1 .. Len(conns) : Accept(i) \/ Refuse(i) \/ Serve(i) \/ Drop(i)
    \/ \E req \in orphans : ServeOrphan(req)
    \/ \E k \in Keys : Expire(k)

Daemon ==
    \/ Connect \/ ConnectFails \/ Select \/ Visit \/ Wild \/ EndOfPass
    \/ NextIndex \/ Return

Next == SoapAction \/ Controller \/ Daemon \/ Restart

Spec == Init /\ [][Next]_vars

\* The daemon is one thread that runs; the controller accepts or refuses a
\* connection and answers a request or drops it, which nothing in the code
\* makes sure of. The model lets it act only while the daemon waits, so that
\* its steps are enabled again and again and not for ever.
FairSpec ==
    /\ Spec
    /\ WF_vars(Daemon \/ (phase = "down" /\ Restart))
    /\ \A i \in 1 .. MaxConns + Cardinality(Keys) :
           /\ SF_vars(Accept(i) \/ Refuse(i))
           /\ SF_vars(Serve(i) \/ Drop(i))

-----------------------------------------------------------------------------
TypeOK ==
    /\ mapping \in [Keys -> Clients \cup {None}]
    /\ orphans \subseteq Request
    /\ conns \in Seq(Conn)
    /\ phase \in Phases
    /\ pos \in Nat
    /\ data \in [req : Request, code : Codes, resp : Answer \cup {None},
                 done : BOOLEAN]
    /\ last \in [req : Request, resp : Answer \cup {None},
                 result : {"none", "ok", "501", "714", "718", "728", "729", "730"}]
    /\ held \subseteq Keys \X (Clients \cup {None})
    /\ peak \in 0 .. Cardinality(Keys)
    /\ heard \in BOOLEAN

Ok(op) == last.req.op = op /\ last.result = "ok" /\ phase = "idle"

\* An AddPortMapping or AddAnyPortMapping that was answered with success put
\* the mapping it names into the controller's table, while it ran.
AddDone ==
    Ok("add") \/ Ok("addAny") =>
        /\ last.resp.keys \subseteq last.req.keys
        /\ \A k \in last.resp.keys : <<k, last.req.client>> \in held

\* What is read was so: a mapping that GetSpecificPortMappingEntry shows was in
\* the table while the action ran, and the number of entries that goes into
\* GetPortMappingNumberOfEntries and into the events, counted with one call per
\* index while the table changes, is never more than there were at some moment
\* of it.
ReadsTrue ==
    /\ Ok("get") => \A k \in last.req.keys : <<k, last.resp.client>> \in held
    /\ Ok("count") => last.req.index <= peak

\* No connection outlives its call, so no callback keeps the address of a
\* dead `data'.
NoConnectionLeft == phase \in {"idle", "call"} => conns = <<>>

\* Success that rests on the controller's answer needs an answer received
\* during the call, also when connections were left behind.
OkNeedsAnswer ==
    Ok("add") \/ Ok("addAny") \/ Ok("deleteRange") \/ Ok("get") => heard

\* What upnpredirect.h promises of upnp_delete_redirection(), 0 on success and
\* -1 on failure: after a success the mapping was gone at some moment. It does
\* not hold: a refused or dropped connection leaves the code at OK_200.
DeleteDone ==
    Ok("delete") => \A k \in last.req.keys : <<k, None>> \in held

\* Every SOAP action is answered, or the daemon restarts.
Answered == phase # "idle" ~> phase = "idle"

=============================================================================
