-------------------------- MODULE SdnRedirectProofs --------------------------
(***************************************************************************)
(* Proofs about SdnRedirect, for any keys, clients and bounds.             *)
(***************************************************************************)
EXTENDS SdnRedirect, FiniteSetTheorems, SequenceTheorems, TLAPS

\* A connection whose response came in holds an answer, and mg_mgr_poll()
\* counts its connections from one.
TInv ==
    /\ TypeOK
    /\ \A i \in 1 .. Len(conns) :
           conns[i].peer = "answered" => conns[i].ans \in Answer
    /\ phase = "pass" => pos >= 1

\* An answer the daemon holds came in during the call.
HInv == TInv /\ (data.resp # None => heard) /\ OkNeedsAnswer

-----------------------------------------------------------------------------
\* A table has no more entries than there are keys.
LEMMA EntriesCount ==
  ASSUME NEW m
  PROVE  Cardinality(Entries(m)) \in 0 .. Cardinality(Keys)
<1>1. Entries(m) \in SUBSET Keys
  BY DEF Entries
<1>2. /\ IsFiniteSet(Entries(m))
      /\ Cardinality(Entries(m)) <= Cardinality(Keys)
  BY <1>1, KeysAssumption, FS_Subset
<1> QED BY <1>2, KeysAssumption, FS_CardinalityType

\* What the controller does with a request leaves a table and gives an answer
\* that is true of it.
LEMMA RunsAnswer ==
  ASSUME mapping \in [Keys -> Clients \cup {None}],
         NEW req \in Request, NEW run \in Runs(req)
  PROVE  /\ run.map \in [Keys -> Clients \cup {None}]
         /\ run.ans \in Answer
         /\ req.op \in {"add", "addAny"} /\ run.ans.code = "200" /\ run.ans.ret = "ok" =>
                /\ run.ans.keys \subseteq req.keys
                /\ \A k \in run.ans.keys : run.map[k] = req.client
         /\ req.op = "get" /\ run.ans.code = "200" =>
                \A k \in run.ans.keys : run.map[k] = run.ans.client
         /\ req.op = "count" /\ run.ans.code = "200" =>
                req.index < Cardinality(Entries(run.map))
<1> DEFINE found == req.keys \cap Entries(mapping)
           free  == req.keys \ found
           yes(m, keys, c) == [map |-> m, ans |-> Reply(req, "200", "ok", keys, c)]
           no(code) == [map |-> mapping, ans |-> Reply(req, code, "ok", {}, None)]
           conflict == [map |-> mapping, ans |-> Reply(req, "200", "conflict", {}, None)]
           Typed(r) == /\ r.map \in [Keys -> Clients \cup {None}]
                       /\ r.ans \in Answer
<1>1. /\ req.keys \in SUBSET Keys /\ found \in SUBSET Keys /\ free \in SUBSET Keys
      /\ req.client \in Clients \cup {None} /\ req.op \in Ops /\ req.index \in Nat
      /\ Entries(mapping) \in SUBSET Keys
      /\ Cardinality(Entries(mapping)) \in Nat
  BY EntriesCount DEF Request, Entries
<1>2. ASSUME NEW m \in [Keys -> Clients \cup {None}], NEW ks \in SUBSET Keys,
             NEW c \in Clients \cup {None}
      PROVE  /\ Typed(yes(m, ks, c))
             /\ yes(m, ks, c).map = m
             /\ yes(m, ks, c).ans.keys = ks
             /\ yes(m, ks, c).ans.client = c
  BY DEF Reply, Answer, Codes
<1>3. ASSUME NEW code \in Codes
      PROVE  Typed(no(code)) /\ no(code).ans.code = code
  BY DEF Reply, Answer
<1>4. Typed(conflict) /\ conflict.ans.ret = "conflict"
  BY DEF Reply, Answer, Codes
<1>5. ASSUME NEW ks \in SUBSET Keys, NEW c \in Clients \cup {None}
      PROVE  /\ Mapped(mapping, ks, c) \in [Keys -> Clients \cup {None}]
             /\ \A k \in ks : Mapped(mapping, ks, c)[k] = c
  BY DEF Mapped
<1>6. \/ run \in {no("other"), no("404"), no("409")}
      \/ /\ req.op \in {"add", "addAny"}
         /\ \/ run = conflict
            \/ \E k \in free :
                   run = yes(Mapped(mapping, {k}, req.client), {k}, req.client)
      \/ /\ req.op \in {"delete", "deleteRange"}
         /\ run = yes(Mapped(mapping, found, None), found, None)
      \/ /\ req.op = "get"
         /\ \E k \in found : run = yes(mapping, {k}, mapping[k])
      \/ /\ req.op = "count" /\ req.index < Cardinality(Entries(mapping))
         /\ \E k \in Entries(mapping) : run = yes(mapping, {k}, mapping[k])
  <2> HIDE DEF yes, no, conflict, found, free
  <2>1. CASE req.op \in {"add", "addAny"}
    BY <2>1 DEF Runs, yes, no, conflict, found, free
  <2>2. CASE req.op \in {"delete", "deleteRange"}
    BY <2>2 DEF Runs, yes, no, conflict, found, free
  <2>3. CASE req.op = "get"
    BY <2>3 DEF Runs, yes, no, conflict, found, free
  <2>4. CASE req.op = "count"
    <3>1. CASE req.index >= Cardinality(Entries(mapping))
      BY <2>4, <3>1 DEF Runs, no
    <3>2. CASE ~(req.index >= Cardinality(Entries(mapping)))
      <4>1. req.index < Cardinality(Entries(mapping))
        BY <1>1, <3>2
      <4>2. \/ run = no("other")
            \/ \E k \in Entries(mapping) : run = yes(mapping, {k}, mapping[k])
        BY <2>4, <3>2 DEF Runs, yes, no
      <4> QED BY <2>4, <4>1, <4>2
    <3> QED BY <3>1, <3>2
  <2> QED BY <1>1, <2>1, <2>2, <2>3, <2>4 DEF Ops
<1> HIDE DEF yes, no, conflict, found, free, Typed
<1>7. CASE run \in {no("other"), no("404"), no("409")}
  BY <1>3, <1>7 DEF Codes, Typed
<1>8. CASE req.op \in {"add", "addAny"} /\ run = conflict
  BY <1>4, <1>8 DEF Typed
<1>9. ASSUME req.op \in {"add", "addAny"}, NEW k \in free,
             run = yes(Mapped(mapping, {k}, req.client), {k}, req.client)
      PROVE  /\ Typed(run)
             /\ run.ans.keys \subseteq req.keys
             /\ \A j \in run.ans.keys : run.map[j] = req.client
  <2>1. {k} \in SUBSET Keys /\ {k} \subseteq req.keys
    BY <1>1 DEF free
  <2>2. Mapped(mapping, {k}, req.client) \in [Keys -> Clients \cup {None}]
    BY <1>1, <1>5, <2>1
  <2>3. /\ Typed(run) /\ run.ans.keys = {k}
        /\ run.map = Mapped(mapping, {k}, req.client)
    <3> DEFINE m == Mapped(mapping, {k}, req.client)
    <3> HIDE DEF m
    <3>1. m \in [Keys -> Clients \cup {None}] /\ run = yes(m, {k}, req.client)
      BY <1>9, <2>2 DEF m
    <3>2. Typed(run) /\ run.ans.keys = {k} /\ run.map = m
      BY <1>1, <1>2, <2>1, <3>1
    <3> QED BY <3>2 DEF m
  <2> QED BY <1>1, <1>5, <2>1, <2>3
<1>10. ASSUME req.op \in {"delete", "deleteRange"},
              run = yes(Mapped(mapping, found, None), found, None)
       PROVE  Typed(run)
  BY <1>1, <1>2, <1>5, <1>10
<1>11. ASSUME NEW k \in Keys, run = yes(mapping, {k}, mapping[k])
       PROVE  /\ Typed(run) /\ run.map = mapping
              /\ \A j \in run.ans.keys : run.map[j] = run.ans.client
  <2>1. {k} \in SUBSET Keys /\ mapping[k] \in Clients \cup {None}
    OBVIOUS
  <2>2. /\ Typed(run) /\ run.map = mapping /\ run.ans.keys = {k}
        /\ run.ans.client = mapping[k]
    BY <1>2, <1>11, <2>1
  <2> QED BY <2>2
<1>12. CASE req.op = "get" /\ \E k \in found : run = yes(mapping, {k}, mapping[k])
  BY <1>1, <1>11, <1>12 DEF Typed
<1>13. CASE /\ req.op = "count" /\ req.index < Cardinality(Entries(mapping))
            /\ \E k \in Entries(mapping) : run = yes(mapping, {k}, mapping[k])
  BY <1>1, <1>11, <1>13 DEF Typed
<1> QED BY <1>6, <1>7, <1>8, <1>9, <1>10, <1>12, <1>13 DEF Typed

-----------------------------------------------------------------------------
\* What one turn of the loop of mg_mgr_poll() does with a connection.
LEMMA EventTypes ==
  ASSUME TInv, NEW c \in Conn, c.peer = "answered" => c.ans \in Answer
  PROVE  /\ Event(c) = "msg" => c.peer = "answered"
         /\ Stays(c, Event(c)) \in Conn
         /\ Stays(c, Event(c)).peer = "answered" => Stays(c, Event(c)).ans \in Answer
         /\ Handler(Event(c), data, c) \in
                [req : Request, code : Codes, resp : Answer \cup {None}, done : BOOLEAN]
<1> DEFINE ev == Event(c)
<1>1. ev \in {"close", "connect", "error", "msg", "write", "none"}
  BY DEF Event
<1>2. ev = "msg" => c.peer = "answered"
  BY DEF Event
<1>3. data \in [req : Request, code : Codes, resp : Answer \cup {None}, done : BOOLEAN]
  BY DEF TInv, TypeOK
<1> HIDE DEF ev
<1>4. /\ Stays(c, ev) \in Conn
      /\ Stays(c, ev).peer = "answered" => Stays(c, ev).ans \in Answer
  <2>1. CASE ev = "connect"
    BY <1>3, <2>1 DEF Stays, Conn, ConnStates
  <2>2. CASE ev = "write"
    BY <2>2 DEF Stays, Conn, ConnStates, PeerStates
  <2>3. CASE ev \notin {"connect", "write"}
    BY <2>3 DEF Stays
  <2> QED BY <2>1, <2>2, <2>3
<1>5. Handler(ev, data, c) \in
          [req : Request, code : Codes, resp : Answer \cup {None}, done : BOOLEAN]
  BY <1>1, <1>2, <1>3 DEF Handler, Answer
<1> QED BY <1>2, <1>4, <1>5 DEF ev

\* A connection taken out of the list leaves the others as they were.
LEMMA RemoveAtSeq ==
  ASSUME NEW S, NEW s \in Seq(S), NEW i \in 1 .. Len(s)
  PROVE  /\ RemoveAt(s, i) \in Seq(S)
         /\ Len(RemoveAt(s, i)) = Len(s) - 1
         /\ \A j \in 1 .. Len(s) - 1 :
                RemoveAt(s, i)[j] = IF j < i THEN s[j] ELSE s[j + 1]
<1> DEFINE before == SubSeq(s, 1, i - 1)
           after  == SubSeq(s, i + 1, Len(s))
<1>0. Len(s) \in Nat /\ i \in Nat /\ \A j \in 1 .. Len(s) : s[j] \in S
  BY LenProperties, ElementOfSeq
<1>1. /\ before \in Seq(S) /\ Len(before) = i - 1
      /\ \A j \in 1 .. i - 1 : before[j] = s[j]
  <2>1. \A j \in 1 .. i - 1 : s[j] \in S
    BY <1>0
  <2>2. /\ before \in Seq(S)
        /\ Len(before) = IF 1 <= i - 1 THEN (i - 1) - 1 + 1 ELSE 0
        /\ \A j \in 1 .. (i - 1) - 1 + 1 : before[j] = s[1 + j - 1]
    BY <1>0, <2>1, SubSeqProperties
  <2> QED BY <1>0, <2>2
<1>2. /\ after \in Seq(S) /\ Len(after) = Len(s) - i
      /\ \A j \in 1 .. Len(s) - i : after[j] = s[i + j]
  <2>1. \A j \in i + 1 .. Len(s) : s[j] \in S
    BY <1>0
  <2>2. /\ after \in Seq(S)
        /\ Len(after) = IF i + 1 <= Len(s) THEN Len(s) - (i + 1) + 1 ELSE 0
        /\ \A j \in 1 .. Len(s) - (i + 1) + 1 : after[j] = s[(i + 1) + j - 1]
    BY <1>0, <2>1, SubSeqProperties
  <2> QED BY <1>0, <2>2
<1> HIDE DEF before, after
<1>3. /\ before \o after \in Seq(S)
      /\ Len(before \o after) = Len(before) + Len(after)
      /\ \A j \in 1 .. Len(before) + Len(after) : (before \o after)[j] =
             IF j <= Len(before) THEN before[j] ELSE after[j - Len(before)]
  BY <1>1, <1>2, ConcatProperties
<1>4. Len(before) + Len(after) = Len(s) - 1
  BY <1>0, <1>1, <1>2
<1>5. \A j \in 1 .. Len(s) - 1 :
          (before \o after)[j] = IF j < i THEN s[j] ELSE s[j + 1]
  <2> SUFFICES ASSUME NEW j \in 1 .. Len(s) - 1
               PROVE  (before \o after)[j] = IF j < i THEN s[j] ELSE s[j + 1]
    OBVIOUS
  <2>1. CASE j < i
    BY <1>0, <1>1, <1>3, <1>4, <2>1
  <2>2. CASE ~(j < i)
    <3>1. j - (i - 1) \in 1 .. Len(s) - i /\ i + (j - (i - 1)) = j + 1
      BY <1>0, <2>2
    <3>2. (before \o after)[j] = after[j - (i - 1)]
      BY <1>0, <1>1, <1>3, <1>4, <2>2
    <3>3. after[j - (i - 1)] = s[i + (j - (i - 1))]
      BY <1>2, <3>1
    <3> QED BY <2>2, <3>1, <3>2, <3>3
  <2> QED BY <2>1, <2>2
<1> QED BY <1>3, <1>4, <1>5 DEF RemoveAt, before, after

\* The results of the SOAP actions, for whatever `data' holds at the end.
LEMMA ResultType ==
  ASSUME NEW d \in [req : Request, code : Codes, resp : Answer \cup {None},
                    done : BOOLEAN]
  PROVE  Result(d) \in {"ok", "501", "714", "718", "728", "729", "730"}
<1>1. d.req.op \in Ops
  BY DEF Request
<1>2. AddResult(d) \in {"ok", "conflict", "exists", "failure"}
  BY DEF AddResult, Answer, Codes
<1>3. AddPortMapping(d) \in {"ok", "729", "718", "501"}
  <2>1. AddRedirect(d) \in {"0", "-4", "-2", "-1"}
    BY <1>2 DEF AddRedirect
  <2> QED BY <2>1 DEF AddPortMapping
<1>4. AddAnyPortMapping(d) \in {"ok", "728", "501"}
  <2>1. AddAnyRedirect(d) \in {"0", "1", "-1"}
    BY <1>2 DEF AddAnyRedirect
  <2> QED BY <2>1 DEF AddAnyPortMapping
<1>5. /\ DeletePortMapping(d) \in {"ok", "714"}
      /\ DeletePortMappingRange(d) \in {"ok", "730"}
      /\ GetSpecificPortMappingEntry(d) \in {"ok", "714"}
  BY DEF DeletePortMapping, DeletePortMappingRange, GetSpecificPortMappingEntry
<1> QED BY <1>1, <1>3, <1>4, <1>5 DEF Result, Ops

\* A request, or no request, makes well typed call data.
LEMMA NewDataType ==
  ASSUME NEW req \in Request
  PROVE  /\ StartCall(req) \in [req : Request, code : Codes,
                                resp : Answer \cup {None}, done : BOOLEAN]
         /\ StartCall(req).req = req /\ StartCall(req).resp = None
         /\ ~StartCall(req).done
BY DEF StartCall, NewData, Codes

\* The request of nobody, and the answer to it.
LEMMA NoRequestType ==
  /\ NoRequest \in Request
  /\ NewData(NoRequest) \in [req : Request, code : Codes,
                             resp : Answer \cup {None}, done : BOOLEAN]
  /\ NoAnswer \in [req : Request, resp : Answer \cup {None},
                   result : {"none", "ok", "501", "714", "718", "728", "729", "730"}]
BY DEF NoRequest, NewData, NoAnswer, Request, Ops, Codes

\* A change of the controller's table.
LEMMA TablesTypes ==
  ASSUME TInv, NEW m \in [Keys -> Clients \cup {None}], Tables(m)
  PROVE  /\ mapping' \in [Keys -> Clients \cup {None}]
         /\ held' \subseteq Keys \X (Clients \cup {None})
         /\ peak' \in 0 .. Cardinality(Keys)
<1>1. Table(m) \subseteq Keys \X (Clients \cup {None})
  BY DEF Table
<1>2. Cardinality(Entries(m)) \in 0 .. Cardinality(Keys)
  BY EntriesCount
<1>3. /\ held \subseteq Keys \X (Clients \cup {None})
      /\ peak \in 0 .. Cardinality(Keys)
  BY DEF TInv, TypeOK
<1> QED BY <1>1, <1>2, <1>3 DEF Tables

\* What the peers do to a connection.
LEMMA PeerMovesTypes ==
  ASSUME TInv, NEW i \in 1 .. Len(conns), NEW from, NEW c \in Conn,
         c.peer = "answered" => c.ans \in Answer, PeerMoves(i, from, c)
  PROVE  /\ conns' \in Seq(Conn)
         /\ Len(conns') = Len(conns)
         /\ \A j \in 1 .. Len(conns') :
                conns'[j].peer = "answered" => conns'[j].ans \in Answer
<1>1. conns \in Seq(Conn) /\ conns' = [conns EXCEPT ![i] = c]
  BY DEF TInv, TypeOK, PeerMoves
<1>2. /\ conns' \in Seq(Conn)
      /\ Len(conns') = Len(conns)
      /\ \A j \in 1 .. Len(conns) : conns'[j] = IF j = i THEN c ELSE conns[j]
  BY <1>1, ExceptSeq
<1> QED BY <1>2 DEF TInv

\* A new connection is put at the head of the list.
LEMMA NewConnTypes ==
  ASSUME TInv, NEW st \in ConnStates, NEW peer \in PeerStates \ {"answered"},
         conns' = <<NewConn(st, peer)>> \o conns
  PROVE  /\ conns' \in Seq(Conn)
         /\ Len(conns') = Len(conns) + 1
         /\ conns'[1] = NewConn(st, peer)
         /\ \A j \in 1 .. Len(conns') :
                conns'[j].peer = "answered" => conns'[j].ans \in Answer
<1> DEFINE c == NewConn(st, peer)
<1>1. c \in Conn /\ c.peer # "answered"
  BY DEF NewConn, Conn, TInv, TypeOK
<1>2. conns \in Seq(Conn) /\ Len(conns) \in Nat
  BY LenProperties DEF TInv, TypeOK
<1> HIDE DEF c
<1>3. <<c>> \in Seq(Conn) /\ Len(<<c>>) = 1 /\ <<c>>[1] = c
  BY <1>1
<1>4. /\ <<c>> \o conns \in Seq(Conn)
      /\ Len(<<c>> \o conns) = 1 + Len(conns)
      /\ \A j \in 1 .. 1 + Len(conns) :
             (<<c>> \o conns)[j] = IF j <= 1 THEN <<c>>[j] ELSE conns[j - 1]
  <2>1. /\ <<c>> \o conns \in Seq(Conn)
        /\ Len(<<c>> \o conns) = Len(<<c>>) + Len(conns)
        /\ \A j \in 1 .. Len(<<c>>) + Len(conns) : (<<c>> \o conns)[j] =
               IF j <= Len(<<c>>) THEN <<c>>[j] ELSE conns[j - Len(<<c>>)]
    BY <1>2, <1>3, ConcatProperties
  <2> QED BY <1>3, <2>1
<1>5. conns' = <<c>> \o conns
  BY DEF c
<1>6. conns'[1] = c
  BY <1>2, <1>3, <1>4, <1>5
<1>7. \A j \in 1 .. Len(conns') :
          conns'[j].peer = "answered" => conns'[j].ans \in Answer
  <2> SUFFICES ASSUME NEW j \in 1 .. Len(conns'), conns'[j].peer = "answered"
               PROVE  conns'[j].ans \in Answer
    OBVIOUS
  <2>1. j # 1
    BY <1>1, <1>6
  <2>2. j - 1 \in 1 .. Len(conns) /\ conns'[j] = conns[j - 1]
    BY <1>2, <1>4, <1>5, <2>1
  <2> QED BY <2>2 DEF TInv
<1> QED BY <1>2, <1>4, <1>5, <1>6, <1>7 DEF c

-----------------------------------------------------------------------------
\* The initial state is well typed.
LEMMA InitTInv == Init => TInv
<1> SUFFICES ASSUME Init PROVE TInv
  OBVIOUS
<1>1. conns \in Seq(Conn) /\ Len(conns) = 0
  BY EmptySeq DEF Init
<1>2. peak \in 0 .. Cardinality(Keys)
  BY KeysAssumption, FS_CardinalityType DEF Init
<1>3. mapping \in [Keys -> Clients \cup {None}] /\ held = {} /\ orphans = {}
  BY DEF Init
<1>4. TypeOK
  BY <1>1, <1>2, <1>3, NoRequestType DEF Init, TypeOK, Phases
<1> QED BY <1>1, <1>4 DEF Init, TInv

\* A SOAP action starts a call.
LEMMA SoapTInv ==
  ASSUME TInv, NEW req \in Request, Soap(req)
  PROVE  TInv'
<1>1. Table(mapping) \subseteq Keys \X (Clients \cup {None})
  BY DEF Table, TInv, TypeOK
<1>2. /\ held' \subseteq Keys \X (Clients \cup {None})
      /\ peak' \in 0 .. Cardinality(Keys)
      /\ heard' \in BOOLEAN /\ phase' = "call"
      /\ UNCHANGED <<mapping, orphans, conns, pos>>
  BY <1>1, EntriesCount DEF Soap
<1>3. TypeOK'
  BY <1>2, NewDataType, NoRequestType DEF Soap, TInv, TypeOK, Phases
<1> QED BY <1>2, <1>3 DEF TInv

\* The requests of the control points are requests.
LEMMA AskedTypes ==
  /\ \A k \in Keys : /\ \A c \in Clients : Asked("add", {k}, c) \in Request
                     /\ Asked("delete", {k}, None) \in Request
                     /\ Asked("get", {k}, None) \in Request
  /\ \A ks \in SUBSET Keys :
         /\ \A c \in Clients : Asked("addAny", ks, c) \in Request
         /\ Asked("deleteRange", ks, None) \in Request
  /\ Asked("count", {}, None) \in Request
BY DEF Asked, Request, Ops

\* The controller accepts, refuses, serves and drops.
LEMMA ControllerTInv ==
  ASSUME TInv, Controller
  PROVE  TInv'
<1>0. /\ \A i \in 1 .. Len(conns) : conns[i] \in Conn
      /\ mapping \in [Keys -> Clients \cup {None}]
  BY ElementOfSeq DEF TInv, TypeOK
<1>1. ASSUME NEW i \in 1 .. Len(conns), Accept(i) \/ Refuse(i) PROVE TInv'
  <2>1. PICK peer \in {"accepted", "refused"} :
            PeerMoves(i, {"pending"}, [conns[i] EXCEPT !.peer = peer])
    BY <1>1 DEF Accept, Refuse
  <2>2. /\ [conns[i] EXCEPT !.peer = peer] \in Conn
        /\ [conns[i] EXCEPT !.peer = peer].peer # "answered"
    BY <1>0 DEF Conn, PeerStates
  <2>3. /\ conns' \in Seq(Conn)
        /\ \A j \in 1 .. Len(conns') :
               conns'[j].peer = "answered" => conns'[j].ans \in Answer
    BY <2>1, <2>2, PeerMovesTypes
  <2>4. UNCHANGED <<mapping, orphans, daemonVars, held, peak>>
    BY <1>1 DEF Accept, Refuse
  <2> QED BY <2>3, <2>4 DEF TInv, TypeOK, daemonVars
<1>2. ASSUME NEW i \in 1 .. Len(conns), Serve(i) PROVE TInv'
  <2>1. PICK run \in Runs(conns[i].req) :
            /\ Tables(run.map)
            /\ \/ PeerMoves(i, {"request"},
                      [conns[i] EXCEPT !.peer = "answered", !.ans = run.ans])
               \/ PeerMoves(i, {"request"}, [conns[i] EXCEPT !.peer = "eof"])
    BY <1>2 DEF Serve
  <2>2. run.map \in [Keys -> Clients \cup {None}] /\ run.ans \in Answer
    BY <1>0, RunsAnswer DEF Conn
  <2>3. PICK c \in Conn : /\ c.peer = "answered" => c.ans \in Answer
                          /\ PeerMoves(i, {"request"}, c)
    <3>1. /\ [conns[i] EXCEPT !.peer = "answered", !.ans = run.ans] \in Conn
          /\ [conns[i] EXCEPT !.peer = "answered", !.ans = run.ans].ans \in Answer
      BY <1>0, <2>2 DEF Conn, PeerStates
    <3>2. /\ [conns[i] EXCEPT !.peer = "eof"] \in Conn
          /\ [conns[i] EXCEPT !.peer = "eof"].peer # "answered"
      BY <1>0 DEF Conn, PeerStates
    <3> QED BY <2>1, <3>1, <3>2
  <2>4. /\ conns' \in Seq(Conn)
        /\ \A j \in 1 .. Len(conns') :
               conns'[j].peer = "answered" => conns'[j].ans \in Answer
    BY <2>3, PeerMovesTypes
  <2>5. /\ mapping' \in [Keys -> Clients \cup {None}]
        /\ held' \subseteq Keys \X (Clients \cup {None})
        /\ peak' \in 0 .. Cardinality(Keys)
    BY <2>1, <2>2, TablesTypes
  <2>6. UNCHANGED <<orphans, daemonVars>>
    BY <1>2 DEF Serve
  <2> QED BY <2>4, <2>5, <2>6 DEF TInv, TypeOK, daemonVars
<1>3. ASSUME NEW i \in 1 .. Len(conns), Drop(i) PROVE TInv'
  <2>1. /\ [conns[i] EXCEPT !.peer = "eof"] \in Conn
        /\ [conns[i] EXCEPT !.peer = "eof"].peer # "answered"
        /\ conns[i].req \in Request
    BY <1>0 DEF Conn, PeerStates
  <2>2. /\ conns' \in Seq(Conn)
        /\ \A j \in 1 .. Len(conns') :
               conns'[j].peer = "answered" => conns'[j].ans \in Answer
    BY <1>3, <2>1, PeerMovesTypes DEF Drop
  <2>3. orphans' \subseteq Request
    BY <1>3, <2>1 DEF Drop, Changing, TInv, TypeOK
  <2>4. UNCHANGED <<mapping, daemonVars, held, peak>>
    BY <1>3 DEF Drop
  <2> QED BY <2>2, <2>3, <2>4 DEF TInv, TypeOK, daemonVars
<1>4. ASSUME NEW req \in orphans, ServeOrphan(req) PROVE TInv'
  <2>1. PICK run \in Runs(req) : Tables(run.map)
    BY <1>4 DEF ServeOrphan
  <2>2. req \in Request
    BY <1>4 DEF TInv, TypeOK
  <2>3. /\ mapping' \in [Keys -> Clients \cup {None}]
        /\ held' \subseteq Keys \X (Clients \cup {None})
        /\ peak' \in 0 .. Cardinality(Keys)
    BY <1>0, <2>1, <2>2, RunsAnswer, TablesTypes
  <2>4. orphans' \subseteq orphans /\ UNCHANGED <<conns, daemonVars>>
    BY <1>4 DEF ServeOrphan
  <2> QED BY <2>3, <2>4 DEF TInv, TypeOK, daemonVars
<1>5. ASSUME NEW k \in Keys, Expire(k) PROVE TInv'
  <2>1. Mapped(mapping, {k}, None) \in [Keys -> Clients \cup {None}]
    BY <1>0 DEF Mapped
  <2>2. /\ mapping' \in [Keys -> Clients \cup {None}]
        /\ held' \subseteq Keys \X (Clients \cup {None})
        /\ peak' \in 0 .. Cardinality(Keys)
    BY <1>5, <2>1, TablesTypes DEF Expire
  <2>3. UNCHANGED <<orphans, conns, daemonVars>>
    BY <1>5 DEF Expire
  <2> QED BY <2>2, <2>3 DEF TInv, TypeOK, daemonVars
<1> QED BY <1>1, <1>2, <1>3, <1>4, <1>5 DEF Controller

\* One turn of the loop of mg_mgr_poll().
LEMMA VisitTInv ==
  ASSUME TInv, Visit
  PROVE  TInv'
<1> DEFINE c  == conns[pos]
           ev == Event(c)
<1>1. pos \in 1 .. Len(conns) /\ pos \in Nat /\ Len(conns) \in Nat /\ conns \in Seq(Conn)
  BY LenProperties DEF TInv, TypeOK, Visit
<1>2. c \in Conn /\ (c.peer = "answered" => c.ans \in Answer)
  BY <1>1, ElementOfSeq DEF TInv
<1>3. /\ Stays(c, ev) \in Conn
      /\ Stays(c, ev).peer = "answered" => Stays(c, ev).ans \in Answer
      /\ Handler(ev, data, c) \in [req : Request, code : Codes,
                                   resp : Answer \cup {None}, done : BOOLEAN]
  BY <1>2, EventTypes
<1>4. /\ conns' = IF Closed(ev) THEN RemoveAt(conns, pos)
                                ELSE [conns EXCEPT ![pos] = Stays(c, ev)]
      /\ pos' = IF Closed(ev) THEN pos ELSE pos + 1
      /\ data' = IF Mine(c) THEN Handler(ev, data, c) ELSE data
      /\ heard' \in BOOLEAN
      /\ UNCHANGED <<mapping, orphans, phase, last, held, peak>>
  BY DEF Visit
<1> HIDE DEF c, ev
<1>5. /\ conns' \in Seq(Conn)
      /\ \A j \in 1 .. Len(conns') :
             conns'[j].peer = "answered" => conns'[j].ans \in Answer
  <2>1. CASE Closed(ev)
    <3>1. /\ conns' \in Seq(Conn) /\ Len(conns') = Len(conns) - 1
          /\ \A j \in 1 .. Len(conns) - 1 :
                 conns'[j] = IF j < pos THEN conns[j] ELSE conns[j + 1]
      BY <1>1, <1>4, <2>1, RemoveAtSeq
    <3> QED BY <1>1, <3>1 DEF TInv
  <2>2. CASE ~Closed(ev)
    <3>1. /\ conns' \in Seq(Conn) /\ Len(conns') = Len(conns)
          /\ \A j \in 1 .. Len(conns) :
                 conns'[j] = IF j = pos THEN Stays(c, ev) ELSE conns[j]
      BY <1>1, <1>3, <1>4, <2>2, ExceptSeq
    <3> QED BY <1>3, <3>1 DEF TInv
  <2> QED BY <2>1, <2>2
<1>6. data' \in [req : Request, code : Codes, resp : Answer \cup {None}, done : BOOLEAN]
  BY <1>3, <1>4 DEF TInv, TypeOK
<1>7. pos' \in Nat /\ pos' >= 1
  BY <1>1, <1>4
<1> QED BY <1>4, <1>5, <1>6, <1>7 DEF TInv, TypeOK

\* Every step keeps the state well typed.
LEMMA NextTInv == TInv /\ [Next]_vars => TInv'
<1> SUFFICES ASSUME TInv, [Next]_vars PROVE TInv'
  OBVIOUS
<1> DEFINE Data == [req : Request, code : Codes, resp : Answer \cup {None},
                    done : BOOLEAN]
<1>0. data \in Data /\ pos \in Nat /\ data.req \in Request
  BY DEF TInv, TypeOK
<1>1. CASE SoapAction
  BY <1>1, SoapTInv, AskedTypes DEF SoapAction
<1>2. CASE Controller
  BY <1>2, ControllerTInv
<1>3. CASE Connect
  <2>1. "connecting" \in ConnStates /\ "pending" \in PeerStates \ {"answered"}
    BY DEF ConnStates, PeerStates
  <2>2. /\ conns' \in Seq(Conn)
        /\ \A j \in 1 .. Len(conns') :
               conns'[j].peer = "answered" => conns'[j].ans \in Answer
    BY <1>3, <2>1, NewConnTypes DEF Connect
  <2> QED BY <1>3, <2>2 DEF Connect, TInv, TypeOK, Phases
<1>4. CASE ConnectFails
  <2>1. "closing" \in ConnStates /\ "refused" \in PeerStates \ {"answered"}
    BY DEF ConnStates, PeerStates
  <2>2. /\ conns' \in Seq(Conn)
        /\ \A j \in 1 .. Len(conns') :
               conns'[j].peer = "answered" => conns'[j].ans \in Answer
    BY <1>4, <2>1, NewConnTypes DEF ConnectFails
  <2>3. data' \in Data
    BY <1>0, <1>4 DEF ConnectFails
  <2> QED BY <1>4, <2>2, <2>3 DEF ConnectFails, TInv, TypeOK, Phases
<1>5. CASE Select
  BY <1>5 DEF Select, TInv, TypeOK, Phases
<1>6. CASE Visit
  BY <1>6, VisitTInv
<1>7. CASE Wild
  BY <1>7 DEF Wild, TInv, TypeOK, Phases
<1>8. CASE EndOfPass
  BY <1>8 DEF EndOfPass, TInv, TypeOK, Phases
<1>9. CASE NextIndex
  <2>1. [data.req EXCEPT !.index = @ + 1] \in Request
    BY <1>0 DEF Request
  <2>2. data' \in Data
    BY <1>9, <2>1, NewDataType DEF NextIndex
  <2> QED BY <1>9, <2>2 DEF NextIndex, TInv, TypeOK, Phases
<1>10. CASE Return
  <2>1. last' \in [req : Request, resp : Answer \cup {None},
                   result : {"none", "ok", "501", "714", "718", "728", "729", "730"}]
    <3>1. Result(data) \in {"ok", "501", "714", "718", "728", "729", "730"}
      BY <1>0, ResultType
    <3> QED BY <1>0, <1>10, <3>1 DEF Return
  <2>2. data' \in Data
    BY <1>10, NoRequestType DEF Return
  <2> QED BY <1>10, <2>1, <2>2 DEF Return, TInv, TypeOK, Phases
<1>11. CASE Restart
  <2>1. conns' \in Seq(Conn) /\ Len(conns') = 0
    BY <1>11, EmptySeq DEF Restart
  <2>2. orphans' \subseteq Request
    <3>1. \A i \in 1 .. Len(conns) : conns[i].req \in Request
      <4>1. \A i \in 1 .. Len(conns) : conns[i] \in Conn
        BY ElementOfSeq DEF TInv, TypeOK
      <4> QED BY <4>1 DEF Conn
    <3> QED BY <1>11, <3>1 DEF Restart, Changing, TInv, TypeOK
  <2>3. /\ data' \in Data /\ phase' = "idle" /\ pos' = 0
        /\ last' = NoAnswer
        /\ UNCHANGED <<mapping, held, peak, heard>>
    BY <1>11, NoRequestType DEF Restart
  <2> QED BY <2>1, <2>2, <2>3, NoRequestType DEF TInv, TypeOK, Phases
<1>12. CASE UNCHANGED vars
  BY <1>12 DEF vars, TInv, TypeOK
<1> QED
  BY <1>1, <1>2, <1>3, <1>4, <1>5, <1>6, <1>7, <1>8, <1>9, <1>10, <1>11, <1>12
  DEF Next, Daemon

\* The state of the daemon, its connections and the controller always has its
\* type, however the connections fail: in particular every SOAP action has one
\* of the results the code has an answer for.
THEOREM TypeCorrect == Spec => []TypeOK
<1>1. TInv => TypeOK
  BY DEF TInv
<1> QED BY InitTInv, NextTInv, <1>1, PTL DEF Spec

-----------------------------------------------------------------------------
\* A result that rests on the controller's answer is never a success when the
\* call got none.
LEMMA OkHasResponse ==
  ASSUME NEW d \in [req : Request, code : Codes, resp : Answer \cup {None},
                    done : BOOLEAN],
         d.req.op \in {"add", "addAny", "deleteRange", "get"}, Result(d) = "ok"
  PROVE  d.resp # None /\ d.code = "200"
<1>1. AddResult(d) \in {"ok", "conflict", "exists", "failure"}
  BY DEF AddResult, Answer, Codes
<1>2. AddResult(d) = "ok" => d.resp # None /\ d.code = "200"
  BY DEF AddResult
<1>3. d.req.op = "add" => AddResult(d) = "ok"
  BY <1>1 DEF Result, AddPortMapping, AddRedirect
<1>4. d.req.op = "addAny" => AddResult(d) = "ok"
  BY <1>1 DEF Result, AddAnyPortMapping, AddAnyRedirect
<1>5. d.req.op = "deleteRange" => d.resp # None /\ d.code = "200"
  BY DEF Result, DeletePortMappingRange, DeleteInRange
<1>6. d.req.op = "get" => d.resp # None /\ d.code = "200"
  BY DEF Result, GetSpecificPortMappingEntry, GetRedirectRule
<1> QED BY <1>2, <1>3, <1>4, <1>5, <1>6

\* Every step keeps the response and the fact that it was heard together.
LEMMA NextHInv == HInv /\ [Next]_vars => HInv'
<1> SUFFICES ASSUME HInv, [Next]_vars PROVE HInv'
  OBVIOUS
<1>0. /\ TInv /\ TInv'
      /\ data \in [req : Request, code : Codes, resp : Answer \cup {None},
                   done : BOOLEAN]
  BY NextTInv DEF HInv, TInv, TypeOK
<1>1. ASSUME data' = data, heard' = heard, last' = last,
             phase' = phase \/ phase' # "idle"
      PROVE  HInv'
  BY <1>0, <1>1 DEF HInv, OkNeedsAnswer, Ok
<1>2. ASSUME NEW req \in Request, Soap(req) PROVE HInv'
  <2>1. data'.resp = None /\ phase' = "call"
    BY <1>2, NewDataType DEF Soap
  <2> QED BY <1>0, <2>1 DEF HInv, OkNeedsAnswer, Ok
<1>3. CASE SoapAction
  BY <1>2, <1>3, AskedTypes DEF SoapAction
<1>4. CASE Controller
  <2>1. UNCHANGED daemonVars
    BY <1>4 DEF Controller, Accept, Refuse, Serve, Drop, ServeOrphan, Expire
  <2> QED BY <1>1, <2>1 DEF daemonVars
<1>5. CASE Connect \/ Select \/ Wild \/ EndOfPass
  BY <1>1, <1>5 DEF Connect, Select, Wild, EndOfPass
<1>6. CASE ConnectFails
  <2>1. data'.resp = data.resp /\ heard' = heard /\ phase' = "return"
    BY <1>0, <1>6 DEF ConnectFails
  <2> QED BY <1>0, <2>1 DEF HInv, OkNeedsAnswer, Ok
<1>7. CASE Visit
  <2>1. /\ phase = "pass" /\ phase' = "pass"
        /\ data' = IF Mine(conns[pos])
                   THEN Handler(Event(conns[pos]), data, conns[pos]) ELSE data
        /\ heard' = (heard \/ (Event(conns[pos]) = "msg" /\ Mine(conns[pos])))
    BY <1>7 DEF Visit
  <2>2. Event(conns[pos]) # "msg" => data'.resp = data.resp
    BY <1>0, <2>1 DEF Handler
  <2>3. data'.resp # None => heard'
    BY <2>1, <2>2 DEF HInv
  <2> QED BY <1>0, <2>1, <2>3 DEF HInv, OkNeedsAnswer, Ok
<1>8. CASE NextIndex
  <2>1. [data.req EXCEPT !.index = @ + 1] \in Request
    BY <1>0 DEF Request
  <2>2. data'.resp = None /\ phase' = "call"
    BY <1>8, <2>1, NewDataType DEF NextIndex
  <2> QED BY <1>0, <2>2 DEF HInv, OkNeedsAnswer, Ok
<1>9. CASE Return
  <2>1. /\ last' = [req |-> data.req, result |-> Result(data), resp |-> data.resp]
        /\ data' = NewData(NoRequest) /\ heard' = heard
    BY <1>9 DEF Return
  <2>2. OkNeedsAnswer'
    <3> SUFFICES ASSUME last'.req.op \in {"add", "addAny", "deleteRange", "get"},
                        last'.result = "ok"
                 PROVE  heard'
      BY DEF OkNeedsAnswer, Ok
    <3>1. data.req.op \in {"add", "addAny", "deleteRange", "get"} /\ Result(data) = "ok"
      BY <2>1
    <3> QED BY <1>0, <2>1, <3>1, OkHasResponse DEF HInv
  <2> QED BY <1>0, <2>1, <2>2 DEF HInv, NewData
<1>10. CASE Restart
  BY <1>0, <1>10 DEF Restart, HInv, OkNeedsAnswer, Ok, NoAnswer, NewData
<1>11. CASE UNCHANGED vars
  BY <1>1, <1>11 DEF vars
<1> QED
  BY <1>3, <1>4, <1>5, <1>6, <1>7, <1>8, <1>9, <1>10, <1>11 DEF Next, Daemon

\* An AddPortMapping, AddAnyPortMapping, DeletePortMappingRange or
\* GetSpecificPortMappingEntry answered with success got a response of the
\* controller during its last call, also when mg_http_connect() fails at once
\* and leaves connections with a dead `data' behind.
THEOREM OkHeard == Spec => []OkNeedsAnswer
<1>1. Init => HInv
  BY InitTInv DEF Init, HInv, NewData, OkNeedsAnswer, Ok, NoAnswer
<1>2. HInv => OkNeedsAnswer
  BY DEF HInv
<1> QED BY <1>1, <1>2, NextHInv, PTL DEF Spec

-----------------------------------------------------------------------------
\* What the controller's answer to a request tells about its table.
Truthful(ans, req) ==
    /\ ans \in Answer
    /\ req.op \in {"add", "addAny"} /\ ans.code = "200" /\ ans.ret = "ok" =>
           /\ ans.keys \subseteq req.keys
           /\ \A k \in ans.keys : <<k, req.client>> \in held
    /\ req.op = "get" /\ ans.code = "200" =>
           \A k \in ans.keys : <<k, ans.client>> \in held
    /\ req.op = "count" /\ ans.code = "200" => req.index < peak

\* The connection of the call under way, and no other, is in the list.
OneConnection ==
    /\ Len(conns) <= 1
    /\ phase \in {"idle", "call", "return"} => Len(conns) = 0
    /\ phase = "call" => ~data.done
    /\ phase = "poll" => Len(conns) = 1
    /\ phase = "pass" => pos = 1 \/ (pos = 2 /\ Len(conns) = 1)
    /\ phase \in {"poll", "pass"} /\ Len(conns) = 1 =>
           /\ ~data.done
           /\ conns[1].req = data.req
           /\ conns[1].peer = "answered" => Truthful(conns[1].ans, data.req)
    /\ phase = "pass" /\ Len(conns) = 0 => data.done
    /\ phase # "down"

\* Everything the table said since the request came is remembered.
HistoryKept ==
    phase # "idle" =>
        /\ Table(mapping) \subseteq held
        /\ Cardinality(Entries(mapping)) <= peak
        /\ data.req.op = "count" => data.req.index <= peak
        /\ data.resp # None => Truthful(data.resp, data.req) /\ data.code = data.resp.code

\* The inductive invariant of a daemon whose mg_http_connect() does not fail
\* at once.
AInv == TInv /\ OneConnection /\ HistoryKept /\ AddDone /\ ReadsTrue

\* What was true of the table during a request stays true of its history.
LEMMA TruthfulKept ==
  ASSUME NEW ans, NEW req \in Request, Truthful(ans, req), held \subseteq held',
         peak \in Nat, peak' \in Nat, peak <= peak'
  PROVE  Truthful(ans, req)'
<1>1. req.index \in Nat
  BY DEF Request
<1> QED BY <1>1 DEF Truthful

\* A change of the table while a request is under way enters its history.
LEMMA TablesHistory ==
  ASSUME TInv, phase # "idle", NEW m \in [Keys -> Clients \cup {None}], Tables(m)
  PROVE  /\ mapping' = m
         /\ Table(m) \subseteq held' /\ held \subseteq held'
         /\ peak' \in Nat /\ peak <= peak' /\ Cardinality(Entries(m)) <= peak'
<1>1. Cardinality(Entries(m)) \in 0 .. Cardinality(Keys) /\ peak \in 0 .. Cardinality(Keys)
  BY EntriesCount DEF TInv, TypeOK
<1>2. Cardinality(Keys) \in Nat
  BY KeysAssumption, FS_CardinalityType
<1> QED BY <1>1, <1>2 DEF Tables

\* The answer the controller gives is true of the history of the request.
LEMMA RunsTruthful ==
  ASSUME TInv, phase # "idle", NEW req \in Request, NEW run \in Runs(req),
         Tables(run.map)
  PROVE  Truthful(run.ans, req)'
<1> DEFINE ans == run.ans
<1>1. mapping \in [Keys -> Clients \cup {None}] /\ req.index \in Nat
  BY DEF TInv, TypeOK, Request
<1>2. /\ run.map \in [Keys -> Clients \cup {None}]
      /\ ans \in Answer
      /\ req.op \in {"add", "addAny"} /\ ans.code = "200" /\ ans.ret = "ok" =>
             /\ ans.keys \subseteq req.keys
             /\ \A k \in ans.keys : run.map[k] = req.client
      /\ req.op = "get" /\ ans.code = "200" =>
             \A k \in ans.keys : run.map[k] = ans.client
      /\ req.op = "count" /\ ans.code = "200" =>
             req.index < Cardinality(Entries(run.map))
  BY <1>1, RunsAnswer
<1>3. /\ Table(run.map) \subseteq held'
      /\ peak' \in Nat /\ Cardinality(Entries(run.map)) <= peak'
  BY <1>2, TablesHistory
<1>4. ans.keys \subseteq Keys
  BY <1>2 DEF Answer
<1>5. \A k \in Keys : <<k, run.map[k]>> \in held'
  BY <1>3 DEF Table
<1>6. Cardinality(Entries(run.map)) \in Nat
  BY EntriesCount
<1> HIDE DEF ans
<1>7. /\ req.op \in {"add", "addAny"} /\ ans.code = "200" /\ ans.ret = "ok" =>
             /\ ans.keys \subseteq req.keys
             /\ \A k \in ans.keys : <<k, req.client>> \in held'
      /\ req.op = "get" /\ ans.code = "200" =>
             \A k \in ans.keys : <<k, ans.client>> \in held'
  BY <1>2, <1>4, <1>5
<1>8. req.op = "count" /\ ans.code = "200" => req.index < peak'
  BY <1>1, <1>2, <1>3, <1>6
<1> QED BY <1>2, <1>7, <1>8 DEF Truthful, ans

-----------------------------------------------------------------------------
\* While the daemon is idle the table changes and nothing else; the list of
\* connections is empty, so that no peer has anything to do.
LEMMA IdleControllerAInv ==
  ASSUME AInv, phase = "idle", Controller
  PROVE  AInv'
<1>0. TInv /\ TInv' /\ Len(conns) = 0
  BY NextTInv DEF AInv, OneConnection, Next
<1>1. \A i \in 1 .. Len(conns) : FALSE
  BY <1>0
<1>2. (\E req \in orphans : ServeOrphan(req)) \/ (\E k \in Keys : Expire(k))
  BY <1>1 DEF Controller
<1>3. UNCHANGED <<conns, daemonVars, held, peak>>
  BY <1>2 DEF ServeOrphan, Expire, Tables
<1> QED
  BY <1>0, <1>3
  DEF AInv, OneConnection, HistoryKept, AddDone, ReadsTrue, Ok, daemonVars

\* A move of the controller while a call is polling: the connection, if it
\* is answered, gets an answer that is true, and the history grows.
LEMMA PollAInv ==
  ASSUME AInv, TInv', phase = "poll", UNCHANGED daemonVars,
         held \subseteq held', peak <= peak', Table(mapping') \subseteq held',
         Cardinality(Entries(mapping')) <= peak',
         Len(conns') = 1, conns'[1].req = data.req,
         conns'[1].peer = "answered" =>
             \/ Truthful(conns[1].ans, data.req)'
             \/ conns'[1] = conns[1]
  PROVE  AInv'
<1>0. /\ TInv /\ data.req \in Request
      /\ data.req.index \in Nat
      /\ UNCHANGED <<phase, pos, data, last, heard>>
  BY DEF AInv, TInv, TypeOK, Request, daemonVars
<1>1. peak \in Nat /\ peak' \in Nat
  BY DEF AInv, TInv, TypeOK
<1>2. (conns[1].peer = "answered" => Truthful(conns[1].ans, data.req))'
  <2>1. conns[1].peer = "answered" => Truthful(conns[1].ans, data.req)
    BY DEF AInv, OneConnection
  <2>2. CASE conns'[1] = conns[1] /\ conns[1].peer = "answered"
    <3> DEFINE ans == conns[1].ans
    <3>1. Truthful(ans, data.req)
      BY <2>1, <2>2
    <3> QED BY <1>0, <1>1, <2>2, <3>1, TruthfulKept
  <2> QED BY <1>0, <2>2
<1>3. OneConnection'
  <2>1. ~data.done
    BY DEF AInv, OneConnection
  <2> QED BY <1>0, <1>2, <2>1 DEF OneConnection
<1>4. HistoryKept'
  <2>1. /\ data.req.op = "count" => data.req.index <= peak
        /\ data.resp # None =>
               Truthful(data.resp, data.req) /\ data.code = data.resp.code
    BY DEF AInv, HistoryKept
  <2>2. data.resp # None => Truthful(data.resp, data.req)'
    BY <1>0, <1>1, <2>1, TruthfulKept
  <2>3. data.req.op = "count" => data.req.index <= peak'
    BY <1>0, <1>1, <2>1
  <2>4. (data.resp # None => Truthful(data.resp, data.req))'
    BY <1>0, <2>2 DEF Truthful
  <2> QED BY <1>0, <2>1, <2>3, <2>4 DEF HistoryKept
<1>5. AddDone' /\ ReadsTrue'
  BY <1>0 DEF AddDone, ReadsTrue, Ok
<1> QED BY <1>3, <1>4, <1>5 DEF AInv

\* The controller while a call is polling.
LEMMA PollControllerAInv ==
  ASSUME AInv, phase = "poll", Controller
  PROVE  AInv'
<1>0. /\ TInv /\ TInv' /\ phase # "idle"
      /\ mapping \in [Keys -> Clients \cup {None}]
      /\ data.req \in Request
      /\ peak \in Nat
  BY NextTInv DEF AInv, TInv, TypeOK, Next
<1>1. /\ Len(conns) = 1 /\ conns \in Seq(Conn) /\ conns[1] \in Conn
      /\ conns[1].req = data.req
  <2>1. Len(conns) = 1 /\ conns \in Seq(Conn)
    BY <1>0 DEF AInv, OneConnection, TInv, TypeOK
  <2>2. conns[1] \in Conn
    BY <2>1, ElementOfSeq
  <2> QED BY <1>0, <2>1, <2>2 DEF AInv, OneConnection
<1>2. Table(mapping) \subseteq held /\ Cardinality(Entries(mapping)) <= peak
  BY <1>0 DEF AInv, HistoryKept
<1>3. ASSUME NEW i \in 1 .. Len(conns), NEW from, NEW c \in Conn,
             PeerMoves(i, from, c), c.req = data.req
      PROVE  Len(conns') = 1 /\ conns'[1] = c
  <2>1. i = 1 /\ conns' = [conns EXCEPT ![i] = c]
    BY <1>1, <1>3 DEF PeerMoves
  <2> QED BY <1>1, <2>1, ExceptSeq
<1>4. ASSUME NEW i \in 1 .. Len(conns), NEW from, NEW peer \in PeerStates \ {"answered"},
             PeerMoves(i, from, [conns[i] EXCEPT !.peer = peer]),
             UNCHANGED <<mapping, daemonVars, held, peak>>
      PROVE  AInv'
  <2> DEFINE c == [conns[i] EXCEPT !.peer = peer]
  <2>1. i = 1 /\ c \in Conn /\ c.req = data.req /\ c.peer # "answered"
    BY <1>1 DEF Conn
  <2>2. Len(conns') = 1 /\ conns'[1] = c
    BY <1>3, <1>4, <2>1
  <2> QED BY <1>0, <1>2, <1>4, <2>1, <2>2, PollAInv
<1>5. ASSUME NEW m \in [Keys -> Clients \cup {None}], Tables(m),
             UNCHANGED daemonVars
      PROVE  /\ held \subseteq held' /\ peak <= peak'
             /\ Table(mapping') \subseteq held'
             /\ Cardinality(Entries(mapping')) <= peak'
  BY <1>0, <1>5, TablesHistory
<1>6. ASSUME NEW i \in 1 .. Len(conns), Accept(i) PROVE AInv'
  BY <1>4, <1>6 DEF Accept, PeerStates
<1>7. ASSUME NEW i \in 1 .. Len(conns), Refuse(i) PROVE AInv'
  BY <1>4, <1>7 DEF Refuse, PeerStates
<1>8. ASSUME NEW i \in 1 .. Len(conns), Drop(i) PROVE AInv'
  BY <1>4, <1>8 DEF Drop, PeerStates
<1>9. ASSUME NEW i \in 1 .. Len(conns), Serve(i) PROVE AInv'
  <2>1. PICK run \in Runs(conns[i].req) :
            /\ Tables(run.map)
            /\ \/ PeerMoves(i, {"request"},
                      [conns[i] EXCEPT !.peer = "answered", !.ans = run.ans])
               \/ PeerMoves(i, {"request"}, [conns[i] EXCEPT !.peer = "eof"])
    BY <1>9 DEF Serve
  <2>2. i = 1 /\ conns[i].req = data.req /\ UNCHANGED daemonVars
    BY <1>1, <1>9 DEF Serve
  <2>3. run.map \in [Keys -> Clients \cup {None}] /\ run.ans \in Answer
    BY <1>0, <2>2, RunsAnswer
  <2>4. PICK req \in Request : req = data.req
    BY <1>0
  <2>5. Truthful(run.ans, req)'
    BY <1>0, <2>1, <2>2, <2>4, RunsTruthful
  <2>6. /\ held \subseteq held' /\ peak <= peak'
        /\ Table(mapping') \subseteq held'
        /\ Cardinality(Entries(mapping')) <= peak'
    BY <1>5, <2>1, <2>2, <2>3
  <2>7. CASE PeerMoves(i, {"request"},
                 [conns[i] EXCEPT !.peer = "answered", !.ans = run.ans])
    <3> DEFINE c == [conns[i] EXCEPT !.peer = "answered", !.ans = run.ans]
    <3>1. c \in Conn /\ c.req = data.req /\ c.ans = run.ans
      BY <1>1, <2>2, <2>3 DEF Conn, PeerStates
    <3>2. Len(conns') = 1 /\ conns'[1] = c
      BY <1>3, <2>7, <3>1
    <3>3. Truthful(conns[1].ans, data.req)'
      BY <2>2, <2>4, <2>5, <3>1, <3>2 DEF daemonVars, Truthful
    <3> QED BY <1>0, <2>2, <2>6, <3>1, <3>2, <3>3, PollAInv
  <2>8. CASE PeerMoves(i, {"request"}, [conns[i] EXCEPT !.peer = "eof"])
    <3> DEFINE c == [conns[i] EXCEPT !.peer = "eof"]
    <3>1. c \in Conn /\ c.req = data.req /\ c.peer # "answered"
      BY <1>1, <2>2 DEF Conn, PeerStates
    <3>2. Len(conns') = 1 /\ conns'[1] = c
      BY <1>3, <2>8, <3>1
    <3> QED BY <1>0, <2>2, <2>6, <3>1, <3>2, PollAInv
  <2> QED BY <2>1, <2>7, <2>8
<1>10. ASSUME NEW m \in [Keys -> Clients \cup {None}], Tables(m),
              UNCHANGED <<conns, daemonVars>>
       PROVE  AInv'
  <2>1. /\ held \subseteq held' /\ peak <= peak'
        /\ Table(mapping') \subseteq held'
        /\ Cardinality(Entries(mapping')) <= peak'
    BY <1>5, <1>10
  <2> QED BY <1>0, <1>1, <1>10, <2>1, PollAInv
<1>11. ASSUME NEW req \in orphans, ServeOrphan(req) PROVE AInv'
  <2>1. req \in Request /\ UNCHANGED <<conns, daemonVars>>
    BY <1>0, <1>11 DEF ServeOrphan, TInv, TypeOK
  <2>2. PICK run \in Runs(req) : Tables(run.map)
    BY <1>11 DEF ServeOrphan
  <2>3. run.map \in [Keys -> Clients \cup {None}]
    BY <1>0, <2>1, RunsAnswer
  <2> QED BY <1>10, <2>1, <2>2, <2>3
<1>12. ASSUME NEW k \in Keys, Expire(k) PROVE AInv'
  <2>1. Mapped(mapping, {k}, None) \in [Keys -> Clients \cup {None}]
    BY <1>0 DEF Mapped
  <2> QED BY <1>10, <1>12, <2>1 DEF Expire
<1> QED BY <1>6, <1>7, <1>8, <1>9, <1>11, <1>12 DEF Controller

\* One turn of the loop of mg_mgr_poll() meets the call's own connection: it
\* closes it and sets `done', or does neither.
LEMMA VisitAInv ==
  ASSUME AInv, Visit
  PROVE  AInv'
<1> DEFINE c  == conns[1]
           ev == Event(c)
<1>0. /\ TInv /\ TInv' /\ phase = "pass" /\ phase' = "pass"
      /\ data \in [req : Request, code : Codes, resp : Answer \cup {None},
                   done : BOOLEAN]
      /\ UNCHANGED <<mapping, orphans, last, held, peak>>
  BY NextTInv DEF AInv, TInv, TypeOK, Visit, Next, Daemon
<1>1. pos = 1 /\ Len(conns) = 1 /\ conns \in Seq(Conn)
  <2>1. conns \in Seq(Conn)
    BY <1>0 DEF TInv, TypeOK
  <2>2. Len(conns) \in Nat /\ pos \in Nat
    BY <1>0, <2>1, LenProperties DEF TInv, TypeOK
  <2>3. pos <= Len(conns) /\ Len(conns) <= 1 /\ (pos = 1 \/ (pos = 2 /\ Len(conns) = 1))
    BY <1>0 DEF AInv, OneConnection, Visit
  <2>4. pos = 1 /\ Len(conns) = 1
    BY <2>2, <2>3
  <2> QED BY <2>1, <2>4
<1>2. /\ c \in Conn /\ (c.peer = "answered" => c.ans \in Answer)
      /\ c.req = data.req /\ Mine(c) /\ ~data.done
      /\ c.peer = "answered" => Truthful(c.ans, data.req)
  <2>1. c \in Conn /\ (c.peer = "answered" => c.ans \in Answer)
    BY <1>0, <1>1, ElementOfSeq DEF TInv
  <2> QED BY <1>0, <1>1, <2>1 DEF AInv, OneConnection, Mine
<1>3. /\ conns' = IF Closed(ev) THEN RemoveAt(conns, 1)
                                ELSE [conns EXCEPT ![1] = Stays(c, ev)]
      /\ pos' = IF Closed(ev) THEN 1 ELSE 2
      /\ data' = Handler(ev, data, c)
  BY <1>1, <1>2 DEF Visit
<1>4. ev = "msg" => c.peer = "answered"
  BY <1>0, <1>2, EventTypes
<1>5. Stays(c, ev) \in Conn
  BY <1>0, <1>2, EventTypes
<1>6. ev \in {"close", "connect", "error", "msg", "write", "none"}
  BY DEF Event
<1> HIDE DEF c, ev
<1>7. /\ data'.req = data.req
      /\ ev = "msg" => data'.resp = c.ans /\ data'.code = c.ans.code
      /\ ev # "msg" => data'.resp = data.resp /\ data'.code = data.code
      /\ Closed(ev) => data'.done
      /\ ~Closed(ev) => data' = data
  BY <1>0, <1>3, <1>6 DEF Handler, Closed
<1>8. HistoryKept'
  <2>1. /\ Table(mapping) \subseteq held
        /\ Cardinality(Entries(mapping)) <= peak
        /\ data.req.op = "count" => data.req.index <= peak
        /\ data.resp # None =>
               Truthful(data.resp, data.req) /\ data.code = data.resp.code
    BY <1>0 DEF AInv, HistoryKept
  <2>2. (data.resp # None =>
             Truthful(data.resp, data.req) /\ data.code = data.resp.code)'
    BY <1>0, <1>2, <1>4, <1>7, <2>1 DEF Truthful
  <2>3. (Table(mapping) \subseteq held /\ Cardinality(Entries(mapping)) <= peak)'
    BY <1>0, <2>1 DEF Table, Entries
  <2> QED BY <1>0, <1>7, <2>1, <2>2, <2>3 DEF HistoryKept
<1>9. OneConnection'
  <2>1. CASE Closed(ev)
    <3>1. Len(conns') = 0
      <4>1. 1 \in 1 .. Len(conns)
        BY <1>1
      <4>2. Len(RemoveAt(conns, 1)) = Len(conns) - 1
        BY <1>1, <4>1, RemoveAtSeq
      <4> QED BY <1>1, <1>3, <2>1, <4>2
    <3> QED BY <1>0, <1>3, <1>7, <2>1, <3>1 DEF OneConnection
  <2>2. CASE ~Closed(ev)
    <3>1. Len(conns') = 1 /\ conns'[1] = Stays(c, ev)
      BY <1>1, <1>3, <1>5, <2>2, ExceptSeq
    <3>2. ev \in {"connect", "write", "none"} /\ data' = data
      BY <1>6, <1>7, <2>2 DEF Closed
    <3>3. /\ Stays(c, ev).req = data.req
          /\ Stays(c, ev).peer = "answered" =>
                 c.peer = "answered" /\ Stays(c, ev).ans = c.ans
      BY <1>2, <3>2 DEF Stays, Conn
    <3>4. (conns[1].peer = "answered" => Truthful(conns[1].ans, data.req))'
      BY <1>0, <1>2, <3>1, <3>2, <3>3 DEF Truthful
    <3>5. ~data'.done /\ conns'[1].req = data'.req /\ pos' = 2
      BY <1>2, <1>3, <2>2, <3>1, <3>2, <3>3
    <3> QED BY <1>0, <3>1, <3>4, <3>5 DEF OneConnection
  <2> QED BY <2>1, <2>2
<1>10. AddDone' /\ ReadsTrue'
  BY <1>0 DEF AddDone, ReadsTrue, Ok
<1> QED BY <1>0, <1>8, <1>9, <1>10 DEF AInv

\* A call that ends tells what its answer told, and the next index is asked
\* for only when the one before was below the number of mappings.
LEMMA ReturnAInv ==
  ASSUME AInv, NextIndex \/ Return
  PROVE  AInv'
<1>0. /\ TInv /\ TInv' /\ phase = "return" /\ Len(conns) = 0
      /\ data \in [req : Request, code : Codes, resp : Answer \cup {None},
                   done : BOOLEAN]
      /\ peak \in Nat
      /\ UNCHANGED <<mapping, orphans, conns, pos, held, peak>>
  BY NextTInv
  DEF AInv, OneConnection, TInv, TypeOK, NextIndex, Return, Next, Daemon
<1>1. /\ Table(mapping) \subseteq held
      /\ Cardinality(Entries(mapping)) <= peak
      /\ data.req.op = "count" => data.req.index <= peak
      /\ data.resp # None =>
             Truthful(data.resp, data.req) /\ data.code = data.resp.code
  BY <1>0 DEF AInv, HistoryKept
<1>2. /\ data.req \in Request /\ data.req.index \in Nat
  BY <1>0 DEF Request
<1>3. (Table(mapping) \subseteq held /\ Cardinality(Entries(mapping)) <= peak)'
  BY <1>0, <1>1 DEF Table, Entries
<1>4. CASE NextIndex
  <2> DEFINE req == [data.req EXCEPT !.index = @ + 1]
  <2>1. req \in Request /\ req.index = data.req.index + 1 /\ req.op = data.req.op
    BY <1>2 DEF Request
  <2>2. data'.req = req /\ data'.resp = None /\ ~data'.done /\ phase' = "call"
    BY <1>4, <2>1, NewDataType DEF NextIndex
  <2>3. data.req.index < peak
    <3>1. data.req.op = "count" /\ data.code = "200" /\ data.resp # None
      BY <1>4 DEF NextIndex, MoreToCount, GetByIndex
    <3> QED BY <1>1, <3>1 DEF Truthful
  <2>4. HistoryKept'
    BY <1>0, <1>2, <1>3, <2>1, <2>2, <2>3 DEF HistoryKept
  <2>5. OneConnection' /\ AddDone' /\ ReadsTrue'
    BY <1>0, <2>2 DEF OneConnection, AddDone, ReadsTrue, Ok
  <2> QED BY <1>0, <2>4, <2>5 DEF AInv
<1>5. CASE Return
  <2>1. /\ last' = [req |-> data.req, result |-> Result(data), resp |-> data.resp]
        /\ phase' = "idle"
    BY <1>5 DEF Return
  <2>2. AddDone'
    <3> SUFFICES ASSUME data.req.op \in {"add", "addAny"}, Result(data) = "ok"
                 PROVE  /\ data.resp.keys \subseteq data.req.keys
                        /\ \A k \in data.resp.keys : <<k, data.req.client>> \in held
      BY <1>0, <2>1 DEF AddDone, Ok
    <3>1. data.resp # None /\ data.code = "200"
      BY <1>0, OkHasResponse
    <3>2. data.resp.ret = "ok"
      <4>1. AddResult(data) \in {"ok", "conflict", "exists", "failure"}
        BY <1>0 DEF AddResult, Answer, Codes
      <4>2. AddResult(data) = "ok"
        BY <4>1
        DEF Result, AddPortMapping, AddRedirect, AddAnyPortMapping, AddAnyRedirect
      <4> QED BY <3>1, <4>2 DEF AddResult
    <3> QED BY <1>1, <3>1, <3>2 DEF Truthful
  <2>3. ReadsTrue'
    <3>1. ASSUME data.req.op = "get", Result(data) = "ok"
          PROVE  \A k \in data.req.keys : <<k, data.resp.client>> \in held
      <4>1. data.resp # None /\ data.code = "200" /\ data.resp.keys = data.req.keys
        BY <3>1 DEF Result, GetSpecificPortMappingEntry, GetRedirectRule
      <4> QED BY <1>1, <3>1, <4>1 DEF Truthful
    <3> QED BY <1>0, <1>1, <2>1, <3>1 DEF ReadsTrue, Ok
  <2>4. OneConnection' /\ HistoryKept'
    BY <1>0, <2>1 DEF OneConnection, HistoryKept
  <2> QED BY <1>0, <2>2, <2>3, <2>4 DEF AInv
<1> QED BY <1>4, <1>5

\* Every step preserves it when mg_http_connect() does not fail at once.
LEMMA NextAInv == ~SyncErrors /\ AInv /\ [Next]_vars => AInv'
<1> SUFFICES ASSUME ~SyncErrors, AInv, [Next]_vars PROVE AInv'
  OBVIOUS
<1>0. /\ TInv /\ TInv'
      /\ data \in [req : Request, code : Codes, resp : Answer \cup {None},
                   done : BOOLEAN]
  BY NextTInv DEF AInv, TInv, TypeOK
<1>1. ASSUME NEW req \in Request, req.index = 0, Soap(req) PROVE AInv'
  <2>1. /\ phase = "idle" /\ phase' = "call" /\ UNCHANGED <<mapping, conns>>
        /\ held' = Table(mapping) /\ peak' = Cardinality(Entries(mapping))
    BY <1>1 DEF Soap
  <2>2. data'.req = req /\ data'.resp = None /\ ~data'.done
    BY <1>1, NewDataType DEF Soap
  <2>3. Table(mapping') = Table(mapping) /\ Entries(mapping') = Entries(mapping)
    BY <2>1
  <2>4. Cardinality(Entries(mapping)) \in Nat
    BY EntriesCount
  <2>5. HistoryKept'
    BY <1>1, <2>1, <2>2, <2>3, <2>4 DEF HistoryKept
  <2>6. OneConnection' /\ AddDone' /\ ReadsTrue'
    BY <2>1, <2>2 DEF AInv, OneConnection, AddDone, ReadsTrue, Ok
  <2> QED BY <1>0, <2>5, <2>6 DEF AInv
<1>2. CASE SoapAction
  BY <1>1, <1>2, AskedTypes DEF SoapAction, Asked
<1>3. CASE Controller
  <2>1. phase \in {"idle", "poll"}
    BY <1>3
    DEF Controller, Accept, Refuse, Serve, Drop, ServeOrphan, Expire, PeerMoves, Waiting
  <2> QED BY <1>3, <2>1, IdleControllerAInv, PollControllerAInv
<1>4. ASSUME phase # "idle", phase' # "idle",
             UNCHANGED <<mapping, data, held, peak>>, OneConnection'
      PROVE  AInv'
  BY <1>0, <1>4
  DEF AInv, HistoryKept, AddDone, ReadsTrue, Ok, Truthful, Table, Entries
<1>5. CASE Connect
  <2>1. "connecting" \in ConnStates /\ "pending" \in PeerStates \ {"answered"}
    BY DEF ConnStates, PeerStates
  <2>2. Len(conns) = 0 /\ phase = "call" /\ phase' = "poll"
    BY <1>5 DEF AInv, OneConnection, Connect
  <2>3. Len(conns') = 1 /\ conns'[1] = NewConn("connecting", "pending")
    BY <1>0, <1>5, <2>1, <2>2, NewConnTypes DEF Connect
  <2>4. UNCHANGED <<mapping, data, held, peak>>
    BY <1>5 DEF Connect
  <2>5. ~data.done
    BY <2>2 DEF AInv, OneConnection
  <2> QED BY <1>4, <2>2, <2>3, <2>4, <2>5 DEF OneConnection, NewConn
<1>6. CASE ConnectFails
  BY <1>6 DEF ConnectFails
<1>7. CASE Select
  <2>1. /\ phase = "poll" /\ phase' = "pass" /\ pos' = 1
        /\ UNCHANGED <<mapping, conns, data, held, peak>>
    BY <1>7 DEF Select
  <2>2. /\ Len(conns) = 1 /\ ~data.done /\ conns[1].req = data.req
        /\ conns[1].peer = "answered" => Truthful(conns[1].ans, data.req)
    BY <2>1 DEF AInv, OneConnection
  <2>3. (conns[1].peer = "answered" => Truthful(conns[1].ans, data.req))'
    BY <2>1, <2>2 DEF Truthful
  <2> QED BY <1>4, <2>1, <2>2, <2>3 DEF OneConnection
<1>8. CASE Visit
  BY <1>8, VisitAInv
<1>9. CASE Wild
  <2>1. phase = "pass" /\ pos <= Len(conns) /\ ~Mine(conns[pos])
    BY <1>9 DEF Wild
  <2>2. pos = 1 /\ Len(conns) = 1 /\ conns[1].req = data.req
    <3>1. Len(conns) \in Nat
      BY <1>0, LenProperties DEF TInv, TypeOK
    <3> QED BY <2>1, <3>1 DEF AInv, OneConnection
  <2> QED BY <2>1, <2>2 DEF Mine
<1>10. CASE EndOfPass
  BY <1>4, <1>10 DEF EndOfPass, AInv, OneConnection, Truthful
<1>11. CASE NextIndex \/ Return
  BY <1>11, ReturnAInv
<1>12. CASE Restart
  <2>1. /\ phase' = "idle" /\ Len(conns') = 0 /\ last' = NoAnswer
    BY <1>12, EmptySeq DEF Restart
  <2> QED BY <1>0, <2>1
          DEF AInv, OneConnection, HistoryKept, AddDone, ReadsTrue, Ok, NoAnswer
<1>13. CASE UNCHANGED vars
  BY <1>0, <1>13
  DEF vars, AInv, OneConnection, HistoryKept, AddDone, ReadsTrue, Ok, Truthful,
      Table, Entries
<1> QED
  BY <1>2, <1>3, <1>5, <1>6, <1>7, <1>8, <1>9, <1>10, <1>11, <1>12, <1>13
  DEF Next, Daemon

\* The initial state.
LEMMA InitAInv == Init => AInv
<1> SUFFICES ASSUME Init PROVE AInv
  OBVIOUS
<1>1. TInv
  BY InitTInv
<1>2. Len(conns) = 0 /\ phase = "idle"
  BY EmptySeq DEF Init
<1>3. AddDone /\ ReadsTrue
  BY DEF Init, AddDone, ReadsTrue, Ok, NoAnswer
<1> QED BY <1>1, <1>2, <1>3 DEF AInv, OneConnection, HistoryKept

\* When mg_http_connect() fails only through the event loop, no connection
\* outlives the call that made it: `done' is set exactly when the connection
\* is taken out of the list, so the callback never gets a dead `data'.
THEOREM ConnectionsEnd == ~SyncErrors => (Spec => []NoConnectionLeft)
<1> SUFFICES ASSUME ~SyncErrors PROVE Spec => []NoConnectionLeft
  OBVIOUS
<1>1. AInv /\ [Next]_vars => AInv'
  BY NextAInv
<1>2. AInv => NoConnectionLeft
  <2>1. TypeOK /\ Len(conns) = 0 => conns = <<>>
    BY EmptySeq DEF TypeOK
  <2> QED BY <2>1 DEF AInv, TInv, OneConnection, NoConnectionLeft
<1> QED BY InitAInv, <1>1, <1>2, PTL DEF Spec

\* ... and an AddPortMapping or AddAnyPortMapping answered with success put
\* the mapping into the controller's table while it ran.
THEOREM AddsAreDone == ~SyncErrors => (Spec => []AddDone)
<1> SUFFICES ASSUME ~SyncErrors PROVE Spec => []AddDone
  OBVIOUS
<1>1. AInv /\ [Next]_vars => AInv'
  BY NextAInv
<1>2. AInv => AddDone
  BY DEF AInv
<1> QED BY InitAInv, <1>1, <1>2, PTL DEF Spec

\* ... and what GetSpecificPortMappingEntry shows was in the table while it
\* ran, and a number of entries is no more than there were at some moment,
\* whatever else the controller did to its table meanwhile.
THEOREM ReadsAreTrue == ~SyncErrors => (Spec => []ReadsTrue)
<1> SUFFICES ASSUME ~SyncErrors PROVE Spec => []ReadsTrue
  OBVIOUS
<1>1. AInv /\ [Next]_vars => AInv'
  BY NextAInv
<1>2. AInv => ReadsTrue
  BY DEF AInv
<1> QED BY InitAInv, <1>1, <1>2, PTL DEF Spec

=============================================================================
