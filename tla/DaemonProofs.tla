---------------------------- MODULE DaemonProofs ----------------------------
(***************************************************************************)
(* Proofs about parts of the daemon that share no state: one connection of *)
(* the HTTP server (HttpServer), and the main loop with its queue of       *)
(* datagrams (MainLoop).                                                   *)
(*                                                                         *)
(* HttpServer, for any set of requests, any sizes of requests and          *)
(* responses, and any room in the socket: a SOAP action is done at most    *)
(* once and not before its body is there, and what goes to the peer is     *)
(* "100 Continue" and the response, in this order and without a gap.       *)
(* Neither property is inductive. What makes them so is in Along: the      *)
(* number of units on the wire follows from the state of the connection    *)
(* and from res_sent, and the counters of the request follow from the      *)
(* headers that were parsed.                                               *)
(*                                                                         *)
(* MainLoop, for any length of a second, of the intervals and of the       *)
(* queue: the loop sleeps until the next datagram because                  *)
(* get_next_scheduled_send() finds the earliest of the queue, the          *)
(* subtraction with its borrow keeps the order of times, and time only     *)
(* passes in select(). The queue keeps its type through the loops over     *)
(* services and datagrams, which are Steps of Calls: see CallsProofs.      *)
(***************************************************************************)
EXTENDS HttpServer, MainLoop, CallsProofs, SequenceTheorems, FiniteSetTheorems

\* struct upnphttp, and the peer
Conn == [state : {0, 1, 2, 3, 100}, socket : BOOLEAN, q : Requests \cup {<<>>},
         req_buflen : Nat, req_contentlen : Nat,
         res : {"none", "continue", "final"}, res_buflen : Nat, res_sent : Nat,
         code : Nat, execs : Nat]

Peer == [q : Requests \cup {<<>>}, sent : Nat, fin : BOOLEAN, reset : BOOLEAN,
         room : 0 .. Room, wire : Seq({"continue", "final"} \X Nat)]

\* The length of the body of p's request, and of its whole request
BodyLen(p) == IF p.q.len < 0 THEN 0 ELSE p.q.len

WholeLen(p) == HeadLen + BodyLen(p)

\* The units before the response on p's wire: none, or those of "100 Continue"
Starts(p) == {0} \cup {k \in {ContLen} : p.q \in Requests /\ p.q.expect}

\* The first n units that a peer gets, k of them "100 Continue"
WireUpTo(k, n) ==
    [i \in 1 .. n |-> IF i <= k THEN <<"continue", i>> ELSE <<"final", i - k>>]

\* What a connection c in this state has sent: n units, k of them before the
\* response
Along(c, p, k, n) ==
    /\ c.state = 0 => n = 0 /\ k = 0
    /\ c.state = 1 => n = k
    /\ c.state = 2 => k = ContLen /\ n = c.res_sent /\ c.res_buflen = ContLen
    /\ c.state = 3 => n = k + c.res_sent /\ c.res_buflen = RespLen
    /\ c.state = 100 /\ ~c.socket /\ ~p.reset /\ c.code # 0 => n = k + RespLen

\* What was received of the request, and what was done with it
Received(c, p) ==
    /\ p.q \in Requests
    /\ c.req_buflen <= p.sent
    /\ p.sent <= WholeLen(p) + Extra
    /\ c.res_sent <= c.res_buflen
    /\ c.execs <= 1
    /\ c.execs = 1 => c.req_buflen >= WholeLen(p)

Counted(c, p) ==
    /\ Received(c, p)
    /\ c.state \in {0, 1, 2} => c.execs = 0 /\ c.code = 0
    /\ c.state \in {0, 1} => c.socket /\ c.res_sent = c.res_buflen
    /\ c.state = 1 => c.q = p.q /\ c.req_contentlen = BodyLen(p)
    /\ c.state = 3 => c.socket /\ c.res = "final" /\ c.code # 0

ConnOK(c, p) ==
    /\ c = <<>> \/ (c \in Conn /\ Counted(c, p))
    /\ p \in Peer
    /\ \E k \in Starts(p) : \E n \in 0 .. k + RespLen :
          /\ p.wire = WireUpTo(k, n)
          /\ c # <<>> => Along(c, p, k, n)

\* The inductive invariant
HInv == ConnOK(h, peer) /\ sids \in 0 .. MaxSubs

-------------------------------------------------------------------------------
(***************************************************************************)
(* The wire, as a sequence of units.                                       *)
(***************************************************************************)

\* Message() makes sequences of units, and so does WireUpTo
LEMMA WireTypes ==
    ASSUME NEW k \in Nat, NEW n \in Nat
    PROVE  /\ WireUpTo(k, n) \in Seq({"continue", "final"} \X Nat)
           /\ Len(WireUpTo(k, n)) = n
           /\ \A i \in 1 .. n : WireUpTo(k, n)[i] =
                 IF i <= k THEN <<"continue", i>> ELSE <<"final", i - k>>
           /\ \A name \in {"continue", "final"} :
                 /\ Message(name, n) \in Seq({"continue", "final"} \X Nat)
                 /\ Len(Message(name, n)) = n
                 /\ \A i \in 1 .. n : Message(name, n)[i] = <<name, i>>
  BY DEF WireUpTo, Message

\* Two pieces on the wire, unit by unit
LEMMA Joined ==
    ASSUME NEW U, NEW a \in Seq(U), NEW b \in Seq(U), NEW w \in Seq(U),
           Len(w) = Len(a) + Len(b),
           \A i \in 1 .. Len(a) : w[i] = a[i],
           \A i \in 1 .. Len(b) : w[Len(a) + i] = b[i]
    PROVE  a \o b = w
  <1>1. Len(a) \in Nat /\ Len(b) \in Nat
    OBVIOUS
  <1>2. a \o b \in Seq(U) /\ Len(a \o b) = Len(w)
    OBVIOUS
  <1>3. ASSUME NEW i \in 1 .. Len(w) PROVE (a \o b)[i] = w[i]
    <2>1. CASE i <= Len(a)
      BY <1>1, <2>1
    <2>2. CASE i > Len(a)
      <3>1. PICK j \in 1 .. Len(b) : i = Len(a) + j
        <4>1. i - Len(a) \in 1 .. Len(b) /\ i = Len(a) + (i - Len(a))
          BY <1>1, <2>2
        <4> QED  BY <4>1
      <3>2. (a \o b)[i] = b[j]
        BY <1>1, <2>2, <3>1
      <3> QED  BY <3>1, <3>2
    <2> QED  BY <1>1, <2>1, <2>2
  <1>4. PICK v \in Seq(U) : v = a \o b
    BY <1>2
  <1>5. Len(v) = Len(w) /\ \A i \in 1 .. Len(w) : v[i] = w[i]
    BY <1>2, <1>3, <1>4
  <1>6. v = w
    BY <1>5
  <1> QED  BY <1>4, <1>6

\* A piece in the middle
LEMMA Piece ==
    ASSUME NEW U, NEW m \in Seq(U), NEW s \in Nat, NEW t \in Nat, s + t <= Len(m)
    PROVE  /\ SubSeq(m, s + 1, s + t) \in Seq(U) /\ Len(SubSeq(m, s + 1, s + t)) = t
           /\ \A i \in 1 .. t : SubSeq(m, s + 1, s + t)[i] = m[s + i]
  <1> DEFINE b == SubSeq(m, s + 1, s + t)
  <1>1. PICK n \in Nat : n = Len(m) /\ s + t <= n
    OBVIOUS
  <1>2. PICK lo \in Nat, hi \in Nat : lo = s + 1 /\ hi = s + t /\ 1 <= lo /\ hi <= n /\ hi - lo + 1 = t
    BY <1>1
  <1>3. SubSeq(m, lo, hi) \in Seq(U) /\ Len(SubSeq(m, lo, hi)) = t
    <2>1. \A i \in lo .. hi : m[i] \in U
      BY <1>1, <1>2
    <2> QED  BY <1>1, <1>2, <2>1
  <1>4. ASSUME NEW i \in 1 .. t PROVE SubSeq(m, lo, hi)[i] = m[s + i]
    <2>1. i \in 1 .. (hi - lo + 1) /\ lo + i - 1 = s + i
      BY <1>2
    <2> QED  BY <1>1, <1>2, <2>1
  <1> QED  BY <1>2, <1>3, <1>4

\* Pieces t units long of the response follow what was sent of it: send() goes
\* on at res_sent.
LEMMA ResponseGoesOn ==
    ASSUME NEW k \in Nat, NEW s \in Nat, NEW t \in Nat, s + t <= RespLen
    PROVE  WireUpTo(k, k + s) \o SubSeq(Message("final", RespLen), s + 1, s + t)
              = WireUpTo(k, k + (s + t))
  <1> DEFINE U == {"continue", "final"} \X Nat
             m == Message("final", RespLen)
             b == SubSeq(m, s + 1, s + t)
  <1>1. RespLen \in Nat
    BY HttpAssumption
  <1>2. PICK n \in Nat, all \in Nat : n = k + s /\ all = n + t /\ all = k + (s + t)
    OBVIOUS
  <1> DEFINE a == WireUpTo(k, n)
             w == WireUpTo(k, all)
  <1>3. /\ a \in Seq(U) /\ Len(a) = n
        /\ \A i \in 1 .. n : a[i] = IF i <= k THEN <<"continue", i>> ELSE <<"final", i - k>>
    BY WireTypes
  <1>4. /\ w \in Seq(U) /\ Len(w) = all
        /\ \A i \in 1 .. all : w[i] = IF i <= k THEN <<"continue", i>> ELSE <<"final", i - k>>
    BY WireTypes
  <1>5. /\ m \in Seq(U) /\ Len(m) = RespLen
        /\ \A i \in 1 .. RespLen : m[i] = <<"final", i>>
    BY <1>1, WireTypes
  <1> HIDE DEF a, m, w, U
  <1>6. b \in Seq(U) /\ Len(b) = t /\ \A i \in 1 .. t : b[i] = m[s + i]
    BY <1>5, Piece
  <1> HIDE DEF b
  <1>7. \A i \in 1 .. n : w[i] = a[i]
    <2> TAKE i \in 1 .. n
    <2>1. i \in 1 .. all
      BY <1>2
    <2> QED  BY <2>1, <1>3, <1>4
  <1>8. \A i \in 1 .. t : w[n + i] = b[i]
    <2> TAKE i \in 1 .. t
    <2>1. PICK j \in 1 .. all : j = n + i /\ ~(j <= k) /\ j - k = s + i
      BY <1>2
    <2>2. PICK l \in 1 .. RespLen : l = s + i
      BY <1>1
    <2>3. w[j] = <<"final", l>>
      BY <2>1, <2>2, <1>4
    <2>4. b[i] = <<"final", l>>
      BY <2>2, <1>5, <1>6
    <2> QED  BY <2>1, <2>3, <2>4
  <1>9. a \o b = w
    <2>1. /\ Len(w) = Len(a) + Len(b)
          /\ \A i \in 1 .. Len(a) : w[i] = a[i]
          /\ \A i \in 1 .. Len(b) : w[Len(a) + i] = b[i]
      BY <1>2, <1>3, <1>4, <1>6, <1>7, <1>8
    <2>2. a \in Seq(U) /\ b \in Seq(U) /\ w \in Seq(U)
      BY <1>3, <1>4, <1>6
    <2> HIDE DEF a, b, w, U
    <2> QED  BY ONLY <2>1, <2>2, Joined
  <1> QED  BY <1>2, <1>9 DEF a, b, m, w

\* On a wire that is still empty "100 Continue" starts.
LEMMA ContinueStarts ==
    ASSUME NEW t \in Nat, t <= ContLen
    PROVE  <<>> \o SubSeq(Message("continue", ContLen), 1, t) = WireUpTo(ContLen, t)
  <1> DEFINE m == Message("continue", ContLen)
             b == SubSeq(m, 1, t)
             w == WireUpTo(ContLen, t)
             U == {"continue", "final"} \X Nat
  <1>1. ContLen \in Nat
    BY HttpAssumption
  <1>2. /\ m \in Seq(U) /\ Len(m) = ContLen
        /\ \A i \in 1 .. ContLen : m[i] = <<"continue", i>>
        /\ w \in Seq(U) /\ Len(w) = t
        /\ \A i \in 1 .. t : w[i] = IF i <= ContLen THEN <<"continue", i>> ELSE <<"final", i - ContLen>>
    BY <1>1, WireTypes
  <1> HIDE DEF m, w, U
  <1>3. /\ b \in Seq(U) /\ Len(b) = t
        /\ \A i \in 1 .. t : b[i] = <<"continue", i>>
    BY <1>1, <1>2
  <1> HIDE DEF b
  <1>4. \A i \in 1 .. t : b[i] = w[i]
    BY <1>1, <1>2, <1>3
  <1>5. <<>> \o b = b
    BY <1>3
  <1>6. b = w
    BY <1>2, <1>3, <1>4
  <1> QED  BY <1>5, <1>6 DEF b, m, w

\* Before anything is sent it does not matter what will come first.
LEMMA NothingSent ==
    ASSUME NEW k \in Nat, NEW j \in Nat
    PROVE  WireUpTo(k, 0) = <<>> /\ WireUpTo(k, 0) = WireUpTo(j, 0)
  BY DEF WireUpTo

\* What a peer may get, "100 Continue" only if it expects it: the property's words
\* for WireUpTo.
LEMMA WireIsOrdered ==
    ASSUME NEW k \in {0, ContLen}, NEW n \in 0 .. k + RespLen
    PROVE  /\ k = 0 => IsPrefix(WireUpTo(k, n), Message("final", RespLen))
           /\ k = ContLen => IsPrefix(WireUpTo(k, n),
                                Message("continue", ContLen) \o Message("final", RespLen))
           /\ n = k + RespLen =>
                 WireUpTo(k, n) # <<>> /\ Last(WireUpTo(k, n)) = <<"final", RespLen>>
  <1> DEFINE U == {"continue", "final"} \X Nat
             w == WireUpTo(k, n)
             f == Message("final", RespLen)
             m == Message("continue", ContLen)
  <1>1. RespLen \in Nat \ {0} /\ ContLen \in Nat \ {0} /\ k \in Nat /\ n \in Nat
    BY HttpAssumption
  <1>2. /\ w \in Seq(U) /\ Len(w) = n
        /\ \A i \in 1 .. n : w[i] = IF i <= k THEN <<"continue", i>> ELSE <<"final", i - k>>
    BY <1>1, WireTypes
  <1>3. /\ f \in Seq(U) /\ Len(f) = RespLen
        /\ \A i \in 1 .. RespLen : f[i] = <<"final", i>>
    BY <1>1, WireTypes
  <1>4. /\ m \in Seq(U) /\ Len(m) = ContLen
        /\ \A i \in 1 .. ContLen : m[i] = <<"continue", i>>
    BY <1>1, WireTypes
  <1> HIDE DEF w, f, m, U
  <1>5. ASSUME NEW t \in Seq(U), n <= Len(t), \A i \in 1 .. n : t[i] = w[i]
        PROVE  IsPrefix(w, t)
    <2>1. /\ SubSeq(w, 1, n) \in Seq(U) /\ Len(SubSeq(w, 1, n)) = n
          /\ \A i \in 1 .. n : SubSeq(w, 1, n)[i] = w[i]
      BY <1>1, <1>2
    <2>2. /\ SubSeq(t, 1, n) \in Seq(U) /\ Len(SubSeq(t, 1, n)) = n
          /\ \A i \in 1 .. n : SubSeq(t, 1, n)[i] = t[i]
      BY <1>1, <1>5
    <2>3. SubSeq(w, 1, n) = SubSeq(t, 1, n)
      BY <1>5, <2>1, <2>2
    <2> QED  BY <1>2, <1>5, <2>3 DEF IsPrefix
  <1>6. ASSUME k = 0 PROVE IsPrefix(w, f)
    <2>1. n <= Len(f)
      BY <1>1, <1>3, <1>6
    <2>2. ASSUME NEW i \in 1 .. n PROVE f[i] = w[i]
      <3>1. i \in 1 .. RespLen /\ ~(i <= k) /\ i - k = i
        BY <1>1, <1>6
      <3>2. w[i] = <<"final", i>>
        BY <1>2, <3>1
      <3> QED  BY <1>3, <3>1, <3>2
    <2> QED  BY <1>3, <1>5, <2>1, <2>2
  <1>7. ASSUME k = ContLen PROVE IsPrefix(w, m \o f)
    <2>1. /\ m \o f \in Seq(U) /\ Len(m \o f) = ContLen + RespLen
          /\ \A i \in 1 .. ContLen + RespLen :
                (m \o f)[i] = IF i <= ContLen THEN m[i] ELSE f[i - ContLen]
      <3>1. m \in Seq(U) /\ f \in Seq(U)
        BY <1>3, <1>4
      <3>2. /\ m \o f \in Seq(U) /\ Len(m \o f) = Len(m) + Len(f)
            /\ \A i \in 1 .. Len(m) + Len(f) :
                (m \o f)[i] = IF i <= Len(m) THEN m[i] ELSE f[i - Len(m)]
        BY ONLY <3>1
      <3> QED  BY <1>3, <1>4, <3>2
    <2>2. ASSUME NEW i \in 1 .. n PROVE (m \o f)[i] = w[i]
      <3>0. i \in 1 .. ContLen + RespLen
        BY <1>1, <1>7
      <3>1. CASE i <= ContLen
        <4>1. i \in 1 .. ContLen /\ i <= k
          BY <1>1, <1>7, <3>1
        <4> QED  BY <1>2, <1>4, <2>1, <3>0, <3>1, <4>1
      <3>2. CASE i > ContLen
        <4>1. PICK j \in 1 .. RespLen : j = i - ContLen /\ j = i - k /\ ~(i <= k) /\ ~(i <= ContLen)
          BY <1>1, <1>7, <3>2
        <4>2. (m \o f)[i] = f[j]
          BY <2>1, <3>0, <4>1
        <4>3. w[i] = <<"final", j>>
          BY <1>2, <4>1
        <4> QED  BY <1>3, <4>1, <4>2, <4>3
      <3>3. i <= ContLen \/ i > ContLen
        BY <1>1, <3>0
      <3> QED  BY <3>1, <3>2, <3>3
    <2>3. n <= Len(m \o f)
      BY <1>1, <1>7, <2>1
    <2> QED  BY <1>5, <2>1, <2>2, <2>3
  <1>8. ASSUME n = k + RespLen PROVE w # <<>> /\ Last(w) = <<"final", RespLen>>
    <2>1. n \in 1 .. n /\ ~(n <= k) /\ n - k = RespLen
      BY <1>1, <1>8
    <2>2. w[n] = <<"final", RespLen>>
      BY <1>2, <2>1
    <2> QED  BY <1>1, <1>2, <2>1, <2>2 DEF Last
  <1> QED  BY <1>6, <1>7, <1>8 DEF w, f, m

\* The inductive invariant gives the three properties.
LEMMA HInvIsSafe == HInv => HttpTypeOK /\ ActionOnce /\ WireOrdered
  <1> SUFFICES ASSUME HInv PROVE HttpTypeOK /\ ActionOnce /\ WireOrdered
    OBVIOUS
  <1>1. peer \in Peer /\ sids \in 0 .. MaxSubs
    BY DEF HInv, ConnOK
  <1>2. h # <<>> => h \in Conn /\ Counted(h, peer)
    BY DEF HInv, ConnOK
  <1>3. Whole = WholeLen(peer)
    BY DEF Whole, WholeLen, BodyLen
  <1>a. PICK k \in Starts(peer) : \E n \in 0 .. k + RespLen :
           peer.wire = WireUpTo(k, n) /\ (h # <<>> => Along(h, peer, k, n))
    BY DEF HInv, ConnOK
  <1>4. PICK n \in 0 .. k + RespLen :
           peer.wire = WireUpTo(k, n) /\ (h # <<>> => Along(h, peer, k, n))
    BY <1>a
  <1>5. HttpTypeOK
    <2>1. CASE h = <<>>
      BY <1>1, <2>1 DEF HttpTypeOK, Peer
    <2>2. CASE h # <<>>
      <3>1. HeadLen \in Nat /\ Extra \in Nat /\ peer.q.len \in Int
        BY <1>2, <2>2, HttpAssumption, RequestsAssumption DEF Counted, Received
      <3>2. h.req_buflen \in Nat /\ h.res_sent \in Nat /\ h.res_buflen \in Nat /\ peer.sent \in Nat
        BY <1>1, <1>2, <2>2 DEF Conn, Peer
      <3>3. WholeLen(peer) \in Nat
        BY <3>1 DEF WholeLen, BodyLen
      <3>4. h.req_buflen \in 0 .. WholeLen(peer) + Extra
        BY <1>2, <2>2, <3>1, <3>2, <3>3 DEF Counted, Received
      <3>5. h.res_sent \in 0 .. h.res_buflen
        BY <1>2, <2>2, <3>2 DEF Counted, Received
      <3> QED  BY <1>1, <1>3, <3>4, <3>5 DEF HttpTypeOK, Peer
    <2> QED  BY <2>1, <2>2
  <1>6. ActionOnce
    BY <1>2, <1>3 DEF ActionOnce, Counted, Received
  <1>7. WireOrdered
    <2>1. k \in {0, ContLen} /\ (k = 0 \/ peer.q.expect)
      BY <1>4 DEF Starts
    <2>2. \/ IsPrefix(peer.wire, Message("final", RespLen))
          \/ /\ peer.q.expect
             /\ IsPrefix(peer.wire, Message("continue", ContLen) \o Message("final", RespLen))
      BY <1>4, <2>1, WireIsOrdered
    <2>3. ASSUME h # <<>>, ~h.socket, ~peer.reset, h.code # 0
          PROVE  peer.wire # <<>> /\ Last(peer.wire) = <<"final", RespLen>>
      <3>1. n = k + RespLen
        BY <1>2, <1>4, <2>3 DEF Along, Counted, Received, Conn
      <3> QED  BY <1>4, <2>1, <3>1, WireIsOrdered
    <2> QED  BY <2>2, <2>3 DEF WireOrdered
  <1> QED  BY <1>5, <1>6, <1>7

-------------------------------------------------------------------------------
(***************************************************************************)
(* Sending. What a connection c is before the answer to it is sent, and    *)
(* how much of it has gone when SendRespAndClose() is through.             *)
(***************************************************************************)

\* The connection c is about to answer; the wire shows n units, k of them
\* "100 Continue"
AboutTo(c, k, n) ==
    /\ c \in Conn /\ Received(c, peer) /\ peer \in Peer
    /\ k \in Starts(peer) /\ n \in 0 .. k + RespLen
    /\ peer.wire = WireUpTo(k, n)
    /\ c.socket

\* As much is taken as there is room for, and no more than there is
LEMMA TakenFacts ==
    ASSUME NEW c, c.res_sent \in Nat, c.res_buflen \in Nat, c.res_sent <= c.res_buflen,
           peer \in Peer
    PROVE  /\ Taken(c) \in Nat
           /\ c.res_sent + Taken(c) <= c.res_buflen
           /\ peer.room - Taken(c) \in 0 .. Room
           /\ c.res_sent = c.res_buflen => Taken(c) = 0
  <1>1. Room \in Nat
    BY HttpAssumption
  <1>2. peer.room \in 0 .. Room /\ peer.reset \in BOOLEAN
    BY DEF Peer
  <1> QED  BY <1>1, <1>2 DEF Taken

\* The response goes out, whole or in part: SendRespAndClose()
LEMMA ResponseSent ==
    ASSUME NEW c, NEW k, AboutTo(c, k, k + c.res_sent), SendRespAndClose(c),
           c.res = "final", c.res_buflen = RespLen, c.code # 0
    PROVE  ConnOK(h', peer')
  <1> DEFINE t == Taken(c)
  <1>1. c \in Conn /\ Received(c, peer) /\ peer \in Peer /\ k \in Starts(peer) /\ c.socket
    BY DEF AboutTo
  <1>2. /\ RespLen \in Nat /\ ContLen \in Nat /\ k \in Nat
        /\ c.res_sent \in Nat /\ c.res_buflen \in Nat /\ c.res_sent <= RespLen
    BY <1>1, HttpAssumption DEF Conn, Received, Starts
  <1>3. t \in Nat /\ c.res_sent + t <= RespLen /\ peer.room - t \in 0 .. Room
    BY <1>1, <1>2, TakenFacts
  <1> HIDE DEF t
  <1>4. peer.wire \o SubSeq(Response(c), c.res_sent + 1, c.res_sent + t)
           = WireUpTo(k, k + (c.res_sent + t))
    <2>1. PICK s \in Nat : s = c.res_sent
      BY <1>2
    <2>2. peer.wire = WireUpTo(k, k + s) /\ Response(c) = Message("final", RespLen)
      BY <2>1 DEF Response, AboutTo
    <2>3. WireUpTo(k, k + s) \o SubSeq(Message("final", RespLen), s + 1, s + t)
              = WireUpTo(k, k + (s + t))
      <3>1. k \in Nat /\ s \in Nat /\ t \in Nat /\ s + t <= RespLen
        BY <1>2, <1>3, <2>1
      <3> QED  BY ONLY <3>1, ResponseGoesOn
    <2> QED  BY <2>1, <2>2, <2>3
  <1>5. PICK n \in Nat : n = k + (c.res_sent + t)
    BY <1>2, <1>3
  <1>6. peer' = [peer EXCEPT !.room = peer.room - t, !.wire = WireUpTo(k, n)]
    BY <1>4, <1>5 DEF SendRespAndClose, PutOut, t
  <1>7. WireUpTo(k, n) \in Seq({"continue", "final"} \X Nat)
    BY <1>2, WireTypes
  <1>8. peer' \in Peer
    BY <1>1, <1>3, <1>6, <1>7 DEF Peer
  <1>9. /\ peer'.q = peer.q /\ peer'.sent = peer.sent /\ peer'.reset = peer.reset
        /\ peer'.wire = WireUpTo(k, n)
    BY <1>1, <1>6 DEF Peer
  <1>10. Starts(peer') = Starts(peer) /\ WholeLen(peer') = WholeLen(peer) /\ BodyLen(peer') = BodyLen(peer)
    BY <1>9 DEF Starts, WholeLen, BodyLen
  <1>11. n \in 0 .. k + RespLen
    BY <1>2, <1>3, <1>5
  <1>12. PICK r \in Nat : r = c.res_sent + t
    BY <1>2, <1>3
  <1> DEFINE d == [c EXCEPT !.res_sent = r, !.state = 100, !.socket = FALSE]
             e == [c EXCEPT !.res_sent = r, !.state = 3]
  <1>13. (h' = d /\ (peer.reset \/ r = RespLen)) \/ h' = e
    BY <1>1, <1>12 DEF SendRespAndClose, SendDone, Sent, t, EToDelete, ESendingAndClosing, Conn
  <1>14. /\ d \in Conn /\ d.req_buflen = c.req_buflen /\ d.execs = c.execs /\ d.code = c.code
         /\ d.res = c.res /\ d.res_buflen = c.res_buflen /\ d.res_sent = r /\ d.state = 100
    BY <1>1, <1>12 DEF Conn
  <1>15. /\ e \in Conn /\ e.req_buflen = c.req_buflen /\ e.execs = c.execs /\ e.code = c.code
         /\ e.res = c.res /\ e.res_buflen = c.res_buflen /\ e.res_sent = r /\ e.state = 3
         /\ e.socket
    BY <1>1, <1>12 DEF Conn
  <1>3a. Received(h', peer')
    <2>1. /\ h'.req_buflen = c.req_buflen /\ h'.execs = c.execs
          /\ h'.res_buflen = c.res_buflen /\ h'.res_sent = r
      BY <1>13, <1>14, <1>15
    <2>2. r <= RespLen
      BY <1>3, <1>12
    <2> QED  BY <1>1, <1>9, <1>10, <2>1, <2>2 DEF Received
  <1> HIDE DEF d, e
  <1>17. Counted(h', peer')
    <2>1. CASE h' = d
      BY <1>14, <1>3a, <2>1 DEF Counted
    <2>2. CASE h' = e
      BY <1>1, <1>15, <1>3a, <2>2 DEF Counted
    <2> QED  BY <1>13, <2>1, <2>2
  <1>18. n = k + r
    BY <1>5, <1>12
  <1>19. Along(h', peer', k, n)
    <2>1. CASE h' = d /\ (peer.reset \/ r = RespLen)
      BY <1>9, <1>14, <1>18, <2>1 DEF Along
    <2>2. CASE h' = e
      BY <1>15, <1>18, <2>2 DEF Along
    <2> QED  BY <1>13, <2>1, <2>2
  <1>20. h' \in Conn
    BY <1>13, <1>14, <1>15
  <1> QED  BY <1>1, <1>8, <1>9, <1>10, <1>11, <1>17, <1>19, <1>20 DEF ConnOK

\* Without memory for a response the connection ends with what was sent before
LEMMA NothingToSend ==
    ASSUME NEW c, NEW k, NEW n, AboutTo(c, k, n), SendRespAndClose(c),
           c.res_sent = c.res_buflen, c.code = 0
    PROVE  ConnOK(h', peer')
  <1>1. /\ c \in Conn /\ Received(c, peer) /\ peer \in Peer /\ k \in Starts(peer)
        /\ n \in 0 .. k + RespLen /\ peer.wire = WireUpTo(k, n)
    BY DEF AboutTo
  <1>2. c.res_sent \in Nat /\ c.res_buflen \in Nat
    BY <1>1 DEF Conn
  <1>3. Taken(c) = 0
    BY <1>1, <1>2, TakenFacts
  <1>4. peer.wire \o SubSeq(Response(c), c.res_sent + 1, c.res_sent + Taken(c)) = peer.wire
    <2>1. peer.wire \in Seq({"continue", "final"} \X Nat)
      BY <1>1 DEF Peer
    <2>2. PICK s \in Nat : s = c.res_sent
      BY <1>2
    <2>3. SubSeq(Response(c), s + 1, s + 0) = <<>>
      BY <2>2
    <2> QED  BY <1>3, <2>1, <2>2, <2>3
  <1>5. peer.room \in 0 .. Room /\ Room \in Nat
    BY <1>1, HttpAssumption DEF Peer
  <1>6. peer.room - Taken(c) = peer.room
    BY <1>3, <1>5
  <1>7. peer' = peer
    BY <1>1, <1>4, <1>6 DEF SendRespAndClose, PutOut, Peer
  <1> DEFINE d == [c EXCEPT !.state = 100, !.socket = FALSE]
  <1>8. h' = d
    <2>1. [c EXCEPT !.res_sent = c.res_sent + 0] = c
      BY <1>1, <1>2 DEF Conn
    <2>2. Sent(c) = c
      BY <1>3, <2>1 DEF Sent
    <2> QED  BY <2>2 DEF SendRespAndClose, SendDone, EToDelete
  <1>9. /\ d \in Conn /\ d.state = 100 /\ d.code = 0
        /\ d.req_buflen = c.req_buflen /\ d.execs = c.execs
        /\ d.res_buflen = c.res_buflen /\ d.res_sent = c.res_sent
    <2>0. c \in Conn
      BY <1>1
    <2>1. d \in Conn
      BY ONLY <2>0 DEF Conn
    <2> QED  BY <1>1, <2>1 DEF Conn
  <1> HIDE DEF d
  <1>10. Counted(h', peer')
    BY <1>1, <1>7, <1>8, <1>9 DEF Counted, Received
  <1>11. Along(h', peer', k, n)
    BY <1>8, <1>9 DEF Along
  <1> QED  BY <1>1, <1>7, <1>8, <1>9, <1>10, <1>11 DEF ConnOK

\* Every answer, with or without memory for it
LEMMA Answered ==
    ASSUME NEW c, NEW k, AboutTo(c, k, k), c.res_sent = c.res_buflen, c.code = 0,
           NEW code \in Nat \ {0}, NEW nomem, Answer(c, code, nomem)
    PROVE  ConnOK(h', peer')
  <1>1. CASE nomem
    BY <1>1, NothingToSend DEF Answer, BuildResp
  <1>2. CASE ~nomem
    <2> DEFINE d == [c EXCEPT !.res = "final", !.res_buflen = RespLen, !.res_sent = 0, !.code = code]
    <2>1. SendRespAndClose(d)
      BY <1>2 DEF Answer, BuildResp
    <2>2. /\ c \in Conn /\ RespLen \in Nat /\ Received(c, peer) /\ peer \in Peer /\ k \in Nat
          /\ k \in Starts(peer) /\ peer.wire = WireUpTo(k, k) /\ c.socket
      BY HttpAssumption DEF AboutTo, Starts
    <2>3. /\ d \in Conn /\ d.res = "final" /\ d.res_buflen = RespLen /\ d.res_sent = 0
          /\ d.code = code /\ d.socket = c.socket /\ d.execs = c.execs
          /\ d.req_buflen = c.req_buflen
      BY <2>2 DEF Conn
    <2> HIDE DEF d
    <2>4. k + d.res_sent = k /\ k \in 0 .. k + RespLen
      BY <2>2, <2>3
    <2>5. Received(d, peer)
      BY <2>2, <2>3 DEF Received
    <2>6. AboutTo(d, k, k + d.res_sent)
      BY <2>2, <2>3, <2>4, <2>5 DEF AboutTo
    <2> QED  BY <2>1, <2>3, <2>6, ResponseSent
  <1> QED  BY <1>1, <1>2

\* "100 Continue" goes out, whole or in part: SendResp()
LEMMA ContinueSent ==
    ASSUME NEW c, AboutTo(c, 0, 0), peer.q.expect, c.state \in {0, 1}, c.code = 0, c.execs = 0,
           c.q = peer.q, c.req_contentlen = BodyLen(peer), ~peer.reset,
           SendResp([c EXCEPT !.res = "continue", !.res_buflen = ContLen, !.res_sent = 0])
    PROVE  ConnOK(h', peer')
  <1> DEFINE g == [c EXCEPT !.res = "continue", !.res_buflen = ContLen, !.res_sent = 0]
             t == Taken(g)
  <1>1. /\ c \in Conn /\ Received(c, peer) /\ peer \in Peer /\ peer.wire = WireUpTo(0, 0)
        /\ c.socket /\ ContLen \in Nat /\ RespLen \in Nat
    BY HttpAssumption DEF AboutTo
  <1>2. c \in Conn /\ ContLen \in Nat
    BY <1>1
  <1>3. /\ g \in Conn /\ g.res = "continue" /\ g.res_buflen = ContLen /\ g.res_sent = 0
        /\ g.req_buflen = c.req_buflen /\ g.execs = c.execs /\ g.code = c.code /\ g.q = c.q
        /\ g.req_contentlen = c.req_contentlen
    BY ONLY <1>2 DEF Conn
  <1>4. g.socket
    BY <1>1 DEF Conn
  <1>5. SendResp(g)
    OBVIOUS
  <1> HIDE DEF g
  <1>6. t \in Nat /\ t <= ContLen /\ peer.room - t \in 0 .. Room
    <2>1. g.res_sent \in Nat /\ g.res_buflen \in Nat /\ g.res_sent <= g.res_buflen
      BY <1>1, <1>3
    <2>2. t \in Nat /\ g.res_sent + t <= g.res_buflen /\ peer.room - t \in 0 .. Room
      BY <1>1, <2>1, TakenFacts
    <2> QED  BY <1>1, <1>3, <2>2
  <1> HIDE DEF t
  <1>7. peer.wire \o SubSeq(Response(g), g.res_sent + 1, g.res_sent + t) = WireUpTo(ContLen, t)
    <2>1. peer.wire = <<>>
      BY <1>1, NothingSent
    <2>2. g.res_sent + 1 = 1 /\ g.res_sent + t = t
      BY <1>3, <1>6
    <2>3. Response(g) = Message("continue", ContLen)
      BY <1>3 DEF Response
    <2> QED  BY <1>6, <2>1, <2>2, <2>3, ContinueStarts
  <1>8. peer' = [peer EXCEPT !.room = peer.room - t, !.wire = WireUpTo(ContLen, t)]
    BY <1>5, <1>7 DEF SendResp, PutOut, t
  <1>9. WireUpTo(ContLen, t) \in Seq({"continue", "final"} \X Nat)
    BY <1>1, <1>6, WireTypes
  <1>10. /\ peer' \in Peer /\ peer'.q = peer.q /\ peer'.sent = peer.sent /\ peer'.reset = peer.reset
         /\ peer'.wire = WireUpTo(ContLen, t)
    BY <1>1, <1>6, <1>8, <1>9 DEF Peer
  <1>11. Starts(peer') = Starts(peer) /\ WholeLen(peer') = WholeLen(peer) /\ BodyLen(peer') = BodyLen(peer)
    BY <1>10 DEF Starts, WholeLen, BodyLen
  <1>12. ContLen \in Starts(peer') /\ t \in 0 .. ContLen + RespLen
    BY <1>1, <1>6, <1>11 DEF Starts, Received
  <1> DEFINE d == [g EXCEPT !.res_sent = t, !.state = 1]
             e == [g EXCEPT !.res_sent = t, !.state = 2]
  <1>13. (h' = d /\ t = ContLen) \/ h' = e
    <2>1. g.res_sent + Taken(g) = t
      BY <1>3, <1>6 DEF t
    <2>2. Sent(g) = [g EXCEPT !.res_sent = t]
      BY <2>1 DEF Sent
    <2>3. [g EXCEPT !.res_sent = t].res_sent = t
      BY <1>3 DEF Conn
    <2> QED  BY <1>3, <1>5, <2>2, <2>3 DEF SendResp, SendDone, EWaitingForHttpContent, ESendingContinue
  <1>14. g \in Conn /\ t \in Nat
    BY <1>3, <1>6
  <1>15. /\ d \in Conn /\ d.req_buflen = g.req_buflen /\ d.execs = g.execs /\ d.code = g.code
         /\ d.q = g.q /\ d.req_contentlen = g.req_contentlen
         /\ d.res_buflen = g.res_buflen /\ d.res_sent = t /\ d.state = 1
    BY ONLY <1>14 DEF Conn
  <1>3a. /\ e \in Conn /\ e.req_buflen = g.req_buflen /\ e.execs = g.execs /\ e.code = g.code
         /\ e.res_buflen = g.res_buflen /\ e.res_sent = t /\ e.state = 2
    BY ONLY <1>14 DEF Conn
  <1>17. d.socket
    BY <1>3, <1>4 DEF Conn
  <1>18. Received(h', peer')
    <2>1. /\ h'.req_buflen = c.req_buflen /\ h'.execs = c.execs
          /\ h'.res_buflen = ContLen /\ h'.res_sent = t
      BY <1>3, <1>13, <1>15, <1>3a
    <2> QED  BY <1>1, <1>6, <1>10, <1>11, <2>1 DEF Received
  <1> HIDE DEF d, e
  <1>19. Counted(h', peer')
    <2>1. CASE h' = d /\ t = ContLen
      BY <1>3, <1>10, <1>11, <1>15, <1>17, <1>18, <2>1 DEF Counted
    <2>2. CASE h' = e
      BY <1>3, <1>3a, <1>18, <2>2 DEF Counted
    <2> QED  BY <1>13, <2>1, <2>2
  <1>20. Along(h', peer', ContLen, t)
    BY <1>3, <1>13, <1>15, <1>3a DEF Along
  <1>21. h' \in Conn
    BY <1>13, <1>15, <1>3a
  <1> QED  BY <1>10, <1>12, <1>19, <1>20, <1>21 DEF ConnOK

\* ProcessHTTPPOST(), for a request whose headers were parsed: the action is
\* done when the body is there, and was not done before.
LEMMA PostProcessed ==
    ASSUME NEW c, NEW k, AboutTo(c, k, k), c.res_sent = c.res_buflen, c.code = 0, c.execs = 0,
           c.q = peer.q, c.req_contentlen = BodyLen(peer), c.state \in {0, 1},
           k = 0 \/ BodyReceived(c), ~peer.reset,
           NEW nomem, ProcessHTTPPOST(c, nomem)
    PROVE  ConnOK(h', peer')
  <1>1. c \in Conn /\ Received(c, peer) /\ peer \in Peer /\ c.socket
    BY DEF AboutTo
  <1>2. HeadLen \in Nat /\ BodyLen(peer) \in Nat /\ c.req_buflen \in Nat
    BY <1>1, HttpAssumption, RequestsAssumption DEF Received, BodyLen, Conn
  <1>3. CASE BodyReceived(c) /\ c.q.soap # "none"
    <2> DEFINE d == [c EXCEPT !.execs = @ + 1]
    <2>1. Answer(d, HttpStatus(ExecuteSoapAction(c.q)), nomem)
      BY <1>3 DEF ProcessHTTPPOST
    <2>2. HttpStatus(ExecuteSoapAction(c.q)) \in Nat \ {0}
      BY DEF HttpStatus
    <2>3. c \in Conn /\ c.execs = 0
      BY <1>1
    <2>4. /\ d \in Conn /\ d.execs = 1 /\ d.res_sent = c.res_sent /\ d.res_buflen = c.res_buflen
          /\ d.code = c.code /\ d.req_buflen = c.req_buflen
      BY ONLY <2>3 DEF Conn
    <2>5. d.socket
      BY <1>1 DEF Conn
    <2> HIDE DEF d
    <2>6. c.req_buflen >= WholeLen(peer)
      BY <1>2, <1>3 DEF BodyReceived, WholeLen
    <2>7. Received(d, peer)
      BY <1>1, <2>4, <2>6 DEF Received
    <2>8. AboutTo(d, k, k)
      BY <2>4, <2>5, <2>7 DEF AboutTo
    <2> QED  BY <2>1, <2>2, <2>4, <2>8, Answered
  <1>4. CASE BodyReceived(c) /\ c.q.soap = "none"
    <2>1. Answer(c, 400, nomem)
      BY <1>4 DEF ProcessHTTPPOST
    <2> QED  BY <2>1, Answered
  <1>5. CASE ~BodyReceived(c) /\ c.q.expect
    <2>1. SendResp([c EXCEPT !.res = "continue", !.res_buflen = ContLen, !.res_sent = 0])
      BY <1>5 DEF ProcessHTTPPOST
    <2>2. AboutTo(c, 0, 0) /\ peer.q.expect
      BY <1>5
    <2> QED  BY <2>1, <2>2, ContinueSent
  <1>6. CASE ~BodyReceived(c) /\ ~c.q.expect
    <2> DEFINE d == [c EXCEPT !.state = 1]
    <2>1. h' = d /\ peer' = peer
      BY <1>6 DEF ProcessHTTPPOST, EWaitingForHttpContent
    <2>2. c \in Conn
      BY <1>1
    <2>3. /\ d \in Conn /\ d.execs = c.execs /\ d.res_sent = c.res_sent /\ d.res_buflen = c.res_buflen
          /\ d.code = c.code /\ d.req_buflen = c.req_buflen /\ d.q = c.q
          /\ d.req_contentlen = c.req_contentlen /\ d.state = 1
      BY ONLY <2>2 DEF Conn
    <2>4. d.socket
      BY <1>1 DEF Conn
    <2> HIDE DEF d
    <2>5. Counted(d, peer)
      BY <1>1, <2>3, <2>4 DEF Counted, Received
    <2>6. Along(d, peer, k, k)
      BY <2>3 DEF Along
    <2>7. k \in Starts(peer) /\ k \in 0 .. k + RespLen /\ peer.wire = WireUpTo(k, k)
      BY DEF AboutTo
    <2>8. ConnOK(d, peer)
      BY <1>1, <2>3, <2>5, <2>6, <2>7 DEF ConnOK
    <2> QED  BY <2>1, <2>8
  <1> QED  BY <1>3, <1>4, <1>5, <1>6

\* ProcessHttpQuery(): every request gets one answer, or waits for its body; the
\* subscribers are counted within their bound.
LEMMA QueryProcessed ==
    ASSUME NEW c, AboutTo(c, 0, 0), c.res_sent = c.res_buflen, c.code = 0, c.execs = 0,
           c.q = peer.q, c.req_contentlen = BodyLen(peer), c.state \in {0, 1},
           ~peer.reset, sids \in 0 .. MaxSubs,
           NEW nomem, ProcessHttpQuery(c, nomem)
    PROVE  ConnOK(h', peer') /\ sids' \in 0 .. MaxSubs
  <1>1. ASSUME NEW code \in Nat \ {0}, Answer(c, code, nomem) PROVE ConnOK(h', peer')
    BY <1>1, Answered
  <1>2. MaxSubs \in Nat
    BY HttpAssumption
  <1>3. CASE Send404(c, nomem) /\ UNCHANGED sids
    BY <1>1, <1>3 DEF Send404
  <1>4. CASE ProcessHTTPPOST(c, nomem) /\ UNCHANGED sids
    BY <1>4, PostProcessed
  <1>5. CASE ProcessGet(c, nomem) /\ UNCHANGED sids
    <2>1. \E code \in {200, 500, 405, 404} : Answer(c, code, nomem)
      BY <1>5 DEF ProcessGet, Send405, Send404
    <2> QED  BY <1>1, <1>5, <2>1
  <1>6. CASE ProcessHTTPSubscribe(c, nomem)
    <2>1. \E code \in {200, 412} : Answer(c, code, nomem)
      BY <1>6 DEF ProcessHTTPSubscribe
    <2>2. sids' = sids \/ (sids' = sids + 1 /\ sids < MaxSubs)
      BY <1>6 DEF ProcessHTTPSubscribe
    <2> QED  BY <1>1, <1>2, <2>1, <2>2
  <1>7. CASE ProcessHTTPUnSubscribe(c, nomem)
    <2>1. \E code \in {200, 412} : Answer(c, code, nomem)
      BY <1>7 DEF ProcessHTTPUnSubscribe
    <2>2. sids' = sids \/ (sids' = sids - 1 /\ sids > 0)
      BY <1>7 DEF ProcessHTTPUnSubscribe
    <2> QED  BY <1>1, <1>2, <2>1, <2>2
  <1>8. CASE Send501(c, nomem) /\ UNCHANGED sids
    BY <1>1, <1>8 DEF Send501
  <1> QED  BY <1>3, <1>4, <1>5, <1>6, <1>7, <1>8 DEF ProcessHttpQuery

\* What recv() gives in any state that reads, however little it is
LEMMA ReceivedPiece ==
    ASSUME HInv, h # <<>>, h.state \in {0, 1}, NEW n \in Nat, NEW nomem, Receive(n, nomem),
           n = 0 \/ (n <= peer.sent - h.req_buflen /\ ~peer.reset)
    PROVE  HInv'
  <1>1. h \in Conn /\ Counted(h, peer) /\ peer \in Peer /\ sids \in 0 .. MaxSubs
    BY DEF HInv, ConnOK
  <1>2. Received(h, peer) /\ peer.q \in Requests
    BY <1>1 DEF Counted, Received
  <1>3. PICK k \in Starts(peer) : \E m \in 0 .. k + RespLen :
           peer.wire = WireUpTo(k, m) /\ Along(h, peer, k, m)
    BY DEF HInv, ConnOK
  <1>4. k \in Nat /\ RespLen \in Nat /\ HeadLen \in Nat /\ ContLen \in Nat /\ Extra \in Nat
    BY <1>3, HttpAssumption DEF Starts
  <1>5. peer.wire = WireUpTo(k, k) /\ (h.state = 0 => k = 0) /\ Along(h, peer, k, k)
    BY <1>3, <1>4 DEF Along
  <1>6. k \in 0 .. k + RespLen
    BY <1>4
  <1>7. CASE n = 0 \/ nomem = "buf"
    <2> DEFINE d == [h EXCEPT !.state = 100]
    <2>1. h' = d /\ peer' = peer /\ sids' = sids
      BY <1>7 DEF Receive, EToDelete
    <2>2. h \in Conn
      BY <1>1
    <2>3. /\ d \in Conn /\ d.state = 100 /\ d.execs = h.execs /\ d.res_sent = h.res_sent
          /\ d.res_buflen = h.res_buflen /\ d.req_buflen = h.req_buflen /\ d.code = h.code
      BY ONLY <2>2 DEF Conn
    <2> HIDE DEF d
    <2>4. h.code = 0
      BY <1>1 DEF Counted
    <2>5. Counted(d, peer) /\ Along(d, peer, k, k)
      BY <1>2, <2>3, <2>4 DEF Counted, Received, Along
    <2>6. ConnOK(d, peer)
      BY <1>1, <1>3, <1>5, <1>6, <2>3, <2>5 DEF ConnOK
    <2> QED  BY <1>1, <2>1, <2>6 DEF HInv
  <1>8. CASE ~(n = 0 \/ nomem = "buf")
    <2> DEFINE c == [h EXCEPT !.req_buflen = @ + n]
    <2>1. h \in Conn /\ n \in Nat /\ h.req_buflen \in Nat /\ peer.sent \in Nat
      BY <1>1 DEF Conn, Peer
    <2>2. /\ c \in Conn /\ c.state = h.state /\ c.execs = h.execs /\ c.res_sent = h.res_sent
          /\ c.res_buflen = h.res_buflen /\ c.req_buflen = h.req_buflen + n /\ c.code = h.code
          /\ c.q = h.q /\ c.req_contentlen = h.req_contentlen
      BY ONLY <2>1 DEF Conn
    <2>3. c.socket /\ ~peer.reset
      BY <1>1, <1>8 DEF Conn, Counted
    <2>4. /\ h.state = 0 /\ c.req_buflen >= HeadLen => ProcessHttpQuery(ParseHttpHeaders(c), nomem = "res")
          /\ \/ h.state = 0 /\ c.req_buflen >= HeadLen
             \/ h.state = 1 /\ BodyReceived(c) /\ ProcessHTTPPOST(c, nomem = "res") /\ sids' = sids
             \/ h' = c /\ peer' = peer /\ sids' = sids
      BY <1>8 DEF Receive, EWaitingForHttpRequest
    <2> HIDE DEF c
    <2>5. c.req_buflen \in Nat /\ c.req_buflen <= peer.sent
      BY <1>8, <2>1, <2>2
    <2>6. h.execs = 0 /\ h.code = 0 /\ h.res_sent = h.res_buflen
      BY <1>1 DEF Counted
    <2>7. Received(c, peer)
      BY <1>2, <2>2, <2>5, <2>6 DEF Received
    <2>8. AboutTo(c, k, k)
      BY <1>1, <1>3, <1>5, <1>6, <2>2, <2>3, <2>7 DEF AboutTo
    <2>9. CASE h' = c /\ peer' = peer /\ sids' = sids
      <3>1. Counted(c, peer)
        BY <1>1, <2>2, <2>3, <2>6, <2>7 DEF Counted
      <3>2. Along(c, peer, k, k)
        BY <1>5, <2>2 DEF Along
      <3>3. ConnOK(c, peer)
        BY <1>1, <1>3, <1>5, <1>6, <2>2, <3>1, <3>2 DEF ConnOK
      <3> QED  BY <1>1, <2>9, <3>3 DEF HInv
    <2>10. CASE h.state = 1 /\ BodyReceived(c) /\ ProcessHTTPPOST(c, nomem = "res") /\ sids' = sids
      <3>1. c.q = peer.q /\ c.req_contentlen = BodyLen(peer)
        BY <1>1, <2>2, <2>10 DEF Counted
      <3>2. ConnOK(h', peer')
        BY <2>2, <2>3, <2>6, <2>8, <2>10, <3>1, PostProcessed
      <3> QED  BY <1>1, <2>10, <3>2 DEF HInv
    <2>11. CASE h.state = 0 /\ c.req_buflen >= HeadLen
      <3> DEFINE d == [c EXCEPT !.q = peer.q, !.req_contentlen = BodyLen(peer)]
      <3>1. ProcessHttpQuery(d, nomem = "res")
        BY <2>4, <2>11 DEF ParseHttpHeaders, BodyLen
      <3>2. c \in Conn /\ peer.q \in Requests /\ BodyLen(peer) \in Nat
        BY <1>2, <2>2, RequestsAssumption DEF BodyLen
      <3>3. /\ d \in Conn /\ d.state = c.state /\ d.execs = c.execs /\ d.res_sent = c.res_sent
            /\ d.res_buflen = c.res_buflen /\ d.req_buflen = c.req_buflen /\ d.code = c.code
            /\ d.q = peer.q /\ d.req_contentlen = BodyLen(peer)
        BY ONLY <3>2 DEF Conn
      <3>4. d.socket
        BY <2>2, <2>3 DEF Conn
      <3> HIDE DEF d
      <3>5. Received(d, peer)
        BY <2>7, <3>3 DEF Received
      <3>6. AboutTo(d, 0, 0)
        BY <1>5, <2>8, <2>11, <3>3, <3>4, <3>5 DEF AboutTo
      <3> QED  BY <1>1, <2>2, <2>3, <2>6, <2>11, <3>1, <3>3, <3>6, QueryProcessed DEF HInv
    <2> QED  BY <2>4, <2>9, <2>10, <2>11
  <1> QED  BY <1>7, <1>8

-------------------------------------------------------------------------------
(***************************************************************************)
(* The steps of the connection and of its peer.                            *)
(***************************************************************************)

\* A new daemon has no connection.
LEMMA InitHInv == HInit => HInv
  <1> SUFFICES ASSUME HInit PROVE HInv
    OBVIOUS
  <1>1. Room \in Nat /\ RespLen \in Nat /\ MaxSubs \in Nat
    BY HttpAssumption
  <1>2. h = <<>> /\ sids = 0 /\ peer.wire = <<>>
    BY DEF HInit
  <1>3. peer \in Peer
    BY <1>1 DEF HInit, Peer
  <1>4. 0 \in Starts(peer) /\ 0 \in 0 .. 0 + RespLen /\ peer.wire = WireUpTo(0, 0)
    BY <1>1, <1>2, NothingSent DEF Starts
  <1> QED  BY <1>1, <1>2, <1>3, <1>4 DEF HInv, ConnOK

\* Process_upnphttp(), reading or sending the rest
LEMMA ProcessHInv == HInv /\ Process => HInv'
  <1> SUFFICES ASSUME HInv, Process PROVE HInv'
    OBVIOUS
  <1>1. h # <<>> /\ h \in Conn /\ Counted(h, peer) /\ peer \in Peer /\ sids \in 0 .. MaxSubs
    BY DEF Process, HInv, ConnOK
  <1>2. h.req_buflen \in Nat /\ peer.sent \in Nat /\ h.req_buflen <= peer.sent
    BY <1>1 DEF Conn, Peer, Counted, Received
  <1>3. ASSUME h.state <= EWaitingForHttpContent,
               NEW n \in IF peer.reset \/ peer.sent = h.req_buflen THEN {0}
                         ELSE 1 .. peer.sent - h.req_buflen,
               NEW nomem \in {"no", "buf", "res"}, Receive(n, nomem)
        PROVE  HInv'
    <2>1. h.state \in {0, 1}
      BY <1>1, <1>3 DEF Conn, EWaitingForHttpContent
    <2>2. n \in Nat /\ (n = 0 \/ (n <= peer.sent - h.req_buflen /\ ~peer.reset))
      BY <1>2
    <2> QED  BY <1>1, <1>3, <2>1, <2>2, ReceivedPiece
  <1>4. CASE h.state = ESendingAndClosing /\ SendRespAndClose(h) /\ UNCHANGED sids
    <2>1. h.state = 3
      BY <1>4 DEF ESendingAndClosing
    <2>2. PICK k \in Starts(peer) : \E m \in 0 .. k + RespLen :
             peer.wire = WireUpTo(k, m) /\ Along(h, peer, k, m)
      BY <1>1 DEF HInv, ConnOK
    <2>3. /\ k + h.res_sent \in 0 .. k + RespLen /\ peer.wire = WireUpTo(k, k + h.res_sent)
          /\ h.res_buflen = RespLen
      BY <2>1, <2>2 DEF Along
    <2>4. h.socket /\ h.res = "final" /\ h.code # 0 /\ Received(h, peer)
      BY <1>1, <2>1 DEF Counted
    <2>5. AboutTo(h, k, k + h.res_sent)
      BY <1>1, <2>2, <2>3, <2>4 DEF AboutTo
    <2>6. ConnOK(h', peer')
      BY <1>4, <2>3, <2>4, <2>5, ResponseSent
    <2> QED  BY <1>1, <1>4, <2>6 DEF HInv
  <1> QED  BY <1>3, <1>4 DEF Process

\* The peer sends, closes its side, goes away or reads: what it got stays.
LEMMA PeerHInv ==
    ASSUME HInv, h # <<>>, UNCHANGED <<h, sids>>, peer' \in Peer, peer'.q = peer.q,
           peer'.wire = peer.wire, peer.sent <= peer'.sent, peer'.sent <= WholeLen(peer) + Extra,
           peer.reset => peer'.reset
    PROVE  HInv'
  <1>1. h \in Conn /\ Counted(h, peer) /\ peer \in Peer /\ sids \in 0 .. MaxSubs
    BY DEF HInv, ConnOK
  <1>2. Starts(peer') = Starts(peer) /\ WholeLen(peer') = WholeLen(peer) /\ BodyLen(peer') = BodyLen(peer)
    BY DEF Starts, WholeLen, BodyLen
  <1>3. h.req_buflen \in Nat /\ peer.sent \in Nat /\ peer'.sent \in Nat
    BY <1>1 DEF Conn, Peer
  <1>4. Received(h, peer')
    BY <1>1, <1>2, <1>3 DEF Counted, Received
  <1>5. Counted(h, peer')
    BY <1>1, <1>2, <1>4 DEF Counted
  <1>6. PICK k \in Starts(peer) : \E m \in 0 .. k + RespLen :
           peer.wire = WireUpTo(k, m) /\ Along(h, peer, k, m)
    BY DEF HInv, ConnOK
  <1>7. PICK m \in 0 .. k + RespLen : peer.wire = WireUpTo(k, m) /\ Along(h, peer, k, m)
    BY <1>6
  <1>8. Along(h, peer', k, m)
    BY <1>7 DEF Along
  <1>9. ConnOK(h, peer')
    BY <1>1, <1>2, <1>5, <1>6, <1>7, <1>8 DEF ConnOK
  <1> QED  BY <1>1, <1>9 DEF HInv

\* Every step of the connection and of its peer keeps the invariant.
LEMMA NextHInv == HInv /\ [HNext]_hvars => HInv'
  <1> SUFFICES ASSUME HInv, [HNext]_hvars PROVE HInv'
    OBVIOUS
  <1>1. CASE Process
    BY <1>1, ProcessHInv
  <1>2. CASE Delete
    <2>1. ConnOK(<<>>, peer)
      BY DEF HInv, ConnOK
    <2> QED  BY <1>2, <2>1 DEF Delete, HInv
  <1>3. CASE ProcessIncomingHTTP
    <2>1. PICK q \in Requests, room \in 1 .. Room :
             peer' = [q |-> q, sent |-> 0, fin |-> FALSE, reset |-> FALSE, room |-> room,
                      wire |-> <<>>]
      BY <1>3 DEF ProcessIncomingHTTP
    <2>2. h' = NewHttp /\ sids' = sids /\ sids \in 0 .. MaxSubs
      BY <1>3 DEF ProcessIncomingHTTP, HInv
    <2>3. HeadLen \in Nat /\ Extra \in Nat /\ RespLen \in Nat /\ Room \in Nat /\ q.len \in Int
      BY HttpAssumption, RequestsAssumption
    <2>4. peer' \in Peer /\ peer'.q = q /\ peer'.sent = 0 /\ peer'.wire = <<>>
      BY <2>1, <2>3 DEF Peer
    <2>5. WholeLen(peer') \in Nat
      BY <2>3, <2>4 DEF WholeLen, BodyLen
    <2>6. /\ NewHttp \in Conn /\ NewHttp.state = 0 /\ NewHttp.socket /\ NewHttp.req_buflen = 0
          /\ NewHttp.res_sent = 0 /\ NewHttp.res_buflen = 0 /\ NewHttp.code = 0 /\ NewHttp.execs = 0
      BY DEF NewHttp, Conn, EWaitingForHttpRequest
    <2>7. Counted(NewHttp, peer')
      BY <2>3, <2>4, <2>5, <2>6 DEF Counted, Received
    <2>8. Along(NewHttp, peer', 0, 0)
      BY <2>6 DEF Along
    <2>9. 0 \in Starts(peer') /\ 0 \in 0 .. 0 + RespLen /\ peer'.wire = WireUpTo(0, 0)
      BY <2>3, <2>4, NothingSent DEF Starts
    <2>10. ConnOK(NewHttp, peer')
      BY <2>4, <2>6, <2>7, <2>8, <2>9 DEF ConnOK
    <2> QED  BY <2>2, <2>10 DEF HInv
  <1>4. ASSUME h # <<>>
        PROVE  /\ peer \in Peer /\ peer.sent \in Nat /\ WholeLen(peer) + Extra \in Nat
               /\ peer.sent <= WholeLen(peer) + Extra
    <2>1. Counted(h, peer) /\ peer \in Peer
      BY <1>4 DEF HInv, ConnOK
    <2>2. HeadLen \in Nat /\ Extra \in Nat /\ peer.q.len \in Int
      BY <2>1, HttpAssumption, RequestsAssumption DEF Counted, Received
    <2>3. WholeLen(peer) \in Nat
      BY <2>2 DEF WholeLen, BodyLen
    <2> QED  BY <2>1, <2>2, <2>3 DEF Counted, Received, Peer
  <1>5. CASE PeerSends
    <2>1. h # <<>> /\ UNCHANGED <<h, sids>>
      BY <1>5 DEF PeerSends
    <2>2. PICK n \in 1 .. WholeLen(peer) + Extra - peer.sent : peer' = [peer EXCEPT !.sent = @ + n]
      BY <1>5 DEF PeerSends, Whole, WholeLen, BodyLen
    <2>3. PICK s \in Nat : s = peer.sent + n /\ peer.sent <= s /\ s <= WholeLen(peer) + Extra
      <3>1. PICK w \in Int : w = WholeLen(peer)
        <4>1. peer.q.len \in Int /\ HeadLen \in Nat
          BY <2>1, HttpAssumption, RequestsAssumption DEF HInv, ConnOK, Counted, Received
        <4> QED  BY <4>1 DEF WholeLen, BodyLen
      <3>2. Extra \in Nat
        BY HttpAssumption
      <3>3. n \in 1 .. w + Extra - peer.sent /\ peer.sent \in Nat
        BY <1>4, <2>1, <2>2, <3>1
      <3> QED  BY <3>1, <3>2, <3>3
    <2>4. /\ peer' \in Peer /\ peer'.q = peer.q /\ peer'.wire = peer.wire /\ peer'.sent = s
          /\ peer'.reset = peer.reset
      BY <1>4, <2>1, <2>2, <2>3 DEF Peer
    <2> QED  BY <2>1, <2>3, <2>4, PeerHInv
  <1>6. CASE PeerCloses
    <2>1. h # <<>> /\ UNCHANGED <<h, sids>> /\ peer' = [peer EXCEPT !.fin = TRUE]
      BY <1>6 DEF PeerCloses
    <2>2. /\ peer' \in Peer /\ peer'.q = peer.q /\ peer'.wire = peer.wire /\ peer'.sent = peer.sent
          /\ peer'.reset = peer.reset
      BY <1>4, <2>1 DEF Peer
    <2> QED  BY <1>4, <2>1, <2>2, PeerHInv
  <1>7. CASE PeerResets
    <2>1. h # <<>> /\ UNCHANGED <<h, sids>> /\ peer' = [peer EXCEPT !.reset = TRUE]
      BY <1>7 DEF PeerResets
    <2>2. /\ peer' \in Peer /\ peer'.q = peer.q /\ peer'.wire = peer.wire /\ peer'.sent = peer.sent
          /\ peer'.reset
      BY <1>4, <2>1 DEF Peer
    <2> QED  BY <1>4, <2>1, <2>2, PeerHInv
  <1>8. CASE PeerReads
    <2>1. h # <<>> /\ UNCHANGED <<h, sids>> /\ peer' = [peer EXCEPT !.room = Room] /\ Room \in 0 .. Room
      BY <1>8, HttpAssumption DEF PeerReads
    <2>2. /\ peer' \in Peer /\ peer'.q = peer.q /\ peer'.wire = peer.wire /\ peer'.sent = peer.sent
          /\ peer'.reset = peer.reset
      BY <1>4, <2>1 DEF Peer
    <2> QED  BY <1>4, <2>1, <2>2, PeerHInv
  <1>9. CASE UNCHANGED hvars
    BY <1>9 DEF hvars, HInv
  <1> QED  BY <1>1, <1>2, <1>3, <1>5, <1>6, <1>7, <1>8, <1>9 DEF HNext

\* The counters of a connection and the number of subscribers stay within their
\* bounds: no unit is read that the peer did not send, none is sent that is not
\* in the response.
THEOREM HttpTyped == HSpec => []HttpTypeOK
  <1>1. HSpec => []HInv
    BY InitHInv, NextHInv, PTL DEF HSpec
  <1> QED  BY <1>1, HInvIsSafe, PTL

\* ProcessHTTPPOST() does the action of a request at most once, and only when all
\* of its body is in the buffer, however it is cut into pieces.
THEOREM ActionsOnce == HSpec => []ActionOnce
  <1>1. HSpec => []HInv
    BY InitHInv, NextHInv, PTL DEF HSpec
  <1> QED  BY <1>1, HInvIsSafe, PTL

\* SendResp() and SendRespAndClose() put "100 Continue" and the response on the
\* wire whole and in this order, whatever room the socket has.
THEOREM WireIsInOrder == HSpec => []WireOrdered
  <1>1. HSpec => []HInv
    BY InitHInv, NextHInv, PTL DEF HSpec
  <1> QED  BY <1>1, HInvIsSafe, PTL

-----------------------------------------------------------------------------
(***************************************************************************)
(* The main loop.                                                          *)
(***************************************************************************)
\* A time of the queue: what is past is not counted further. asyncsendto.c does
\* not carry exactly one second.
Time == [sec : Nat \cup {-1}, usec : 0 .. Second]

Datagram == [state : {"ESCHEDULED", "EWAITREADY", "ESENDNOW"}, ts : Time,
             msg : {"alive", "bye", "response", "address", "announce"}]

\* What may be sent is not before its time
Elt == {e \in Datagram : e.state # "ESCHEDULED" => ~Before(Clock, e.ts)}

Nets == [queue : Seq(Elt), blocked : BOOLEAN, intr : Int]

\* The types of what the times are worked out from
LTyped ==
    /\ phase \in 0 .. Second - 1
    /\ left \in Nat
    /\ last \in [sec : Int, usec : 0 .. Second - 1]
    /\ clean \in Int
    /\ Net \in Nets

LInv == LTyped /\ WakesInTime

-------------------------------------------------------------------------------
(***************************************************************************)
(* Times.                                                                  *)
(***************************************************************************)

\* A second has ticks, and the delays are positive.
LEMMA Sizes == /\ Second \in Nat /\ Second >= 1 /\ Interval \in Nat /\ Interval >= 1
               /\ Repeat \in Nat /\ Repeat >= 1 /\ MSearchDelay \in Nat /\ MSearchDelay >= 1
               /\ Never \in Nat
  BY MainLoopAssumption DEF Never

\* A later second is at least one second of ticks later.
LEMMA LaterSecond ==
    ASSUME NEW a \in Int, NEW b \in Int, a < b
    PROVE  a * Second + Second <= b * Second /\ a * Second \in Int /\ b * Second \in Int
  <1>1. Second \in Nat
    BY Sizes
  <1>2. PICK d \in Nat : b = a + 1 + d
    <2>1. b - a - 1 \in Nat /\ b = a + 1 + (b - a - 1)
      OBVIOUS
    <2> QED  BY <2>1
  <1>3. b * Second = a * Second + Second + d * Second
    BY <1>1, <1>2
  <1>4. d * Second \in Nat /\ a * Second \in Int
    BY <1>1
  <1> QED  BY <1>1, <1>3, <1>4

\* The comparison of struct timeval agrees with the ticks, also for a time whose
\* ticks are a whole second.
LEMMA NotBeforeInTicks ==
    ASSUME NEW a, NEW b, a.sec \in Int, b.sec \in Int, a.usec \in 0 .. Second, b.usec \in 0 .. Second,
           ~Before(b, a)
    PROVE  Ticks(a) <= Ticks(b) /\ Ticks(a) \in Int /\ Ticks(b) \in Int
  <1>1. Second \in Nat
    BY Sizes
  <1>2. a.sec < b.sec \/ (a.sec = b.sec /\ a.usec <= b.usec)
    BY <1>1 DEF Before
  <1>3. CASE a.sec < b.sec
    <2>1. /\ a.sec * Second + Second <= b.sec * Second
          /\ a.sec * Second \in Int /\ b.sec * Second \in Int
      BY <1>3, LaterSecond
    <2> QED  BY <1>1, <2>1 DEF Ticks
  <1>4. CASE a.sec = b.sec /\ a.usec <= b.usec
    <2>1. a.sec * Second \in Int
      BY <1>1
    <2> QED  BY <1>1, <1>4, <2>1 DEF Ticks
  <1> QED  BY <1>2, <1>3, <1>4

\* What is after the clock is at least a tick away.
LEMMA AfterClock ==
    ASSUME NEW t \in Time, phase \in 0 .. Second - 1, Before(Clock, t)
    PROVE  Ticks(t) - phase >= 1 /\ Ticks(t) \in Int /\ t.sec >= 0
  <1>1. Second \in Nat /\ t.sec \in Int /\ t.usec \in 0 .. Second
    BY Sizes DEF Time
  <1>2. 0 < t.sec \/ (0 = t.sec /\ phase < t.usec)
    BY DEF Before, Clock
  <1>3. CASE 0 < t.sec
    <2>1. 0 * Second + Second <= t.sec * Second /\ t.sec * Second \in Int
      BY <1>1, <1>3, LaterSecond
    <2>2. 0 * Second = 0
      BY <1>1
    <2> QED  BY <1>1, <1>3, <2>1, <2>2 DEF Ticks
  <1>4. CASE 0 = t.sec /\ phase < t.usec
    <2>1. t.sec * Second = 0
      BY <1>1, <1>4
    <2> QED  BY <1>1, <1>4, <2>1 DEF Ticks
  <1> QED  BY <1>2, <1>3, <1>4

\* get_next_scheduled_send() finds a time of the queue, and none is earlier.
LEMMA NextIsEarliest ==
    ASSUME NEW q \in Seq(Elt), q # <<>>
    PROVE  /\ \E i \in 1 .. Len(q) : NextScheduled(q) = q[i].ts
           /\ \A i \in 1 .. Len(q) : ~Before(q[i].ts, NextScheduled(q))
  <1> DEFINE Q == {q[i].ts : i \in 1 .. Len(q)}
             M == {t.sec + 1 : t \in Q}
  <1>1. 1 \in 1 .. Len(q)
    OBVIOUS
  <1>2. \A i \in 1 .. Len(q) : q[i].ts \in Time
    <2>1. \A i \in 1 .. Len(q) : q[i] \in Elt
      OBVIOUS
    <2> QED  BY <2>1 DEF Elt, Datagram
  <1>3. \A t \in Q : t.sec \in Int /\ t.sec + 1 \in Nat /\ t.usec \in Nat
    <2> TAKE t \in Q
    <2>1. t \in Time
      BY <1>2
    <2> QED  BY <2>1, Sizes DEF Time
  <1>4. Q # {}
    BY <1>1
  <1> HIDE DEF Q
  <1>5. PICK m \in M : \A k \in M : m <= k
    <2>1. M \subseteq Nat /\ M # {}
      BY <1>3, <1>4
    <2> HIDE DEF M
    <2> QED  BY <2>1, LeastNatural
  <1> DEFINE U == {u \in Nat : \E t \in Q : t.sec + 1 = m /\ t.usec = u}
  <1>6. PICK u \in U : \A k \in U : u <= k
    <2>1. U \subseteq Nat /\ U # {}
      BY <1>3, <1>5
    <2> HIDE DEF U
    <2> QED  BY <2>1, LeastNatural
  <1>7. PICK t \in Q : t.sec + 1 = m /\ t.usec = u
    BY <1>6
  <1>8. ASSUME NEW x \in Q PROVE ~Before(x, t)
    <2>1. m <= x.sec + 1
      BY <1>5
    <2>2. x.sec \in Int /\ t.sec \in Int /\ x.usec \in Nat /\ t.usec \in Nat
      BY <1>3
    <2>3. ~(x.sec < t.sec)
      BY <1>7, <2>1, <2>2
    <2>4. x.sec = t.sec => t.usec <= x.usec
      BY <1>6, <1>7, <2>2
    <2> QED  BY <2>2, <2>3, <2>4 DEF Before
  <1>9. \A i \in 1 .. Len(q) : ~Before(q[i].ts, t)
    BY <1>8 DEF Q
  <1>10. \E x \in {q[i].ts : i \in 1 .. Len(q)} : \A i \in 1 .. Len(q) : ~Before(q[i].ts, x)
    BY <1>7, <1>9 DEF Q
  <1>11. /\ NextScheduled(q) \in {q[i].ts : i \in 1 .. Len(q)}
         /\ \A i \in 1 .. Len(q) : ~Before(q[i].ts, NextScheduled(q))
    BY <1>10 DEF NextScheduled
  <1> QED  BY <1>11

\* A sleep that is shortened for the queue ends by the time of each datagram, and
\* the borrow from the seconds never makes it negative.
LEMMA SleepForQueue ==
    ASSUME NEW q \in Seq(Elt), phase \in 0 .. Second - 1,
           NEW t, t.sec \in Nat, t.usec \in 0 .. Second
    PROVE  /\ Ticks(UntilSend(t, q)) \in Nat
           /\ \A i \in 1 .. Len(q) :
                 Before(Clock, q[i].ts) => Ticks(UntilSend(t, q)) <= Ticks(q[i].ts) - phase
  <1>1. Second \in Nat /\ Second >= 1 /\ phase \in Nat
    BY Sizes
  <1>2. ASSUME NEW x, x.sec \in Nat, x.usec \in 0 .. Second PROVE Ticks(x) \in Nat
    <2>1. x.sec * Second \in Nat
      BY <1>1, <1>2
    <2> QED  BY <1>1, <1>2, <2>1 DEF Ticks
  <1>3. CASE q = <<>>
    <2>1. UntilSend(t, q) = t
      BY <1>3 DEF UntilSend
    <2> QED  BY <1>2, <1>3, <2>1
  <1>4. CASE q # <<>>
    <2> DEFINE next == NextScheduled(q)
               d == [sec |-> next.sec, usec |-> next.usec - phase]
               tmp == IF d.usec < 0 THEN [sec |-> d.sec - 1, usec |-> d.usec + Second] ELSE d
    <2>1. PICK j \in 1 .. Len(q) : next = q[j].ts
      BY <1>4, NextIsEarliest
    <2>2. \A i \in 1 .. Len(q) : ~Before(q[i].ts, next)
      BY <1>4, NextIsEarliest
    <2>3. \A i \in 1 .. Len(q) : q[i].ts \in Time
      <3>1. \A i \in 1 .. Len(q) : q[i] \in Elt
        OBVIOUS
      <3> QED  BY <3>1 DEF Elt, Datagram
    <2>4. next \in Time
      BY <2>1, <2>3
    <2>5. UntilSend(t, q) = IF ~Before(Clock, next)
                            THEN IF \E i \in 1 .. Len(q) : Due(q[i]) THEN [sec |-> 0, usec |-> 0] ELSE t
                            ELSE IF Before(tmp, t) THEN tmp ELSE t
      BY <1>4 DEF UntilSend
    <2> HIDE DEF next
    <2>6. CASE ~Before(Clock, next)
      <3>1. Due(q[j])
        BY <2>1, <2>6 DEF Due
      <3>2. UntilSend(t, q) = [sec |-> 0, usec |-> 0]
        BY <2>5, <2>6, <3>1
      <3>3. Ticks(UntilSend(t, q)) = 0
        <4>1. 0 * Second + 0 = 0
          BY <1>1
        <4> QED  BY <3>2, <4>1 DEF Ticks
      <3>4. ASSUME NEW i \in 1 .. Len(q), Before(Clock, q[i].ts) PROVE 0 <= Ticks(q[i].ts) - phase
        <4>1. Ticks(q[i].ts) - phase >= 1 /\ Ticks(q[i].ts) \in Int
          BY <2>3, <3>4, AfterClock
        <4> QED  BY <1>1, <4>1
      <3> QED  BY <3>3, <3>4
    <2>7. CASE Before(Clock, next)
      <3>1. /\ next.sec \in Nat /\ next.usec \in 0 .. Second
            /\ next.sec > 0 \/ next.usec > phase
        <4>1. next.sec \in Int /\ next.usec \in 0 .. Second
          BY <2>4 DEF Time
        <4>2. 0 < next.sec \/ (0 = next.sec /\ phase < next.usec)
          BY <2>7 DEF Before, Clock
        <4> QED  BY <1>1, <4>1, <4>2
      <3>2. /\ tmp.sec \in Nat /\ tmp.usec \in 0 .. Second
            /\ Ticks(tmp) = Ticks(next) - phase
        <4>1. d.sec = next.sec /\ d.usec = next.usec - phase
          OBVIOUS
        <4>2. next.sec * Second \in Int /\ (next.sec - 1) * Second = next.sec * Second - Second
          BY <1>1, <3>1
        <4>3. CASE d.usec < 0
          <5>1. tmp.sec = next.sec - 1 /\ tmp.usec = next.usec - phase + Second
            BY <4>1, <4>3
          <5>2. next.sec - 1 \in Nat /\ next.usec - phase + Second \in 0 .. Second
            BY <1>1, <3>1, <4>1, <4>3
          <5> HIDE DEF tmp, d
          <5>3. Ticks(tmp) = (next.sec - 1) * Second + (next.usec - phase + Second)
            BY <5>1 DEF Ticks
          <5> QED  BY <1>1, <3>1, <4>2, <5>1, <5>2, <5>3 DEF Ticks
        <4>4. CASE ~(d.usec < 0)
          <5>1. tmp.sec = next.sec /\ tmp.usec = next.usec - phase
            BY <4>1, <4>4
          <5>2. next.usec - phase \in 0 .. Second
            BY <1>1, <3>1, <4>1, <4>4
          <5> HIDE DEF tmp, d
          <5>3. Ticks(tmp) = next.sec * Second + (next.usec - phase)
            BY <5>1 DEF Ticks
          <5> QED  BY <1>1, <3>1, <4>2, <5>1, <5>2, <5>3 DEF Ticks
        <4> QED  BY <4>3, <4>4
      <3> HIDE DEF tmp, d
      <3>3. UntilSend(t, q) = IF Before(tmp, t) THEN tmp ELSE t
        BY <2>5, <2>7
      <3>4. Ticks(UntilSend(t, q)) \in Nat /\ Ticks(UntilSend(t, q)) <= Ticks(tmp)
        <4>1. CASE Before(tmp, t)
          <5>1. Ticks(tmp) \in Nat
            BY <1>2, <3>2
          <5> QED  BY <3>3, <4>1, <5>1
        <4>2. CASE ~Before(tmp, t)
          <5>1. Ticks(t) \in Nat
            BY <1>2
          <5>2. Ticks(t) <= Ticks(tmp)
            BY <3>2, <4>2, NotBeforeInTicks
          <5> QED  BY <3>3, <4>2, <5>1, <5>2
        <4> QED  BY <4>1, <4>2
      <3>5. ASSUME NEW i \in 1 .. Len(q)
            PROVE  Ticks(next) <= Ticks(q[i].ts) /\ Ticks(next) \in Int /\ Ticks(q[i].ts) \in Int
        <4>1. q[i].ts.sec \in Int /\ q[i].ts.usec \in 0 .. Second
          BY <2>3 DEF Time
        <4> QED  BY <2>2, <3>1, <4>1, NotBeforeInTicks
      <3>6. Ticks(tmp) \in Nat
        BY <1>2, <3>2
      <3> QED  BY <1>1, <3>2, <3>4, <3>5, <3>6
    <2> QED  BY <2>6, <2>7
  <1> QED  BY <1>3, <1>4

-------------------------------------------------------------------------------
(***************************************************************************)
(* The queue, through all that sends.                                      *)
(***************************************************************************)

\* The time that sendto_schedule2() works out is one of the queue; with no delay
\* it is now.
LEMMA TimeOfTyped ==
    ASSUME phase \in 0 .. Second - 1, NEW delay \in Nat
    PROVE  TimeOf(delay) \in Time /\ ~Before(Clock, TimeOf(0))
  <1>1. Second \in Nat /\ Second >= 1 /\ phase \in Nat /\ phase < Second
    BY Sizes
  <1>2. delay % Second \in 0 .. Second - 1 /\ delay \div Second \in Nat
    BY <1>1
  <1>3. 0 % Second = 0 /\ 0 \div Second = 0
    BY <1>1
  <1>4. PICK u \in Nat, v \in Nat : u = phase + (delay % Second) /\ v = delay \div Second /\ u <= 2 * Second
    BY <1>1, <1>2
  <1>5. TimeOf(delay) = IF u > Second THEN [sec |-> v + 1, usec |-> u - Second] ELSE [sec |-> v, usec |-> u]
    BY <1>4 DEF TimeOf
  <1>6. u > Second => u - Second \in 0 .. Second
    BY <1>1, <1>4
  <1>7. ~(u > Second) => u \in 0 .. Second
    BY <1>1, <1>4
  <1>8. TimeOf(delay) \in Time
    BY <1>4, <1>5, <1>6, <1>7 DEF Time
  <1>9. TimeOf(0) = [sec |-> 0, usec |-> phase]
    <2>1. phase + 0 = phase /\ ~(phase > Second)
      BY <1>1
    <2> QED  BY <1>3, <2>1 DEF TimeOf
  <1>10. ~Before(Clock, TimeOf(0))
    BY <1>1, <1>9 DEF Before, Clock
  <1> QED  BY <1>8, <1>10

\* send_from_to() does not touch the queue.
LEMMA SendFromToTyped ==
    ASSUME NEW s \in Nets, NEW c
    PROVE  SendFromTo(s, c) \in Nets /\ SendFromTo(s, c).queue = s.queue
  <1>1. CASE Outcome(s, c) = "full"
    <2>1. SendFromTo(s, c) = [s EXCEPT !.blocked = TRUE]
      BY <1>1 DEF SendFromTo
    <2> QED  BY <2>1 DEF Nets
  <1>2. CASE Outcome(s, c) = "intr"
    <2>1. SendFromTo(s, c) = [s EXCEPT !.intr = @ - 1]
      BY <1>2 DEF SendFromTo
    <2> QED  BY <2>1 DEF Nets
  <1>3. CASE Outcome(s, c) \notin {"full", "intr"}
    <2>1. SendFromTo(s, c) = s
      BY <1>3 DEF SendFromTo
    <2> QED  BY <2>1
  <1> QED  BY <1>1, <1>2, <1>3

\* w has one datagram more than q, at the head
Headed(w, q) == \E e \in Elt : w = <<e>> \o q

\* sendto_schedule2() puts at most one datagram at the head of the queue.
LEMMA ScheduleTyped ==
    ASSUME NEW s \in Nets, NEW msg \in {"alive", "bye", "response", "address", "announce"},
           NEW delay \in Nat, NEW c, phase \in 0 .. Second - 1
    PROVE  /\ SendtoSchedule(s, msg, delay, c) \in Nets
           /\ \/ SendtoSchedule(s, msg, delay, c).queue = s.queue
              \/ Headed(SendtoSchedule(s, msg, delay, c).queue, s.queue)
  <1> DEFINE tried == SendFromTo(s, c)
             state == IF delay > 0 THEN "ESCHEDULED"
                      ELSE CASE Outcome(s, c) = "again" -> "EWAITREADY"
                             [] Outcome(s, c) = "intr"  -> "ESENDNOW"
                             [] OTHER -> "none"
             elt == [state |-> state, ts |-> TimeOf(delay), msg |-> msg]
             out == SendtoSchedule(s, msg, delay, c)
  <1>1. tried \in Nets /\ tried.queue = s.queue
    BY SendFromToTyped
  <1>2. state \in {"ESCHEDULED", "EWAITREADY", "ESENDNOW", "none"} /\ (state = "ESCHEDULED" <=> delay > 0)
    <2>1. CASE delay > 0
      BY <2>1
    <2>2. CASE ~(delay > 0) /\ Outcome(s, c) = "again"
      BY <2>2
    <2>3. CASE ~(delay > 0) /\ Outcome(s, c) = "intr"
      BY <2>3
    <2>4. CASE ~(delay > 0) /\ Outcome(s, c) \notin {"again", "intr"}
      BY <2>4
    <2> QED  BY <2>1, <2>2, <2>3, <2>4
  <1>3. out = IF delay > 0 THEN [s EXCEPT !.queue = <<elt>> \o @]
              ELSE IF state = "none" THEN tried
              ELSE [tried EXCEPT !.queue = <<elt>> \o @]
    BY DEF SendtoSchedule
  <1> HIDE DEF tried, state, out
  <1>4. ASSUME state # "none" PROVE elt \in Elt
    <2>1. TimeOf(delay) \in Time /\ ~Before(Clock, TimeOf(0))
      BY TimeOfTyped
    <2>2. elt \in Datagram /\ elt.state = state /\ elt.ts = TimeOf(delay)
      BY <1>2, <1>4, <2>1 DEF Datagram
    <2>3. state # "ESCHEDULED" => delay = 0
      BY <1>2
    <2> QED  BY <2>1, <2>2, <2>3 DEF Elt
  <1>5. s.queue \in Seq(Elt)
    BY DEF Nets
  <1> HIDE DEF elt
  <1>6. elt \in Elt => <<elt>> \o s.queue \in Seq(Elt)
    BY <1>5
  <1>7. CASE delay > 0
    <2>1. out = [s EXCEPT !.queue = <<elt>> \o s.queue] /\ elt \in Elt
      BY <1>2, <1>3, <1>4, <1>7
    <2>2. out \in Nets /\ out.queue = <<elt>> \o s.queue
      BY <1>6, <2>1 DEF Nets
    <2> QED  BY <2>1, <2>2 DEF out, Headed
  <1>8. CASE ~(delay > 0) /\ state = "none"
    <2>1. out = tried
      BY <1>3, <1>8
    <2> QED  BY <1>1, <2>1 DEF out
  <1>9. CASE ~(delay > 0) /\ state # "none"
    <2>1. out = [tried EXCEPT !.queue = <<elt>> \o s.queue] /\ elt \in Elt
      BY <1>1, <1>3, <1>4, <1>9
    <2>2. out \in Nets /\ out.queue = <<elt>> \o s.queue
      BY <1>1, <1>6, <2>1 DEF Nets
    <2> QED  BY <2>1, <2>2 DEF out, Headed
  <1> QED  BY <1>7, <1>8, <1>9

\* try_sendto() keeps a datagram that is scheduled as it is, at the end of the
\* new list; another one it sends, drops or keeps for later.
LEMMA SendEltTyped ==
    ASSUME NEW s \in Nets, NEW e \in Elt, NEW c
    PROVE  /\ SendElt(s, e, c) \in Nets
           /\ e.state = "ESCHEDULED" => SendElt(s, e, c).queue = Append(s.queue, e)
           /\ \/ SendElt(s, e, c).queue = s.queue
              \/ \E x \in Elt : SendElt(s, e, c).queue = Append(s.queue, x)
  <1> DEFINE tried == SendFromTo(s, c)
  <1>1. tried \in Nets /\ tried.queue = s.queue
    BY SendFromToTyped
  <1>2. s.queue \in Seq(Elt)
    BY DEF Nets
  <1>3. ASSUME NEW r \in Nets, r.queue = s.queue, NEW x \in Elt
        PROVE  /\ [r EXCEPT !.queue = Append(@, x)] \in Nets
               /\ [r EXCEPT !.queue = Append(@, x)].queue = Append(s.queue, x)
    <2>1. Append(s.queue, x) \in Seq(Elt)
      BY <1>2
    <2> QED  BY <1>3, <2>1 DEF Nets
  <1>4. CASE e.state = "ESCHEDULED" \/ (e.state = "EWAITREADY" /\ s.blocked)
    <2>1. SendElt(s, e, c) = [s EXCEPT !.queue = Append(@, e)]
      BY <1>4 DEF SendElt
    <2> QED  BY <1>3, <2>1
  <1>5. CASE ~(e.state = "ESCHEDULED" \/ (e.state = "EWAITREADY" /\ s.blocked))
    <2>1. ASSUME NEW st \in {"ESENDNOW", "EWAITREADY"}
          PROVE  [e EXCEPT !.state = st] \in Elt
      <3>1. e \in Datagram /\ ~Before(Clock, e.ts)
        BY <1>5 DEF Elt
      <3>2. [e EXCEPT !.state = st] \in Datagram /\ [e EXCEPT !.state = st].ts = e.ts
        BY <3>1 DEF Datagram
      <3> QED  BY <3>1, <3>2 DEF Elt
    <2>2. \/ SendElt(s, e, c) = Kept(tried, e, "ESENDNOW")
          \/ SendElt(s, e, c) = Kept(tried, e, "EWAITREADY")
          \/ SendElt(s, e, c) = tried
      BY <1>5 DEF SendElt
    <2> HIDE DEF tried
    <2>3. CASE \E st \in {"ESENDNOW", "EWAITREADY"} : SendElt(s, e, c) = Kept(tried, e, st)
      <3>1. PICK st \in {"ESENDNOW", "EWAITREADY"} : SendElt(s, e, c) = Kept(tried, e, st)
        BY <2>3
      <3>2. SendElt(s, e, c) = [tried EXCEPT !.queue = Append(@, [e EXCEPT !.state = st])]
        BY <3>1 DEF Kept
      <3> QED  BY <1>1, <1>3, <1>5, <2>1, <3>2
    <2>4. CASE SendElt(s, e, c) = tried
      BY <1>1, <1>5, <2>4
    <2> QED  BY <2>2, <2>3, <2>4
  <1> QED  BY <1>4, <1>5

\* The same of try_sendto() as the loop calls it
LEMMA TrySendEltTyped ==
    ASSUME NEW s \in Nets, NEW e \in Elt, NEW c
    PROVE  /\ TrySendElt(s, e, c) \in Nets
           /\ e.state = "ESCHEDULED" => TrySendElt(s, e, c).queue = Append(s.queue, e)
           /\ \/ TrySendElt(s, e, c).queue = s.queue
              \/ \E x \in Elt : TrySendElt(s, e, c).queue = Append(s.queue, x)
  <1>1. {SendElt(x, e, c) : x \in {s}} = {SendElt(s, e, c)}
    OBVIOUS
  <1>2. TrySendElt(s, e, c) = SendElt(s, e, c)
    BY <1>1 DEF TrySendElt, On
  <1>3. /\ SendElt(s, e, c) \in Nets
        /\ e.state = "ESCHEDULED" => SendElt(s, e, c).queue = Append(s.queue, e)
        /\ \/ SendElt(s, e, c).queue = s.queue
           \/ \E x \in Elt : SendElt(s, e, c).queue = Append(s.queue, x)
    BY SendEltTyped
  <1> QED  BY <1>2, <1>3, Zenon

\* The number of messages for all services
LEMMA MessagesTyped == Messages \in Nat /\ Len(Services) \in Nat
  <1>1. Services \in Seq([dev : BOOLEAN])
    BY MainLoopAssumption
  <1>2. Len(Services) \in Nat
    BY <1>1
  <1>3. IsFiniteSet(1 .. Len(Services))
    BY <1>2, FS_Interval
  <1>4. IsFiniteSet({i \in 1 .. Len(Services) : Services[i].dev})
    BY <1>3, FS_Subset
  <1>5. Cardinality({i \in 1 .. Len(Services) : Services[i].dev}) \in Nat
    BY <1>4, FS_CardinalityType
  <1> QED  BY <1>2, <1>5 DEF Messages

\* SendSSDPNotifies(): a message for each service, now and again later
LEMMA NotifiesTyped ==
    ASSUME NEW s \in Nets, NEW c, phase \in 0 .. Second - 1
    PROVE  SendSSDPNotifies(s, c) \in Nets
  <1> DEFINE n == Messages
             Op(r, i) == SendSSDPNotify(r, Fate(c, i))
             Fits(f) == f = [i \in 0 .. n |-> IF i = 0 THEN s ELSE Op(f[i - 1], i)]
             after == CHOOSE f : Fits(f)
             g == [i \in 1 .. n |-> [r \in Nets |-> Op(r, i)]]
  <1>1. n \in Nat
    BY MessagesTyped
  <1>2. \A r \in Nets, i \in 1 .. n : Op(r, i) \in Nets
    <2> TAKE r \in Nets, i \in 1 .. n
    <2>1. SendtoSchedule(r, "alive", 0, Fate(c, i)) \in Nets
      BY ScheduleTyped
    <2> QED  BY <2>1, ScheduleTyped, Sizes DEF SendSSDPNotify
  <1>3. SendSSDPNotifies(s, c) = after[n]
    BY DEF SendSSDPNotifies, Steps
  <1>4. s \in Nets
    OBVIOUS
  <1> HIDE DEF n, Op
  <1>5. g \in [1 .. n -> [Nets -> Nets]]
    BY <1>2
  <1>6. PICK f \in [0 .. n -> Nets] : Applies(f, s, n, g)
    <2> HIDE DEF g
    <2> QED  BY <1>1, <1>4, <1>5, StepsExist
  <1>7. Fits(f)
    <2>1. ASSUME NEW i \in 0 .. n PROVE f[i] = IF i = 0 THEN s ELSE Op(f[i - 1], i)
      <3>1. CASE i = 0
        BY <1>6, <3>1 DEF Applies
      <3>2. CASE i # 0
        <4>1. i \in 1 .. n /\ i - 1 \in 0 .. n
          BY <1>1, <3>2
        <4> QED  BY <1>6, <3>2, <4>1 DEF Applies
      <3> QED  BY <3>1, <3>2
    <2> QED  BY <1>6, <2>1 DEF Applies
  <1>8. Fits(after)
    BY <1>7
  <1> HIDE DEF after
  <1>9. after[0] \in Nets
    BY <1>1, <1>4, <1>8
  <1>10. \A i \in 1 .. n : after[i - 1] \in Nets => after[i] \in Nets
    <2>1. ASSUME NEW i \in 1 .. n PROVE after[i] = Op(after[i - 1], i)
      BY <1>1, <1>8
    <2> QED  BY <1>2, <2>1
  <1>11. \A i \in 0 .. n : after[i] \in Nets
    <2> HIDE DEF Fits
    <2> QED  BY <1>1, <1>9, <1>10, KeptBySteps
  <1> QED  BY <1>1, <1>3, <1>11

\* SendSSDPGoodbye(): a message for each service
LEMMA GoodbyeTyped ==
    ASSUME NEW s \in Nets, NEW c, phase \in 0 .. Second - 1
    PROVE  SendSSDPGoodbye(s, c) \in Nets
  <1> DEFINE n == Messages
             Op(r, i) == SendtoSchedule(r, "bye", 0, Fate(c, i))
             Fits(f) == f = [i \in 0 .. n |-> IF i = 0 THEN s ELSE Op(f[i - 1], i)]
             after == CHOOSE f : Fits(f)
             g == [i \in 1 .. n |-> [r \in Nets |-> Op(r, i)]]
  <1>1. n \in Nat
    BY MessagesTyped
  <1>2. \A r \in Nets, i \in 1 .. n : Op(r, i) \in Nets
    BY ScheduleTyped
  <1>3. SendSSDPGoodbye(s, c) = after[n]
    BY DEF SendSSDPGoodbye, Steps
  <1>4. s \in Nets
    OBVIOUS
  <1> HIDE DEF n, Op
  <1>5. g \in [1 .. n -> [Nets -> Nets]]
    BY <1>2
  <1>6. PICK f \in [0 .. n -> Nets] : Applies(f, s, n, g)
    <2> HIDE DEF g
    <2> QED  BY <1>1, <1>4, <1>5, StepsExist
  <1>7. Fits(f)
    <2>1. ASSUME NEW i \in 0 .. n PROVE f[i] = IF i = 0 THEN s ELSE Op(f[i - 1], i)
      <3>1. CASE i = 0
        BY <1>6, <3>1 DEF Applies
      <3>2. CASE i # 0
        <4>1. i \in 1 .. n /\ i - 1 \in 0 .. n
          BY <1>1, <3>2
        <4> QED  BY <1>6, <3>2, <4>1 DEF Applies
      <3> QED  BY <3>1, <3>2
    <2> QED  BY <1>6, <2>1 DEF Applies
  <1>8. Fits(after)
    BY <1>7
  <1> HIDE DEF after
  <1>9. after[0] \in Nets
    BY <1>1, <1>4, <1>8
  <1>10. \A i \in 1 .. n : after[i - 1] \in Nets => after[i] \in Nets
    <2>1. ASSUME NEW i \in 1 .. n PROVE after[i] = Op(after[i - 1], i)
      BY <1>1, <1>8
    <2> QED  BY <1>2, <2>1
  <1>11. \A i \in 0 .. n : after[i] \in Nets
    <2> HIDE DEF Fits
    <2> QED  BY <1>1, <1>9, <1>10, KeptBySteps
  <1> QED  BY <1>1, <1>3, <1>11

\* ProcessSSDPData(): what each response to a search keeps, all of them keep
LEMMA ResponsesKeep ==
    ASSUME NEW T, NEW s \in T, NEW p, Search(p),
           \A r \in T : SendSSDPResponse(r) \in T
    PROVE  ProcessSSDPData(s, p) \in T
  <1> DEFINE n == SearchResponses(p.st)
             Op(r, i) == SendSSDPResponse(r)
             Fits(f) == f = [i \in 0 .. n |-> IF i = 0 THEN s ELSE Op(f[i - 1], i)]
             after == CHOOSE f : Fits(f)
             g == [i \in 1 .. n |-> [r \in T |-> Op(r, i)]]
  <1>1. n \in Nat
    BY MessagesTyped DEF SearchResponses
  <1>2. \A r \in T, i \in 1 .. n : Op(r, i) \in T
    OBVIOUS
  <1>3. ProcessSSDPData(s, p) = after[n]
    BY DEF ProcessSSDPData, Steps
  <1>4. s \in T
    OBVIOUS
  <1> HIDE DEF n, Op
  <1>5. g \in [1 .. n -> [T -> T]]
    BY <1>2
  <1>6. PICK f \in [0 .. n -> T] : Applies(f, s, n, g)
    <2> HIDE DEF g
    <2> QED  BY <1>1, <1>4, <1>5, StepsExist
  <1>7. Fits(f)
    <2>1. ASSUME NEW i \in 0 .. n PROVE f[i] = IF i = 0 THEN s ELSE Op(f[i - 1], i)
      <3>1. CASE i = 0
        BY <1>6, <3>1 DEF Applies
      <3>2. CASE i # 0
        <4>1. i \in 1 .. n /\ i - 1 \in 0 .. n
          BY <1>1, <3>2
        <4> QED  BY <1>6, <3>2, <4>1 DEF Applies
      <3> QED  BY <3>1, <3>2
    <2> QED  BY <1>6, <2>1 DEF Applies
  <1>8. Fits(after)
    BY <1>7
  <1> HIDE DEF after
  <1>9. after[0] \in T
    BY <1>1, <1>4, <1>8
  <1>10. \A i \in 1 .. n : after[i - 1] \in T => after[i] \in T
    <2>1. ASSUME NEW i \in 1 .. n PROVE after[i] = Op(after[i - 1], i)
      BY <1>1, <1>8
    <2> QED  BY <1>2, <2>1
  <1>11. \A i \in 0 .. n : after[i] \in T
    <2> HIDE DEF Fits
    <2> QED  BY <1>1, <1>9, <1>10, KeptBySteps
  <1> QED  BY <1>1, <1>3, <1>11

\* The responses to a search go to the queue.
LEMMA ResponsesTyped ==
    ASSUME NEW s \in Nets, NEW p, Search(p), phase \in 0 .. Second - 1
    PROVE  ProcessSSDPData(s, p) \in Nets
  <1>1. \A r \in Nets : SendSSDPResponse(r) \in Nets
    BY ScheduleTyped, Sizes DEF SendSSDPResponse
  <1> QED  BY <1>1, ResponsesKeep

\* try_sendto(): the datagrams of the queue, one by one, into a new list
LEMMA TrySendtoRuns ==
    ASSUME NEW s \in Nets, NEW c, phase \in 0 .. Second - 1
    PROVE  \E f \in [0 .. Len(s.queue) -> Nets] :
              /\ f[0].queue = <<>>
              /\ \A i \in 1 .. Len(s.queue) : f[i] = TrySendElt(f[i - 1], s.queue[i], Fate(c, i))
              /\ TrySendto(s, c) = f[Len(s.queue)]
  <1> DEFINE n == Len(s.queue)
             none == [s EXCEPT !.queue = <<>>]
             Op(r, i) == TrySendElt(r, s.queue[i], Fate(c, i))
             Fits(f) == f = [i \in 0 .. n |-> IF i = 0 THEN none ELSE Op(f[i - 1], i)]
             after == CHOOSE f : Fits(f)
             g == [i \in 1 .. n |-> [r \in Nets |-> Op(r, i)]]
  <1>1. n \in Nat
    <2>1. s.queue \in Seq(Elt)
      BY DEF Nets
    <2> QED  BY <2>1
  <1>2. \A r \in Nets, i \in 1 .. n : Op(r, i) \in Nets
    <2>1. s.queue \in Seq(Elt)
      BY DEF Nets
    <2>2. \A i \in 1 .. n : s.queue[i] \in Elt
      BY <2>1
    <2> QED  BY <2>2, TrySendEltTyped
  <1>3. TrySendto(s, c) = after[n]
    BY DEF TrySendto, Steps
  <1>4. none \in Nets /\ none.queue = <<>>
    <2>1. <<>> \in Seq(Elt)
      OBVIOUS
    <2> QED  BY <2>1 DEF Nets
  <1> HIDE DEF n, Op, none
  <1>5. g \in [1 .. n -> [Nets -> Nets]]
    BY <1>2
  <1>6. PICK f \in [0 .. n -> Nets] : Applies(f, none, n, g)
    <2> HIDE DEF g
    <2> QED  BY <1>1, <1>4, <1>5, StepsExist
  <1>7. Fits(f)
    <2>1. ASSUME NEW i \in 0 .. n PROVE f[i] = IF i = 0 THEN none ELSE Op(f[i - 1], i)
      <3>1. CASE i = 0
        BY <1>6, <3>1 DEF Applies
      <3>2. CASE i # 0
        <4>1. i \in 1 .. n /\ i - 1 \in 0 .. n
          BY <1>1, <3>2
        <4> QED  BY <1>6, <3>2, <4>1 DEF Applies
      <3> QED  BY <3>1, <3>2
    <2> QED  BY <1>6, <2>1 DEF Applies
  <1>8. Fits(after)
    BY <1>7
  <1> HIDE DEF after
  <1>9. after[0] \in Nets
    BY <1>1, <1>4, <1>8
  <1>10. \A i \in 1 .. n : after[i - 1] \in Nets => after[i] \in Nets
    <2>1. ASSUME NEW i \in 1 .. n PROVE after[i] = Op(after[i - 1], i)
      BY <1>1, <1>8
    <2> QED  BY <1>2, <2>1
  <1>11. \A i \in 0 .. n : after[i] \in Nets
    <2> HIDE DEF Fits
    <2> QED  BY <1>1, <1>9, <1>10, KeptBySteps
  <1>12. after \in [0 .. n -> Nets]
    BY <1>8, <1>11
  <1>13. after[0].queue = <<>> /\ \A i \in 1 .. n : after[i] = Op(after[i - 1], i)
    BY <1>1, <1>4, <1>8
  <1> QED  BY <1>3, <1>12, <1>13 DEF n, Op

\* The network stays one.
LEMMA TrySendtoTyped ==
    ASSUME NEW s \in Nets, NEW c, phase \in 0 .. Second - 1
    PROVE  TrySendto(s, c) \in Nets
  <1>1. Len(s.queue) \in Nat
    <2>1. s.queue \in Seq(Elt)
      BY DEF Nets
    <2> QED  BY <2>1
  <1> QED  BY <1>1, TrySendtoRuns

-------------------------------------------------------------------------------
(***************************************************************************)
(* The steps of the loop.                                                  *)
(***************************************************************************)

\* What a step leaves in the network is typed while no time passes.
LEMMA PutTyped ==
    ASSUME NEW s \in Nets, Put(s), phase' = phase
    PROVE  Net' \in Nets' /\ Nets' = Nets /\ Elt' = Elt
  <1>1. Elt' = Elt
    BY DEF Elt, Before, Clock
  <1>2. Nets' = Nets
    BY <1>1 DEF Nets
  <1>3. s = [queue |-> s.queue, blocked |-> s.blocked, intr |-> s.intr]
    BY DEF Nets
  <1>4. Net' = s
    BY <1>3 DEF Put, Net
  <1> QED  BY <1>1, <1>2, <1>4

\* get_sendto_fds() marks what is due and leaves the rest: what stays scheduled
\* is after the clock.
LEMMA MarkedTyped ==
    ASSUME NEW q \in Seq(Elt)
    PROVE  /\ Marked(q) \in Seq(Elt) /\ Len(Marked(q)) = Len(q)
           /\ \A i \in 1 .. Len(q) : Marked(q)[i].state = "ESCHEDULED" =>
                 Marked(q)[i] = q[i] /\ Before(Clock, q[i].ts)
  <1> DEFINE mark(e) == IF e.state # "EWAITREADY" /\ Due(e) THEN [e EXCEPT !.state = "ESENDNOW"] ELSE e
  <1>1. ASSUME NEW e \in Elt
        PROVE  /\ mark(e) \in Elt
               /\ mark(e).state = "ESCHEDULED" => mark(e) = e /\ Before(Clock, e.ts)
    <2>1. e \in Datagram
      BY DEF Elt
    <2>2. CASE e.state # "EWAITREADY" /\ Due(e)
      <3>1. mark(e) = [e EXCEPT !.state = "ESENDNOW"] /\ ~Before(Clock, e.ts)
        BY <2>2 DEF Due
      <3>2. /\ [e EXCEPT !.state = "ESENDNOW"] \in Datagram
            /\ [e EXCEPT !.state = "ESENDNOW"].ts = e.ts
            /\ [e EXCEPT !.state = "ESENDNOW"].state = "ESENDNOW"
        BY <2>1 DEF Datagram
      <3> QED  BY <3>1, <3>2 DEF Elt
    <2>3. CASE ~(e.state # "EWAITREADY" /\ Due(e))
      <3>1. mark(e) = e
        BY <2>3
      <3>2. e.state = "ESCHEDULED" => Before(Clock, e.ts)
        BY <2>3 DEF Due
      <3> QED  BY <3>1, <3>2
    <2> QED  BY <2>2, <2>3
  <1>2. Marked(q) = [i \in 1 .. Len(q) |-> mark(q[i])]
    BY DEF Marked
  <1>3. \A i \in 1 .. Len(q) : q[i] \in Elt
    OBVIOUS
  <1> HIDE DEF mark
  <1>4. \A i \in 1 .. Len(q) : mark(q[i]) \in Elt
    BY <1>1, <1>3
  <1>5. Len(q) \in Nat
    OBVIOUS
  <1>6. Marked(q) \in Seq(Elt) /\ Len(Marked(q)) = Len(q)
    BY <1>2, <1>4, <1>5
  <1> QED  BY <1>1, <1>2, <1>3, <1>6

\* The time until the next NOTIFY, or until a mapping ends, is a time.
LEMMA SleepTyped ==
    ASSUME LTyped, NEW next \in Nat,
           NEW base, base = IF -last.sec >= Interval THEN [sec |-> Interval, usec |-> 0] ELSE UntilNotify
    PROVE  UntilClean(base, next).sec \in Nat /\ UntilClean(base, next).usec \in 0 .. Second
  <1>1. /\ Second \in Nat /\ Second >= 1 /\ Interval \in Nat /\ phase \in 0 .. Second - 1
        /\ last.sec \in Int /\ last.usec \in 0 .. Second - 1
    BY Sizes DEF LTyped
  <1>2. base.sec \in Nat /\ base.usec \in 0 .. Second
    <2>1. CASE -last.sec >= Interval
      BY <1>1, <2>1
    <2>2. CASE ~(-last.sec >= Interval) /\ phase > last.usec
      <3>1. base = [sec |-> last.sec + Interval - 1, usec |-> Second + last.usec - phase]
        BY <2>2 DEF UntilNotify
      <3>2. last.sec + Interval - 1 \in Nat /\ Second + last.usec - phase \in 0 .. Second
        BY <1>1, <2>2
      <3> QED  BY <3>1, <3>2
    <2>3. CASE ~(-last.sec >= Interval) /\ ~(phase > last.usec)
      <3>1. base = [sec |-> last.sec + Interval, usec |-> last.usec - phase]
        BY <2>3 DEF UntilNotify
      <3>2. last.sec + Interval \in Nat /\ last.usec - phase \in 0 .. Second
        BY <1>1, <2>3
      <3> QED  BY <3>1, <3>2
    <2> QED  BY <2>1, <2>2, <2>3
  <1>3. 0 \in 0 .. Second
    BY <1>1
  <1> QED  BY <1>2, <1>3 DEF UntilClean

\* From gettimeofday() to select(): the sleep fits what is left in the queue.
LEMMA TimersInTime == LInv /\ Timers => LInv'
  <1> SUFFICES ASSUME LInv, Timers PROVE LInv'
    OBVIOUS
  <1> DEFINE due == -last.sec >= Interval
             next == IF clean <= 0 THEN Never ELSE clean
             base == IF due THEN [sec |-> Interval, usec |-> 0] ELSE UntilNotify
             t == UntilClean(base, next)
  <1>1. LTyped
    BY DEF LInv
  <1>0. PICK c : \E s \in {IF due THEN SendSSDPNotifies(Net, c) ELSE Net} :
                    /\ last' = LastNotify(due)
                    /\ clean' = next
                    /\ left' = Ticks(UntilSend(t, s.queue))
                    /\ Put([s EXCEPT !.queue = Marked(@)])
    BY DEF Timers
  <1>2. PICK s : /\ s = IF due THEN SendSSDPNotifies(Net, c) ELSE Net
                 /\ last' = LastNotify(due)
                 /\ clean' = next
                 /\ left' = Ticks(UntilSend(t, s.queue))
                 /\ Put([s EXCEPT !.queue = Marked(@)])
    BY <1>0
  <1> DEFINE q == s.queue
  <1>3. /\ last' = LastNotify(due) /\ clean' = next /\ left' = Ticks(UntilSend(t, q))
        /\ Put([s EXCEPT !.queue = Marked(q)]) /\ phase' = phase
    BY <1>2 DEF Timers
  <1>4. phase \in 0 .. Second - 1 /\ Net \in Nets /\ clean \in Int
    BY <1>1 DEF LTyped
  <1>5. s \in Nets
    BY <1>2, <1>4, NotifiesTyped
  <1>6. q \in Seq(Elt)
    BY <1>5 DEF Nets
  <1>7. next \in Nat
    BY <1>4, Sizes
  <1>8. t.sec \in Nat /\ t.usec \in 0 .. Second
    BY <1>1, <1>7, SleepTyped
  <1> HIDE DEF due, next, base, t, q
  <1>9. /\ Ticks(UntilSend(t, q)) \in Nat
        /\ \A i \in 1 .. Len(q) :
              Before(Clock, q[i].ts) => Ticks(UntilSend(t, q)) <= Ticks(q[i].ts) - phase
    BY <1>4, <1>6, <1>8, SleepForQueue
  <1>10. /\ Marked(q) \in Seq(Elt) /\ Len(Marked(q)) = Len(q)
         /\ \A i \in 1 .. Len(q) : Marked(q)[i].state = "ESCHEDULED" =>
               Marked(q)[i] = q[i] /\ Before(Clock, q[i].ts)
    BY <1>6, MarkedTyped
  <1>11. [s EXCEPT !.queue = Marked(q)] \in Nets /\ [s EXCEPT !.queue = Marked(q)].queue = Marked(q)
    BY <1>5, <1>10 DEF Nets
  <1>12. Net' \in Nets'
    BY <1>3, <1>11, PutTyped
  <1>13. queue' = Marked(q)
    BY <1>3, <1>11 DEF Put
  <1>14. LastNotify(due) \in [sec : Int, usec : 0 .. Second - 1]
    BY <1>1, <1>4 DEF LTyped, LastNotify, Clock
  <1>15. LTyped'
    BY <1>3, <1>4, <1>7, <1>9, <1>12, <1>14 DEF LTyped
  <1>3a. ASSUME NEW i \in 1 .. Len(queue'), queue'[i].state = "ESCHEDULED"
         PROVE  left' <= Ticks(queue'[i].ts) - phase'
    <2>1. i \in 1 .. Len(q) /\ queue'[i] = q[i] /\ Before(Clock, q[i].ts)
      BY <1>10, <1>13, <1>3a
    <2> QED  BY <1>3, <1>9, <2>1
  <1>17. WakesInTime'
    BY <1>3a DEF WakesInTime, Ticks
  <1> QED  BY <1>15, <1>17 DEF LInv

\* A tick passes: everything is a tick nearer, and the sleep is a tick shorter.
LEMMA TickInTime == LInv /\ PassTick => LInv'
  <1> SUFFICES ASSUME LInv, PassTick PROVE LInv'
    OBVIOUS
  <1>1. /\ phase \in 0 .. Second - 1 /\ left \in Nat /\ clean \in Int /\ Net \in Nets
        /\ last \in [sec : Int, usec : 0 .. Second - 1] /\ Second \in Nat /\ Second >= 1
    BY Sizes DEF LInv, LTyped
  <1>2. queue \in Seq(Elt) /\ blocked \in BOOLEAN /\ intr \in Int
    BY <1>1 DEF Nets, Net
  <1>3. /\ pc = "sleep" /\ left > 0 /\ left' = left - 1 /\ phase' = (phase + 1) % Second
        /\ last' = Shift(last)
        /\ clean' = (IF phase + 1 = Second /\ clean # Never THEN clean - 1 ELSE clean)
        /\ UNCHANGED <<pc, blocked, intr>>
    BY DEF PassTick
  <1>4. phase' = IF phase + 1 = Second THEN 0 ELSE phase + 1
    <2>1. CASE phase + 1 = Second
      <3>1. Second % Second = 0
        BY <1>1
      <3> QED  BY <1>3, <2>1, <3>1
    <2>2. CASE phase + 1 # Second
      <3>1. phase + 1 \in 0 .. Second - 1
        BY <1>1, <2>2
      <3>2. (phase + 1) % Second = phase + 1
        BY <1>1, <3>1
      <3> QED  BY <1>3, <2>2, <3>2
    <2> QED  BY <2>1, <2>2
  <1> DEFINE nearer(e) == [e EXCEPT !.ts = IF @.sec < 0 THEN @ ELSE Shift(@)]
  <1>5. queue' = [i \in 1 .. Len(queue) |-> nearer(queue[i])]
    BY DEF PassTick
  <1>6. ASSUME NEW e \in Elt
        PROVE  /\ nearer(e) \in Elt'
               /\ nearer(e).state = e.state
               /\ left <= Ticks(e.ts) - phase => left' <= Ticks(nearer(e).ts) - phase'
    <2>1. e \in Datagram /\ e.ts \in Time
      BY DEF Elt, Datagram
    <2>2. e.ts.sec \in Int /\ e.ts.sec >= -1 /\ e.ts.usec \in 0 .. Second
      BY <2>1 DEF Time
    <2>3. e.ts.sec * Second \in Int /\ (e.ts.sec - 1) * Second = e.ts.sec * Second - Second
      BY <1>1, <2>2
    <2>4. CASE phase + 1 # Second \/ e.ts.sec < 0
      <3>1. nearer(e) = e
        <4>1. (IF e.ts.sec < 0 THEN e.ts ELSE Shift(e.ts)) = e.ts
          BY <2>4 DEF Shift
        <4> QED  BY <2>1, <4>1 DEF Datagram
      <3>2. ~Before(Clock, e.ts) => ~Before([sec |-> 0, usec |-> phase'], e.ts)
        BY <1>1, <1>4, <2>2, <2>4 DEF Before, Clock
      <3>3. e \in Elt'
        BY <2>1, <3>2 DEF Elt, Clock, Before
      <3>4. Ticks(e.ts) \in Int
        BY <1>1, <2>2, <2>3 DEF Ticks
      <3>5. left <= Ticks(e.ts) - phase => left' <= Ticks(e.ts) - phase'
        BY <1>1, <1>3, <1>4, <3>4
      <3> QED  BY <3>1, <3>3, <3>5
    <2>5. CASE phase + 1 = Second /\ e.ts.sec >= 0
      <3> DEFINE ts == [e.ts EXCEPT !.sec = @ - 1]
      <3>1. ~(e.ts.sec < 0) /\ ~(e.ts.sec < -Never)
        BY <2>2, <2>5, Sizes
      <3>2. Shift(e.ts) = ts
        BY <2>5, <3>1 DEF Shift
      <3>3. ts \in Time /\ ts.sec = e.ts.sec - 1 /\ ts.usec = e.ts.usec
        BY <2>1, <2>2, <2>5 DEF Time
      <3> HIDE DEF ts
      <3>4. nearer(e) = [e EXCEPT !.ts = ts]
        BY <3>1, <3>2
      <3>5. nearer(e) \in Datagram /\ nearer(e).ts = ts /\ nearer(e).state = e.state
        BY <2>1, <3>3, <3>4 DEF Datagram
      <3>6. ~Before(Clock, e.ts) => ~Before([sec |-> 0, usec |-> phase'], ts)
        BY <1>1, <1>4, <2>2, <2>5, <3>3 DEF Before, Clock
      <3> HIDE DEF nearer
      <3>7. nearer(e) \in Elt'
        BY <3>5, <3>6 DEF Elt, Clock, Before
      <3>8. Ticks(ts) = Ticks(e.ts) - Second /\ Ticks(e.ts) \in Int
        BY <1>1, <2>2, <2>3, <3>3 DEF Ticks
      <3>9. phase' = 0 /\ phase = Second - 1
        BY <1>1, <1>4, <2>5
      <3>10. left <= Ticks(e.ts) - phase => left' <= Ticks(ts) - phase'
        BY <1>1, <1>3, <3>8, <3>9
      <3> QED  BY <3>5, <3>7, <3>10
    <2> QED  BY <1>1, <2>2, <2>4, <2>5
  <1>7. Len(queue) \in Nat /\ \A i \in 1 .. Len(queue) : queue[i] \in Elt
    BY <1>2
  <1> HIDE DEF nearer
  <1>8. queue' \in Seq(Elt') /\ Len(queue') = Len(queue)
    BY <1>5, <1>6, <1>7
  <1>9. Net' \in Nets'
    BY <1>2, <1>3, <1>8 DEF Nets, Net
  <1>10. last' \in [sec : Int, usec : 0 .. Second - 1]
    BY <1>1, <1>3 DEF Shift
  <1>11. LTyped'
    BY <1>1, <1>3, <1>4, <1>9, <1>10 DEF LTyped
  <1>12. ASSUME NEW i \in 1 .. Len(queue'), queue'[i].state = "ESCHEDULED"
         PROVE  left' <= Ticks(queue'[i].ts) - phase'
    <2>1. i \in 1 .. Len(queue) /\ queue'[i] = nearer(queue[i]) /\ queue[i] \in Elt
      BY <1>5, <1>7, <1>8
    <2>2. queue[i].state = "ESCHEDULED"
      BY <1>6, <1>12, <2>1
    <2>3. left <= Ticks(queue[i].ts) - phase
      BY <1>3, <2>1, <2>2 DEF LInv, WakesInTime
    <2> QED  BY <1>6, <2>1, <2>3
  <1>13. WakesInTime'
    BY <1>12 DEF WakesInTime, Ticks
  <1> QED  BY <1>11, <1>13 DEF LInv

\* SendNATPMPPublicAddressChangeNotification() sends to one port or to two.
LEMMA AddressChangeTyped ==
    ASSUME NEW s \in Nets, NEW c, phase \in 0 .. Second - 1
    PROVE  SendAddressChange(s, c) \in Nets
  <1>1. SendtoSchedule(s, "address", 0, Fate(c, 1)) \in Nets
    BY ScheduleTyped
  <1>2. SendtoSchedule(SendtoSchedule(s, "address", 0, Fate(c, 1)), "address", 0, Fate(c, 2)) \in Nets
    BY <1>1, ScheduleTyped
  <1> QED  BY <1>1, <1>2 DEF SendAddressChange

\* PCPSendUnsolicitedAnnounce() sends on two sockets.
LEMMA AnnounceTyped ==
    ASSUME NEW s \in Nets, NEW c, phase \in 0 .. Second - 1
    PROVE  SendAnnounce(s, c) \in Nets
  <1>1. SendtoSchedule(s, "announce", 0, Fate(c, 1)) \in Nets
    BY ScheduleTyped
  <1>2. SendtoSchedule(SendtoSchedule(s, "announce", 0, Fate(c, 1)), "announce", 0, Fate(c, 2)) \in Nets
    BY <1>1, ScheduleTyped
  <1> QED  BY <1>2 DEF SendAnnounce

\* A step that sends, or does not, and after which the loop does not sleep
LEMMA AwakeInTime ==
    ASSUME LInv, NEW s \in Nets, Put(s), pc' # "sleep", UNCHANGED <<phase, left, last>>, clean' \in Int
    PROVE  LInv'
  <1>1. Net' \in Nets'
    BY PutTyped
  <1>2. LTyped'
    BY <1>1 DEF LInv, LTyped
  <1> QED  BY <1>2 DEF LInv, WakesInTime

\* A step that leaves the queue alone
LEMMA QuietInTime ==
    ASSUME LInv, UNCHANGED <<phase, left, last, clean, queue, intr>>, blocked' \in BOOLEAN,
           pc' = pc \/ pc' # "sleep"
    PROVE  LInv'
  <1>1. Net \in Nets /\ queue \in Seq(Elt) /\ intr \in Int
    BY DEF LInv, LTyped, Nets, Net
  <1>2. Elt' = Elt
    BY DEF Elt, Before, Clock
  <1>3. Nets' = Nets
    BY <1>2 DEF Nets
  <1>4. Net' \in Nets
    BY <1>1 DEF Nets, Net
  <1>5. LTyped'
    BY <1>3, <1>4 DEF LInv, LTyped
  <1>6. WakesInTime'
    BY DEF LInv, WakesInTime, Ticks
  <1> QED  BY <1>5, <1>6 DEF LInv

\* The daemon starts with an empty queue.
LEMMA InitLInv == LInit => LInv
  <1> SUFFICES ASSUME LInit PROVE LInv
    OBVIOUS
  <1>1. Second \in Nat /\ Second >= 1 /\ Interval \in Nat /\ Never \in Nat /\ MaxIntr \in Nat
    BY Sizes, MainLoopAssumption
  <1>2. Net = [queue |-> <<>>, blocked |-> FALSE, intr |-> intr] /\ intr \in 0 .. MaxIntr
    BY DEF LInit, Net
  <1>3. Net \in Nets
    BY <1>1, <1>2 DEF Nets
  <1>4. LTyped
    BY <1>1, <1>3 DEF LInit, LTyped
  <1> QED  BY <1>4 DEF LInit, LInv, WakesInTime

\* Every step of the loop and of what is around it keeps the invariant.
LEMMA NextLInv == LInv /\ [LNext]_lvars => LInv'
  <1> SUFFICES ASSUME LInv, [LNext]_lvars PROVE LInv'
    OBVIOUS
  <1>1. Net \in Nets /\ phase \in 0 .. Second - 1 /\ clean \in Int /\ blocked \in BOOLEAN
    BY DEF LInv, LTyped, Nets, Net
  <1>2. CASE Top
    BY <1>1, <1>2, QuietInTime DEF Top
  <1>3. CASE NotifyNatpmp
    <2>1. PICK c, noaddr : Put(IF noaddr THEN Net ELSE SendAddressChange(Net, c))
      BY <1>3 DEF NotifyNatpmp
    <2>2. (IF noaddr THEN Net ELSE SendAddressChange(Net, c)) \in Nets
      BY <1>1, AddressChangeTyped
    <2>3. pc' # "sleep" /\ UNCHANGED <<phase, left, last>> /\ clean' = clean
      BY <1>3 DEF NotifyNatpmp
    <2> QED  BY <1>1, <2>1, <2>2, <2>3, AwakeInTime
  <1>3a. CASE NotifyPcp
    <2>1. PICK c : Put(SendAnnounce(Net, c))
      BY <1>3a DEF NotifyPcp
    <2>2. SendAnnounce(Net, c) \in Nets
      BY <1>1, AnnounceTyped
    <2>3. pc' # "sleep" /\ UNCHANGED <<phase, left, last>> /\ clean' = clean
      BY <1>3a DEF NotifyPcp
    <2> QED  BY <1>1, <2>1, <2>2, <2>3, AwakeInTime
  <1>4. CASE LearnAddress \/ NotifyEvents \/ ClearFlag
    BY <1>1, <1>4, QuietInTime DEF LearnAddress, NotifyEvents, ClearFlag
  <1>5. CASE Timers
    BY <1>5, TimersInTime
  <1>6. CASE Wake
    BY <1>1, <1>6, QuietInTime DEF Wake
  <1>7. CASE Work
    <2>1. PICK c, p : Put(ProcessSSDPRequest(TrySendto(Net, c), p))
      BY <1>7 DEF Work
    <2>2. TrySendto(Net, c) \in Nets
      BY <1>1, TrySendtoTyped
    <2>3. ProcessSSDPRequest(TrySendto(Net, c), p) \in Nets
      <3>1. CASE p # NoPacket /\ Search(p)
        BY <1>1, <2>2, <3>1, ResponsesTyped DEF ProcessSSDPRequest
      <3>2. CASE ~(p # NoPacket /\ Search(p))
        BY <2>2, <3>2 DEF ProcessSSDPRequest, ProcessSSDPData
      <3> QED  BY <3>1, <3>2
    <2>4. pc' # "sleep" /\ UNCHANGED <<phase, left, last>>
      BY <1>7 DEF Work
    <2>5. clean' \in Int
      <3>1. clean' \in {clean} \cup {t \in 1 .. Interval : pc = "serve" /\ t < clean}
        BY <1>7 DEF Work
      <3> QED  BY <1>1, <3>1, Sizes
    <2> QED  BY <2>1, <2>3, <2>4, <2>5, AwakeInTime
  <1>8. CASE Shutdown
    <2>1. PICK c : Put(SendSSDPGoodbye(Net, c))
      BY <1>8 DEF Shutdown
    <2>2. SendSSDPGoodbye(Net, c) \in Nets
      BY <1>1, GoodbyeTyped
    <2>3. pc' # "sleep" /\ UNCHANGED <<phase, left, last>> /\ clean' = clean
      BY <1>8 DEF Shutdown
    <2> QED  BY <1>1, <2>1, <2>2, <2>3, AwakeInTime
  <1>9. CASE FinalizeSendto
    <2> DEFINE none == [queue |-> <<>>, blocked |-> blocked, intr |-> intr]
    <2>1. none \in Nets
      <3>1. intr \in Int /\ <<>> \in Seq(Elt)
        BY <1>1 DEF Nets, Net
      <3> QED  BY <1>1, <3>1 DEF Nets
    <2>2. Put(none)
      BY <1>9 DEF FinalizeSendto, Put
    <2> HIDE DEF none
    <2>4. pc' # "sleep" /\ UNCHANGED <<phase, left, last>> /\ clean' = clean
      BY <1>9 DEF FinalizeSendto
    <2> QED  BY <1>1, <2>1, <2>2, <2>4, AwakeInTime
  <1>10. CASE Request
    BY <1>1, <1>10, QuietInTime DEF Request
  <1>11. CASE SigTerm
    BY <1>1, <1>11, QuietInTime DEF SigTerm, Interrupt
  <1>12. CASE SigUsr1
    BY <1>1, <1>12, QuietInTime DEF SigUsr1, Interrupt
  <1>13. CASE Unblock
    BY <1>1, <1>13, QuietInTime DEF Unblock
  <1>14. CASE PassTick
    BY <1>14, TickInTime
  <1>15. CASE UNCHANGED lvars
    BY <1>1, <1>15, QuietInTime DEF lvars
  <1> QED  BY <1>2, <1>3, <1>4, <1>5, <1>6, <1>7, <1>8, <1>9, <1>10, <1>11, <1>12, <1>13, <1>14,
              <1>15, <1>3a DEF LNext, Loop

\* select() never gets a timeout that ends after the time of a datagram that is
\* scheduled in the queue of asyncsendto.c.
THEOREM AlwaysWakesInTime == LSpec => []WakesInTime
  <1>1. LInv => WakesInTime
    BY DEF LInv
  <1> QED  BY <1>1, InitLInv, NextLInv, PTL DEF LSpec

-------------------------------------------------------------------------------
(***************************************************************************)
(* No datagram leaves the queue before its time. How often a datagram d is  *)
(* among the first k of a queue, and how that changes.                      *)
(***************************************************************************)
Among(q, k, d) == {j \in 1 .. k : q[j] = d}

\* Copies counts a finite set of places.
LEMMA AmongFinite ==
    ASSUME NEW q, NEW k \in Nat, NEW d
    PROVE  IsFiniteSet(Among(q, k, d)) /\ Cardinality(Among(q, k, d)) \in Nat
  <1>1. IsFiniteSet(1 .. k)
    BY FS_Interval
  <1>2. IsFiniteSet(Among(q, k, d))
    BY <1>1, FS_Subset DEF Among
  <1> QED  BY <1>2, FS_CardinalityType

\* One more place counts at most once, and once if it holds d.
LEMMA AmongNext ==
    ASSUME NEW q, NEW k \in Nat, NEW d
    PROVE  Cardinality(Among(q, k + 1, d)) =
              IF q[k + 1] = d THEN Cardinality(Among(q, k, d)) + 1 ELSE Cardinality(Among(q, k, d))
  <1>0. k + 1 \notin Among(q, k, d)
    BY DEF Among
  <1>1. IsFiniteSet(Among(q, k, d)) /\ k + 1 \notin Among(q, k, d)
    BY <1>0, AmongFinite
  <1>2. CASE q[k + 1] = d
    <2>1. Among(q, k + 1, d) = Among(q, k, d) \cup {k + 1}
      BY <1>2 DEF Among
    <2> QED  BY <1>1, <1>2, <2>1, FS_AddElement
  <1>3. CASE q[k + 1] # d
    <2>1. Among(q, k + 1, d) = Among(q, k, d)
      BY <1>3 DEF Among
    <2> QED  BY <1>3, <2>1
  <1> QED  BY <1>2, <1>3

\* A datagram at the end of the list is one more copy of itself.
LEMMA CopiesAppend ==
    ASSUME NEW q \in Seq(Elt), NEW x \in Elt, NEW d
    PROVE  Copies(Append(q, x), d) = IF x = d THEN Copies(q, d) + 1 ELSE Copies(q, d)
  <1> DEFINE w == Append(q, x)
  <1>1. PICK k \in Nat : k = Len(q)
    OBVIOUS
  <1>2. Len(w) = k + 1 /\ w[k + 1] = x /\ \A j \in 1 .. k : w[j] = q[j]
    BY <1>1
  <1> HIDE DEF w
  <1>3. Among(w, k, d) = Among(q, k, d)
    BY <1>2 DEF Among
  <1>4. Copies(w, d) = Cardinality(Among(w, k + 1, d)) /\ Copies(q, d) = Cardinality(Among(q, k, d))
    BY <1>1, <1>2 DEF Copies, Among
  <1>5. Cardinality(Among(w, k + 1, d)) =
           IF w[k + 1] = d THEN Cardinality(Among(w, k, d)) + 1 ELSE Cardinality(Among(w, k, d))
    BY AmongNext
  <1> QED  BY <1>2, <1>3, <1>4, <1>5 DEF w

\* A datagram at the head of the list takes no other one away.
LEMMA CopiesPrepend ==
    ASSUME NEW q \in Seq(Elt), NEW x \in Elt, NEW d
    PROVE  Copies(<<x>> \o q, d) >= Copies(q, d) /\ Copies(q, d) \in Nat /\ Copies(<<x>> \o q, d) \in Nat
  <1> DEFINE w == <<x>> \o q
  <1>1. PICK k \in Nat : k = Len(q)
    OBVIOUS
  <1>2. Len(w) = k + 1 /\ \A j \in 1 .. k : w[j + 1] = q[j]
    BY <1>1
  <1> HIDE DEF w
  <1>3. Copies(w, d) = Cardinality(Among(w, k + 1, d)) /\ Copies(q, d) = Cardinality(Among(q, k, d))
    BY <1>1, <1>2 DEF Copies, Among
  <1> DEFINE shift == [j \in Among(q, k, d) |-> j + 1]
  <1>4. shift \in Injection(Among(q, k, d), Among(w, k + 1, d))
    <2>1. \A j \in Among(q, k, d) : j \in 1 .. k /\ j + 1 \in 1 .. k + 1 /\ w[j + 1] = d
      BY <1>2 DEF Among
    <2>2. shift \in [Among(q, k, d) -> Among(w, k + 1, d)]
      BY <2>1 DEF Among
    <2>3. \A a, b \in Among(q, k, d) : a + 1 = b + 1 => a = b
      BY <2>1
    <2> QED  BY <2>2, <2>3 DEF Injection, IsInjective
  <1>5. IsFiniteSet(Among(w, k + 1, d)) /\ Cardinality(Among(w, k + 1, d)) \in Nat
    BY AmongFinite
  <1>6. Cardinality(Among(q, k, d)) \in Nat
    BY AmongFinite
  <1> HIDE DEF shift
  <1>7. Cardinality(Among(q, k, d)) <= Cardinality(Among(w, k + 1, d))
    BY <1>4, <1>5, FS_Injection
  <1> QED  BY <1>3, <1>5, <1>6, <1>7 DEF w

\* A response goes to the head of the queue.
LEMMA ResponseTyped ==
    ASSUME NEW r \in Nets, phase \in 0 .. Second - 1
    PROVE  /\ SendSSDPResponse(r) \in Nets
           /\ \/ SendSSDPResponse(r).queue = r.queue
              \/ Headed(SendSSDPResponse(r).queue, r.queue)
  <1>1. MSearchDelay \in Nat /\ "response" \in {"alive", "bye", "response", "address", "announce"}
    BY Sizes
  <1> DEFINE out == SendtoSchedule(r, "response", MSearchDelay, "ok")
  <1>2. out \in Nets
    BY <1>1, ScheduleTyped
  <1>3. out.queue = r.queue \/ Headed(out.queue, r.queue)
    BY <1>1, ScheduleTyped
  <1>4. SendSSDPResponse(r) = out
    BY DEF SendSSDPResponse
  <1> HIDE DEF out
  <1> QED  BY <1>2, <1>3, <1>4

\* The responses to a search take nothing from the queue.
LEMMA SearchKeeps ==
    ASSUME NEW s \in Nets, NEW p, NEW d, phase \in 0 .. Second - 1
    PROVE  Copies(ProcessSSDPRequest(s, p).queue, d) >= Copies(s.queue, d)
  <1>1. ASSUME NEW r \in Nets PROVE r.queue \in Seq(Elt) /\ Copies(r.queue, d) \in Nat
    <2>1. r.queue \in Seq(Elt)
      BY DEF Nets
    <2>2. Len(r.queue) \in Nat /\ Copies(r.queue, d) = Cardinality(Among(r.queue, Len(r.queue), d))
      BY <2>1 DEF Copies, Among
    <2> QED  BY <2>1, <2>2, AmongFinite
  <1> DEFINE k == Copies(s.queue, d)
             T == {r \in Nets : Copies(r.queue, d) >= k}
  <1>2. k \in Nat
    BY <1>1
  <1> HIDE DEF k
  <1>3. ASSUME NEW r \in T PROVE SendSSDPResponse(r) \in T
    <2>1. r \in Nets /\ Copies(r.queue, d) >= k
      BY <1>3
    <2>2. /\ SendSSDPResponse(r) \in Nets
          /\ \/ SendSSDPResponse(r).queue = r.queue
             \/ Headed(SendSSDPResponse(r).queue, r.queue)
      BY <2>1, ResponseTyped
    <2>3. Copies(SendSSDPResponse(r).queue, d) >= Copies(r.queue, d)
      <3>1. r.queue \in Seq(Elt) /\ Copies(r.queue, d) \in Nat
        BY <1>1, <2>1
      <3>2. CASE SendSSDPResponse(r).queue = r.queue
        BY <3>1, <3>2
      <3>3. ASSUME NEW e \in Elt, SendSSDPResponse(r).queue = <<e>> \o r.queue
            PROVE  Copies(SendSSDPResponse(r).queue, d) >= Copies(r.queue, d)
        BY <3>1, <3>3, CopiesPrepend
      <3> QED  BY <2>2, <3>2, <3>3 DEF Headed
    <2>4. Copies(SendSSDPResponse(r).queue, d) \in Nat /\ Copies(r.queue, d) \in Nat
      BY <1>1, <2>1, <2>2
    <2> QED  BY <1>2, <2>1, <2>2, <2>3, <2>4
  <1>4. s \in T
    BY <1>2 DEF k
  <1>5. CASE p # NoPacket /\ Search(p)
    <2> HIDE DEF T
    <2>1. ProcessSSDPData(s, p) \in T
      BY <1>3, <1>4, <1>5, ResponsesKeep
    <2> QED  BY <1>5, <2>1 DEF ProcessSSDPRequest, T, k
  <1>6. CASE ~(p # NoPacket /\ Search(p))
    <2>1. ProcessSSDPRequest(s, p) = s
      BY <1>6 DEF ProcessSSDPRequest, ProcessSSDPData
    <2> QED  BY <1>2, <2>1 DEF k
  <1> QED  BY <1>5, <1>6

\* try_sendto() puts back every datagram that is scheduled for later.
LEMMA TrySendtoKeeps ==
    ASSUME NEW s \in Nets, NEW c, NEW d \in Elt, d.state = "ESCHEDULED", phase \in 0 .. Second - 1
    PROVE  Copies(TrySendto(s, c).queue, d) >= Copies(s.queue, d)
  <1> DEFINE q == s.queue
             n == Len(q)
             Count(k) == Cardinality(Among(q, k, d))
  <1>1. q \in Seq(Elt) /\ n \in Nat /\ \A i \in 1 .. n : q[i] \in Elt
    <2>1. q \in Seq(Elt)
      BY DEF Nets
    <2> QED  BY <2>1
  <1>2. PICK f \in [0 .. n -> Nets] :
           /\ f[0].queue = <<>>
           /\ \A i \in 1 .. n : f[i] = TrySendElt(f[i - 1], q[i], Fate(c, i))
           /\ TrySendto(s, c) = f[n]
    BY TrySendtoRuns
  <1> HIDE DEF q, n
  <1> DEFINE S == {k \in Nat : k <= n => Copies(f[k].queue, d) >= Count(k)}
  <1>3. \A k \in Nat : Count(k) \in Nat
    BY AmongFinite
  <1>4. \A r \in Nets : r.queue \in Seq(Elt) /\ Copies(r.queue, d) \in Nat
    <2> TAKE r \in Nets
    <2>1. r.queue \in Seq(Elt)
      BY DEF Nets
    <2>2. Len(r.queue) \in Nat /\ Copies(r.queue, d) = Cardinality(Among(r.queue, Len(r.queue), d))
      BY <2>1 DEF Copies, Among
    <2> QED  BY <2>1, <2>2, AmongFinite
  <1>5. 0 \in S
    <2>1. Count(0) = 0
      <3>1. Among(q, 0, d) = {}
        BY DEF Among
      <3> QED  BY <3>1, FS_EmptySet
    <2>2. Copies(f[0].queue, d) \in Nat
      BY <1>1, <1>2, <1>4
    <2> QED  BY <2>1, <2>2
  <1>6. ASSUME NEW k \in Nat, k \in S PROVE k + 1 \in S
    <2> SUFFICES ASSUME k + 1 <= n PROVE Copies(f[k + 1].queue, d) >= Count(k + 1)
      BY <1>6
    <2>1. k + 1 \in 1 .. n /\ (k + 1) - 1 = k /\ k \in 0 .. n /\ k <= n
      BY <1>1
    <2>2. Copies(f[k].queue, d) >= Count(k)
      BY <1>6, <2>1
    <2>3. f[k] \in Nets /\ q[k + 1] \in Elt
      BY <1>1, <1>2, <2>1
    <2> DEFINE out == TrySendElt(f[k], q[k + 1], Fate(c, k + 1))
    <2>4. f[k + 1] = out
      BY <1>2, <2>1
    <2>5. /\ q[k + 1].state = "ESCHEDULED" => out.queue = Append(f[k].queue, q[k + 1])
          /\ out.queue = f[k].queue \/ \E x \in Elt : out.queue = Append(f[k].queue, x)
      <3>1. PICK r \in Nets, e \in Elt : r = f[k] /\ e = q[k + 1]
        BY <2>3
      <3>2. /\ e.state = "ESCHEDULED" =>
                   TrySendElt(r, e, Fate(c, k + 1)).queue = Append(r.queue, e)
            /\ \/ TrySendElt(r, e, Fate(c, k + 1)).queue = r.queue
               \/ \E x \in Elt : TrySendElt(r, e, Fate(c, k + 1)).queue = Append(r.queue, x)
        BY TrySendEltTyped, Zenon
      <3> QED  BY <3>1, <3>2, Zenon
    <2>6. Count(k + 1) = IF q[k + 1] = d THEN Count(k) + 1 ELSE Count(k)
      BY AmongNext
    <2>7. f[k].queue \in Seq(Elt) /\ Copies(f[k].queue, d) \in Nat /\ Count(k) \in Nat
      BY <1>3, <1>4, <2>3
    <2> HIDE DEF out, Count
    <2>8. CASE q[k + 1] = d
      <3>1. out.queue = Append(f[k].queue, d)
        BY <2>5, <2>8
      <3>2. Copies(Append(f[k].queue, d), d) = Copies(f[k].queue, d) + 1
        BY <2>7, CopiesAppend
      <3> QED  BY <2>2, <2>4, <2>6, <2>7, <2>8, <3>1, <3>2
    <2>9. CASE q[k + 1] # d
      <3>1. Copies(out.queue, d) >= Copies(f[k].queue, d)
        <4>1. CASE out.queue = f[k].queue
          BY <2>7, <4>1
        <4>2. ASSUME NEW x \in Elt, out.queue = Append(f[k].queue, x)
              PROVE  Copies(out.queue, d) >= Copies(f[k].queue, d)
          <5>1. Copies(Append(f[k].queue, x), d) \in {Copies(f[k].queue, d), Copies(f[k].queue, d) + 1}
            BY <2>7, CopiesAppend
          <5> QED  BY <2>7, <4>2, <5>1
        <4> QED  BY <2>5, <4>1, <4>2
      <3>2. Copies(out.queue, d) \in Nat
        <4>1. f[k + 1] \in Nets
          BY <1>1, <1>2, <2>1
        <4> QED  BY <1>4, <2>4, <4>1
      <3> QED  BY <2>2, <2>4, <2>6, <2>7, <2>9, <3>1, <3>2
    <2> QED  BY <2>8, <2>9
  <1> HIDE DEF S
  <1>7. n \in S
    BY <1>1, <1>5, <1>6, AllNaturals
  <1>8. Copies(f[n].queue, d) >= Count(n)
    BY <1>1, <1>7 DEF S
  <1>9. Copies(q, d) = Count(n)
    BY DEF Copies, Among, n
  <1> QED  BY <1>2, <1>8, <1>9 DEF q

\* What the loop does after select() keeps each datagram that has time.
LEMMA WorkKeeps ==
    ASSUME LInv, Work, NEW i \in 1 .. Len(queue), Before(Clock, queue[i].ts)
    PROVE  Copies(queue', queue[i]) >= Copies(queue, queue[i])
  <1> DEFINE d == queue[i]
  <1>1. phase \in 0 .. Second - 1 /\ Net \in Nets /\ Net.queue = queue
    BY DEF LInv, LTyped, Net
  <1>2. queue \in Seq(Elt)
    BY <1>1 DEF Nets
  <1>3. d \in Elt /\ d.state = "ESCHEDULED"
    BY <1>2 DEF Elt
  <1>4. PICK c, p : queue' = ProcessSSDPRequest(TrySendto(Net, c), p).queue
    BY DEF Work, Put
  <1> HIDE DEF d
  <1> DEFINE sent == TrySendto(Net, c)
  <1>5. sent \in Nets
    BY <1>1, TrySendtoTyped
  <1>6. Copies(sent.queue, d) >= Copies(Net.queue, d)
    BY <1>1, <1>3, TrySendtoKeeps
  <1> HIDE DEF sent
  <1>7. Copies(ProcessSSDPRequest(sent, p).queue, d) >= Copies(sent.queue, d)
    BY <1>1, <1>5, SearchKeeps
  <1>8. Copies(queue, d) \in Nat /\ Copies(sent.queue, d) \in Nat
    <2>1. sent.queue \in Seq(Elt)
      BY <1>5 DEF Nets
    <2> QED  BY <1>2, <1>3, <2>1, CopiesPrepend
  <1>9. ProcessSSDPRequest(sent, p).queue \in Seq(Elt)
    <2>1. ProcessSSDPRequest(sent, p) \in Nets
      BY <1>1, <1>5, ResponsesTyped DEF ProcessSSDPRequest, ProcessSSDPData
    <2> QED  BY <2>1 DEF Nets
  <1>10. Copies(ProcessSSDPRequest(sent, p).queue, d) \in Nat
    BY <1>3, <1>9, CopiesPrepend
  <1>11. Copies(ProcessSSDPRequest(sent, p).queue, d) >= Copies(queue, d)
    BY <1>1, <1>6, <1>7, <1>8, <1>10
  <1> QED  BY <1>4, <1>11 DEF d, sent

\* A datagram with a delay does not leave the queue of asyncsendto.c before its
\* time, whatever woke the loop and whatever the kernel did with the others.
THEOREM NothingBeforeTime == LSpec => NotBeforeTime
  <1> DEFINE Stay == (pc = "work" \/ pc = "serve") =>
                        \A i \in 1 .. Len(queue) :
                           Before(Clock, queue[i].ts) =>
                               Copies(queue', queue[i]) >= Copies(queue, queue[i])
  <1>1. LInv /\ [LNext]_lvars => [Stay]_lvars
    <2> SUFFICES ASSUME LInv, LNext, pc = "work" \/ pc = "serve",
                        NEW i \in 1 .. Len(queue), Before(Clock, queue[i].ts)
                 PROVE  Copies(queue', queue[i]) >= Copies(queue, queue[i])
      OBVIOUS
    <2>1. CASE Work
      BY <2>1, WorkKeeps
    <2>2. CASE ~Work
      <3>1. queue' = queue
        BY <2>2 DEF LNext, Loop, Top, LearnAddress, NotifyNatpmp, NotifyEvents, NotifyPcp,
                    ClearFlag, Timers, Wake, Shutdown,
                    FinalizeSendto, Request, SigTerm, SigUsr1, Unblock, PassTick
      <3>2. queue \in Seq(Elt)
        BY DEF LInv, LTyped, Nets, Net
      <3>3. Copies(queue, queue[i]) \in Nat
        <4>1. queue[i] \in Elt
          BY <3>2
        <4> QED  BY <3>2, <4>1, CopiesPrepend
      <3> QED  BY <3>1, <3>3
    <2> QED  BY <2>1, <2>2
  <1> QED  BY <1>1, InitLInv, NextLInv, PTL DEF LSpec, NotBeforeTime

=============================================================================
