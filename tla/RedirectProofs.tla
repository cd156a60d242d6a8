--------------------------- MODULE RedirectProofs ---------------------------
(***************************************************************************)
(* Proofs about the port mappings of the netfilter build (Redirect), for    *)
(* any ports, clients and lease times and any number of rules.              *)
(*                                                                         *)
(* A search of the back end takes the first rule that fits, so that all of  *)
(* it rests on a port having one rule of each kind. That alone is not kept  *)
(* by the steps: upnp_redirect() looks for the port in the chain of DNAT    *)
(* rules and then adds to three lists. What is needed besides is that the   *)
(* other two have no port that this chain has not (Whole).                  *)
(*                                                                         *)
(* Three invariants, each with the one before it: RInv, one rule per port;  *)
(* SInv, the chains agree and the lease file has the lines of the mappings; *)
(* GInv, what was granted is in the chains and in the file.                 *)
(***************************************************************************)
EXTENDS Redirect, CallsProofs

NatRule == [eport : Eports, iaddr : Iaddrs, iport : Iports, rhost : Rhosts, packets : Int]

FilterRule == [iaddr : Iaddrs, iport : Iports, rhost : Rhosts]

PostRule == [eport : Eports, iaddr : Iaddrs, iport : Iports]

DescRule == [eport : Eports, timestamp : Int]

FileLine == [eport : Eports, iaddr : Iaddrs, iport : Iports, timestamp : Int]

Entry == [eport : Eports, packets : Int]

Gate == [nat : Seq(NatRule), filter : Seq(FilterRule), post : Seq(PostRule), desc : Seq(DescRule),
         lease : Seq(FileLine), next : Int, list : Seq(Entry)]

-----------------------------------------------------------------------------
(***************************************************************************)
(* Lists of rules, each with an external port.                             *)
(***************************************************************************)
\* No two rules have the same port
Ones(q) == \A i, j \in 1 .. Len(q) : q[i].eport = q[j].eport => i = j

Has(q, eport) == \E i \in 1 .. Len(q) : q[i].eport = eport

At(q, eport) == SelectInSeq(q, LAMBDA e : e.eport = eport)

\* A search finds a rule of the port if there is one.
LEMMA AtFinds ==
    ASSUME NEW T, NEW q \in Seq(T), NEW eport
    PROVE  /\ At(q, eport) = 0 => ~Has(q, eport)
           /\ At(q, eport) # 0 => At(q, eport) \in 1 .. Len(q) /\ q[At(q, eport)].eport = eport
                                  /\ Has(q, eport)
  <1> DEFINE I == {i \in 1 .. Len(q) : q[i].eport = eport}
  <1>1. At(q, eport) = IF I # {} THEN Min(I) ELSE 0
    BY DEF At, SelectInSeq
  <1>2. CASE I = {}
    BY <1>1, <1>2 DEF Has
  <1>3. CASE I # {}
    <2>1. I \subseteq Nat
      OBVIOUS
    <2>2. \E m \in I : \A k \in I : m <= k
      BY <1>3, <2>1, LeastNatural
    <2>3. Min(I) \in I
      BY <2>2 DEF Min
    <2>4. At(q, eport) \in I
      BY <1>1, <1>3, <2>3
    <2> QED  BY <2>4 DEF Has
  <1> QED  BY <1>2, <1>3

\* Taking out a rule takes out its port and no other.
LEMMA CutOne ==
    ASSUME NEW T, NEW q \in Seq(T), Ones(q), NEW i \in 1 .. Len(q)
    PROVE  /\ RemoveAt(q, i) \in Seq(T)
           /\ Ones(RemoveAt(q, i))
           /\ \A e : Has(RemoveAt(q, i), e) <=> Has(q, e) /\ e # q[i].eport
  <1> DEFINE w == RemoveAt(q, i)
  <1>1. w \in Seq(T) /\ \E f : Thinned(w, q, f, {i})
    BY CutThinned
  <1>2. PICK f : Thinned(w, q, f, {i})
    BY <1>1
  <1> HIDE DEF w
  <1>3. \A j \in 1 .. Len(w) : f[j] \in 1 .. Len(q) /\ f[j] # i /\ w[j] = q[f[j]]
    BY <1>2 DEF Thinned
  <1>4. \A a, b \in 1 .. Len(w) : f[a] = f[b] => a = b
    BY <1>2 DEF Thinned
  <1>5. \A m \in 1 .. Len(q) : m # i => \E j \in 1 .. Len(w) : f[j] = m
    BY <1>2 DEF Thinned
  <1>6. \A a, b \in 1 .. Len(q) : q[a].eport = q[b].eport => a = b
    BY DEF Ones
  <1>7. Ones(w)
    BY <1>3, <1>4, <1>6 DEF Ones
  <1>8. ASSUME NEW e, Has(w, e) PROVE Has(q, e) /\ e # q[i].eport
    BY <1>3, <1>6, <1>8 DEF Has
  <1>9. ASSUME NEW e, Has(q, e), e # q[i].eport PROVE Has(w, e)
    BY <1>3, <1>5, <1>9 DEF Has
  <1> QED  BY <1>1, <1>7, <1>8, <1>9 DEF w

\* A rule with a new port, at the end.
LEMMA AppendOne ==
    ASSUME NEW T, NEW q \in Seq(T), Ones(q), NEW x \in T, ~Has(q, x.eport)
    PROVE  /\ Append(q, x) \in Seq(T)
           /\ Ones(Append(q, x))
           /\ \A e : Has(Append(q, x), e) <=> Has(q, e) \/ e = x.eport
  <1> DEFINE w == Append(q, x)
  <1>1. PICK n \in Nat : n = Len(q)
    OBVIOUS
  <1>2. w \in Seq(T) /\ Len(w) = n + 1 /\ w[n + 1] = x /\ \A j \in 1 .. n : w[j] = q[j]
    BY <1>1
  <1> HIDE DEF w
  <1>3. \A j : j \in 1 .. n + 1 <=> j = n + 1 \/ j \in 1 .. n
    BY <1>1
  <1>4. \A j \in 1 .. n : w[j].eport # x.eport
    BY <1>1, <1>2 DEF Has
  <1>5. Ones(w)
    <2>1. \A a, b \in 1 .. n : w[a].eport = w[b].eport => a = b
      BY <1>1, <1>2 DEF Ones
    <2>2. \A a, b \in 1 .. n + 1 : w[a].eport = w[b].eport => a = b
      BY <1>2, <1>3, <1>4, <2>1
    <2> QED  BY <1>2, <2>2 DEF Ones
  <1>6. \A e : Has(w, e) <=> Has(q, e) \/ e = x.eport
    BY <1>1, <1>2, <1>3 DEF Has
  <1> QED  BY <1>2, <1>5, <1>6 DEF w

\* A rule with a new port, at the head.
LEMMA PrependOne ==
    ASSUME NEW T, NEW q \in Seq(T), Ones(q), NEW x \in T, ~Has(q, x.eport)
    PROVE  /\ <<x>> \o q \in Seq(T)
           /\ Ones(<<x>> \o q)
           /\ \A e : Has(<<x>> \o q, e) <=> Has(q, e) \/ e = x.eport
  <1> DEFINE w == <<x>> \o q
  <1>1. PICK n \in Nat : n = Len(q)
    OBVIOUS
  <1>2. w \in Seq(T) /\ Len(w) = n + 1 /\ w[1] = x /\ \A j \in 1 .. n : w[j + 1] = q[j]
    BY <1>1
  <1> HIDE DEF w
  <1>3. \A j : j \in 1 .. n + 1 <=> j = 1 \/ \E k \in 1 .. n : j = k + 1
    <2>1. \A j \in 1 .. n + 1 : j # 1 => j - 1 \in 1 .. n /\ j = (j - 1) + 1
      BY <1>1
    <2>2. \A k \in 1 .. n : k + 1 \in 1 .. n + 1
      BY <1>1
    <2>3. 1 \in 1 .. n + 1
      BY <1>1
    <2> QED  BY <2>1, <2>2, <2>3
  <1>4. \A k \in 1 .. n : w[k + 1].eport # x.eport
    BY <1>1, <1>2 DEF Has
  <1>5. Ones(w)
    <2>1. \A a, b \in 1 .. n : w[a + 1].eport = w[b + 1].eport => a + 1 = b + 1
      BY <1>1, <1>2 DEF Ones
    <2>2. ASSUME NEW a \in 1 .. n + 1, NEW b \in 1 .. n + 1, w[a].eport = w[b].eport PROVE a = b
      <3>1. (a = 1 \/ \E k \in 1 .. n : a = k + 1) /\ (b = 1 \/ \E k \in 1 .. n : b = k + 1)
        BY <1>3
      <3>2. CASE a = 1
        BY <1>2, <1>4, <2>2, <3>1, <3>2
      <3>3. CASE b = 1
        BY <1>2, <1>4, <2>2, <3>1, <3>3
      <3>4. ASSUME NEW k \in 1 .. n, a = k + 1, NEW m \in 1 .. n, b = m + 1 PROVE a = b
        BY <2>1, <2>2, <3>4
      <3> QED  BY <3>1, <3>2, <3>3, <3>4
    <2> QED  BY <1>2, <2>2 DEF Ones
  <1>6. \A e : Has(w, e) <=> Has(q, e) \/ e = x.eport
    <2>1. \A e : Has(w, e) <=> \E j \in 1 .. n + 1 : w[j].eport = e
      BY <1>2 DEF Has
    <2>2. \A e : Has(q, e) <=> \E k \in 1 .. n : w[k + 1].eport = e
      BY <1>1, <1>2 DEF Has
    <2>3. ASSUME NEW e PROVE (\E j \in 1 .. n + 1 : w[j].eport = e)
                                 <=> (\E k \in 1 .. n : w[k + 1].eport = e) \/ e = x.eport
      <3>1. \A k \in 1 .. n : k + 1 \in 1 .. n + 1
        BY <1>3
      <3>2. ASSUME NEW j \in 1 .. n + 1, w[j].eport = e
            PROVE  (\E k \in 1 .. n : w[k + 1].eport = e) \/ e = x.eport
        BY <1>2, <1>3, <3>2
      <3>3. 1 \in 1 .. n + 1
        BY <1>3
      <3> QED  BY <1>2, <3>1, <3>2, <3>3
    <2> QED  BY <2>1, <2>2, <2>3
  <1> QED  BY <1>2, <1>5, <1>6 DEF w

\* A rule that changes and keeps its port.
LEMMA ChangeOne ==
    ASSUME NEW T, NEW q \in Seq(T), NEW i \in 1 .. Len(q), NEW x \in T, x.eport = q[i].eport
    PROVE  /\ [q EXCEPT ![i] = x] \in Seq(T)
           /\ Ones(q) => Ones([q EXCEPT ![i] = x])
           /\ \A e : Has([q EXCEPT ![i] = x], e) <=> Has(q, e)
  <1> DEFINE w == [q EXCEPT ![i] = x]
  <1>1. w \in Seq(T) /\ Len(w) = Len(q) /\ \A j \in 1 .. Len(q) : w[j].eport = q[j].eport
    OBVIOUS
  <1> HIDE DEF w
  <1>2. Ones(q) => Ones(w)
    BY <1>1 DEF Ones
  <1>3. \A e : Has(w, e) <=> Has(q, e)
    BY <1>1 DEF Has
  <1> QED  BY <1>1, <1>2, <1>3 DEF w

-----------------------------------------------------------------------------
(***************************************************************************)
(* The state of the gateway.                                               *)
(***************************************************************************)
\* A port has one rule of each kind at most
Good(s) == s \in Gate /\ Ones(s.nat) /\ Ones(s.desc) /\ Ones(s.post)

\* and a description or a MASQUERADE rule only with a DNAT rule
Whole(s) == /\ Good(s)
            /\ \A e : (Has(s.desc, e) \/ Has(s.post, e)) => Has(s.nat, e)

\* r differs from s in neither of the three
Same(r, s) == r \in Gate /\ r.nat = s.nat /\ r.desc = s.desc /\ r.post = s.post

\* What does not touch the three lists keeps them as they are to be.
LEMMA SameIsGood ==
    ASSUME NEW r, NEW s, Same(r, s)
    PROVE  (Good(s) => Good(r)) /\ (Whole(s) => Whole(r))
  BY DEF Same, Good, Whole

\* One field of the state changes.
LEMMA GateFields ==
    ASSUME NEW s \in Gate
    PROVE  /\ s.nat \in Seq(NatRule) /\ s.filter \in Seq(FilterRule) /\ s.post \in Seq(PostRule)
           /\ s.desc \in Seq(DescRule) /\ s.lease \in Seq(FileLine)
           /\ s.next \in Int /\ s.list \in Seq(Entry)
           /\ \A x \in Seq(NatRule) : LET r == [s EXCEPT !.nat = x] IN
                r \in Gate /\ r.nat = x /\ r.desc = s.desc /\ r.post = s.post
           /\ \A x \in Seq(DescRule) : LET r == [s EXCEPT !.desc = x] IN
                r \in Gate /\ r.nat = s.nat /\ r.desc = x /\ r.post = s.post
           /\ \A x \in Seq(PostRule) : LET r == [s EXCEPT !.post = x] IN
                r \in Gate /\ r.nat = s.nat /\ r.desc = s.desc /\ r.post = x
           /\ \A x \in Seq(FilterRule) : Same([s EXCEPT !.filter = x], s)
           /\ \A x \in Seq(FileLine) : Same([s EXCEPT !.lease = x], s)
           /\ \A x \in Int : Same([s EXCEPT !.next = x], s)
           /\ \A x \in Seq(Entry) : Same([s EXCEPT !.list = x], s)
  BY DEF Gate, Same

\* The searches of the back end
LEMMA Indices ==
    ASSUME NEW s, NEW eport
    PROVE  /\ NatIndex(s, eport) = At(s.nat, eport)
           /\ PostIndex(s, eport) = At(s.post, eport)
           /\ DescIndex(s, eport) = At(s.desc, eport)
  BY DEF NatIndex, PostIndex, DescIndex, At

\* del_redirect_desc() takes the description of the port.
LEMMA DelDescGood ==
    ASSUME NEW s, Good(s), NEW eport
    PROVE  LET r == DelRedirectDesc(s, eport) IN
           /\ Good(r) /\ r.nat = s.nat /\ r.post = s.post
           /\ \A e : Has(r.desc, e) <=> Has(s.desc, e) /\ e # eport
  <1> DEFINE i == At(s.desc, eport)
             q == s.desc
             r == DelRedirectDesc(s, eport)
  <1>1. s \in Gate /\ q \in Seq(DescRule) /\ Ones(q)
    BY GateFields DEF Good
  <1>2. r = IF i = 0 THEN s ELSE [s EXCEPT !.desc = RemoveAt(q, i)]
    BY Indices DEF DelRedirectDesc
  <1>3. /\ i = 0 => ~Has(q, eport)
        /\ i # 0 => i \in 1 .. Len(q) /\ q[i].eport = eport
    BY <1>1, AtFinds
  <1> HIDE DEF r, i
  <1>4. CASE i = 0
    BY <1>2, <1>3, <1>4 DEF r
  <1>5. CASE i # 0
    <2> DEFINE w == RemoveAt(q, i)
    <2>1. w \in Seq(DescRule) /\ Ones(w) /\ \A e : Has(w, e) <=> Has(q, e) /\ e # eport
      BY <1>1, <1>3, <1>5, CutOne
    <2> HIDE DEF w
    <2>2. r \in Gate /\ r.nat = s.nat /\ r.desc = w /\ r.post = s.post
      BY <1>1, <1>2, <1>5, <2>1, GateFields DEF w
    <2> QED  BY <2>1, <2>2 DEF Good, r
  <1> QED  BY <1>4, <1>5

\* add_redirect_desc() for a port without a description
LEMMA AddDescGood ==
    ASSUME NEW s, Good(s), NEW eport \in Eports, NEW timestamp \in Int, ~Has(s.desc, eport)
    PROVE  LET r == AddRedirectDesc(s, eport, timestamp) IN
           /\ Good(r) /\ r.nat = s.nat /\ r.post = s.post
           /\ \A e : Has(r.desc, e) <=> Has(s.desc, e) \/ e = eport
  <1> DEFINE x == [eport |-> eport, timestamp |-> timestamp]
             q == s.desc
             w == <<x>> \o q
             r == AddRedirectDesc(s, eport, timestamp)
  <1>1. s \in Gate /\ q \in Seq(DescRule) /\ Ones(q)
    BY GateFields DEF Good
  <1>2. x \in DescRule /\ x.eport = eport
    BY DEF DescRule
  <1>3. r = [s EXCEPT !.desc = w]
    BY DEF AddRedirectDesc
  <1> HIDE DEF x, r
  <1>4. w \in Seq(DescRule) /\ Ones(w) /\ \A e : Has(w, e) <=> Has(q, e) \/ e = eport
    BY <1>1, <1>2, PrependOne
  <1> HIDE DEF w
  <1>5. r \in Gate /\ r.nat = s.nat /\ r.desc = w /\ r.post = s.post
    BY <1>1, <1>3, <1>4, GateFields
  <1> QED  BY <1>4, <1>5 DEF Good, r

\* The description of a mapping is replaced.
LEMMA UpdateDescGood ==
    ASSUME NEW s, Good(s), NEW eport \in Eports, NEW timestamp \in Int
    PROVE  LET r == UpdateDescTimestamp(s, eport, timestamp) IN
           /\ Good(r) /\ r.nat = s.nat
           /\ Whole(s) /\ Has(s.nat, eport) => Whole(r)
  <1> DEFINE d == DelRedirectDesc(s, eport)
             r == AddRedirectDesc(d, eport, timestamp)
  <1>1. /\ Good(d) /\ d.nat = s.nat /\ d.post = s.post
        /\ \A e : Has(d.desc, e) <=> Has(s.desc, e) /\ e # eport
    BY DelDescGood
  <1> HIDE DEF d
  <1>2. /\ Good(r) /\ r.nat = d.nat /\ r.post = d.post
        /\ \A e : Has(r.desc, e) <=> Has(d.desc, e) \/ e = eport
    BY <1>1, AddDescGood
  <1>3. UpdateDescTimestamp(s, eport, timestamp) = r
    BY DEF UpdateDescTimestamp, d
  <1> HIDE DEF r
  <1>4. Whole(s) /\ Has(s.nat, eport) => Whole(r)
    BY <1>1, <1>2 DEF Whole
  <1> QED  BY <1>1, <1>2, <1>3, <1>4

-----------------------------------------------------------------------------
(***************************************************************************)
(* Adding and changing a mapping.                                          *)
(***************************************************************************)
\* The lease file gets a line.
LEMMA LeaseAddSame ==
    ASSUME NEW s \in Gate, NEW m \in NatRule, NEW timestamp \in Int, NEW fails,
           now \in Int, boot \in Int
    PROVE  Same(LeaseAdd(s, m, timestamp, fails), s)
  <1> DEFINE l == [eport |-> m.eport, iaddr |-> m.iaddr, iport |-> m.iport,
                   timestamp |-> IF timestamp = 0 THEN 0 ELSE timestamp - UpnpTime + now]
  <1>1. s.lease \in Seq(FileLine) /\ Same(s, s)
    BY GateFields DEF Same
  <1>2. l \in FileLine
    <2>1. l.timestamp \in Int
      BY DEF UpnpTime
    <2> QED  BY <2>1 DEF FileLine, NatRule
  <1>3. LeaseAdd(s, m, timestamp, fails)
           = IF "lease" \in fails THEN s ELSE [s EXCEPT !.lease = Append(s.lease, l)]
    BY DEF LeaseAdd
  <1> HIDE DEF l
  <1>4. Append(s.lease, l) \in Seq(FileLine)
    BY <1>1, <1>2
  <1>5. Same([s EXCEPT !.lease = Append(s.lease, l)], s)
    BY <1>4, GateFields
  <1> QED  BY <1>1, <1>3, <1>5

\* The lease file loses lines.
LEMMA LeaseRemoveSame ==
    ASSUME NEW s \in Gate, NEW eport, NEW fails
    PROVE  Same(LeaseRemove(s, eport, fails), s)
  <1> DEFINE q == s.lease
             Test(l) == ~TextPrefix(eport, l.eport)
             seqs == [i \in DOMAIN q |-> IF Test(q[i]) THEN <<q[i]>> ELSE <<>>]
  <1>1. q \in Seq(FileLine) /\ Same(s, s)
    BY GateFields DEF Same
  <1>2. PICK n \in Nat : n = Len(q)
    BY <1>1
  <1>3. LeaseRemove(s, eport, fails)
           = IF "unlease" \in fails THEN s ELSE [s EXCEPT !.lease = FlattenSeq(seqs)]
    BY DEF LeaseRemove, Those
  <1> HIDE DEF q, Test
  <1>4. seqs \in [1 .. n -> Seq(FileLine)]
    <2>1. DOMAIN q = 1 .. n /\ \A i \in 1 .. n : q[i] \in FileLine
      BY <1>1, <1>2
    <2>2. \A x \in FileLine : <<x>> \in Seq(FileLine)
      OBVIOUS
    <2>3. <<>> \in Seq(FileLine)
      OBVIOUS
    <2> QED  BY <2>1, <2>2, <2>3
  <1> HIDE DEF seqs
  <1>5. FlattenSeq(seqs) \in Seq(FileLine)
    BY <1>4, FlattenTyped
  <1>6. Same([s EXCEPT !.lease = FlattenSeq(seqs)], s)
    BY <1>5, GateFields
  <1> QED  BY <1>1, <1>3, <1>6

\* add_redirect_rule2() for a port without a DNAT rule, also when it stops halfway
LEMMA AddRuleWhole ==
    ASSUME NEW s, Whole(s), NEW m \in NatRule, NEW timestamp \in Int, NEW fails,
           "nat" \notin fails => ~Has(s.nat, m.eport)
    PROVE  Whole(AddRedirectRule2(s, m, timestamp, fails).s)
  <1> DEFINE eport == m.eport
             w == Append(s.nat, m)
             r == [s EXCEPT !.nat = w]
             d == AddRedirectDesc(r, eport, timestamp)
             snat == [eport |-> eport, iaddr |-> m.iaddr, iport |-> m.iport]
             u == Append(d.post, snat)
             p == [d EXCEPT !.post = u]
             out == AddRedirectRule2(s, m, timestamp, fails)
  <1>1. out = IF "nat" \in fails THEN Out(s, -1)
              ELSE IF "post" \in fails THEN Out(d, -1) ELSE Out(p, 0)
    BY DEF AddRedirectRule2
  <1>2. out.s = IF "nat" \in fails THEN s ELSE IF "post" \in fails THEN d ELSE p
    BY <1>1 DEF Out
  <1> HIDE DEF out
  <1>3. CASE "nat" \in fails
    BY <1>2, <1>3 DEF out
  <1>4. CASE "nat" \notin fails
    <2>1. s \in Gate /\ s.nat \in Seq(NatRule) /\ Ones(s.nat) /\ Good(s)
      BY GateFields DEF Whole, Good
    <2>2. w \in Seq(NatRule) /\ Ones(w) /\ \A e : Has(w, e) <=> Has(s.nat, e) \/ e = eport
      BY <1>4, <2>1, AppendOne
    <2> HIDE DEF w
    <2>3. r \in Gate /\ r.nat = w /\ r.desc = s.desc /\ r.post = s.post
      BY <2>1, <2>2, GateFields
    <2> HIDE DEF r
    <2>4. Good(r) /\ ~Has(r.desc, eport) /\ ~Has(r.post, eport)
      BY <1>4, <2>1, <2>2, <2>3 DEF Good, Whole
    <2>5. eport \in Eports
      BY DEF NatRule
    <2>6. /\ Good(d) /\ d.nat = r.nat /\ d.post = r.post
          /\ \A e : Has(d.desc, e) <=> Has(r.desc, e) \/ e = eport
      BY <2>4, <2>5, AddDescGood
    <2> HIDE DEF d
    <2>7. Whole(d)
      BY <2>2, <2>3, <2>6 DEF Whole
    <2>8. snat \in PostRule /\ snat.eport = eport
      BY DEF PostRule, NatRule
    <2> HIDE DEF snat
    <2>9. d \in Gate /\ d.post \in Seq(PostRule) /\ Ones(d.post)
      BY <2>6, GateFields DEF Good
    <2>10. u \in Seq(PostRule) /\ Ones(u) /\ \A e : Has(u, e) <=> Has(d.post, e) \/ e = eport
      BY <2>4, <2>6, <2>8, <2>9, AppendOne
    <2> HIDE DEF u
    <2>11. p \in Gate /\ p.nat = d.nat /\ p.desc = d.desc /\ p.post = u
      BY <2>9, <2>10, GateFields
    <2> HIDE DEF p
    <2>12. Whole(p)
      BY <2>2, <2>3, <2>6, <2>7, <2>10, <2>11 DEF Whole, Good
    <2> QED  BY <1>2, <1>4, <2>7, <2>12 DEF out
  <1> QED  BY <1>3, <1>4

\* add_filter_rule2()
LEMMA AddFilterSame ==
    ASSUME NEW s \in Gate, NEW m \in NatRule, NEW fails
    PROVE  Same(AddFilterRule2(s, m, fails).s, s)
  <1> DEFINE x == [iaddr |-> m.iaddr, iport |-> m.iport, rhost |-> m.rhost]
             w == Append(s.filter, x)
  <1>1. AddFilterRule2(s, m, fails).s = IF "filter" \in fails THEN s ELSE [s EXCEPT !.filter = w]
    BY DEF AddFilterRule2, Out
  <1>2. x \in FilterRule
    BY DEF FilterRule, NatRule
  <1> HIDE DEF x
  <1>3. w \in Seq(FilterRule)
    BY <1>2, GateFields
  <1> HIDE DEF w
  <1>4. Same([s EXCEPT !.filter = w], s) /\ Same(s, s)
    BY <1>3, GateFields DEF Same
  <1> QED  BY <1>1, <1>4

\* upnp_redirect_internal(): nothing is undone when a step fails, and nothing
\* has to be for this.
LEMMA RedirectInternalWhole ==
    ASSUME NEW s, Whole(s), NEW m \in NatRule, NEW timestamp \in Int, NEW fails,
           now \in Int, boot \in Int, "nat" \notin fails => ~Has(s.nat, m.eport)
    PROVE  Whole(UpnpRedirectInternal(s, m, timestamp, fails).s)
  <1> DEFINE rdr == AddRedirectRule2(s, m, timestamp, fails)
             leased == LeaseAdd(rdr.s, m, timestamp, fails)
             open == AddFilterRule2(leased, m, fails)
             out == UpnpRedirectInternal(s, m, timestamp, fails)
             r == [open.s EXCEPT !.next = Sooner(open.s.next, timestamp)]
  <1>1. out = IF rdr.r < 0 THEN Out(rdr.s, -1)
              ELSE IF open.r < 0 THEN Out(open.s, -1) ELSE Out(r, 0)
    BY DEF UpnpRedirectInternal, On
  <1>2. out.s = IF rdr.r < 0 THEN rdr.s ELSE IF open.r < 0 THEN open.s ELSE r
    BY <1>1 DEF Out
  <1> HIDE DEF out
  <1>3. Whole(rdr.s)
    BY AddRuleWhole
  <1> HIDE DEF rdr
  <1>4. Same(leased, rdr.s)
    BY <1>3, LeaseAddSame DEF Whole, Good
  <1> HIDE DEF leased
  <1>5. Whole(leased)
    BY <1>3, <1>4, SameIsGood
  <1>6. Same(open.s, leased)
    BY <1>5, AddFilterSame DEF Whole, Good
  <1> HIDE DEF open
  <1>7. Whole(open.s)
    BY <1>5, <1>6, SameIsGood
  <1>8. open.s \in Gate /\ open.s.next \in Int
    BY <1>7, GateFields DEF Whole, Good
  <1>9. Sooner(open.s.next, timestamp) \in Int
    BY <1>8 DEF Sooner
  <1>10. Same(r, open.s)
    BY <1>8, <1>9, GateFields
  <1>11. Whole(r)
    BY <1>7, <1>10, SameIsGood
  <1> QED  BY <1>2, <1>3, <1>7, <1>11 DEF out

\* A rule of the lists gets another internal port and keeps its external one.
LEMMA PortChanged ==
    ASSUME NEW i, NEW iport \in Iports
    PROVE  /\ \A q \in Seq(NatRule) : LET w == [q EXCEPT ![i].iport = iport] IN
                w \in Seq(NatRule) /\ (Ones(q) => Ones(w)) /\ \A e : Has(w, e) <=> Has(q, e)
           /\ \A q \in Seq(PostRule) : LET w == [q EXCEPT ![i].iport = iport] IN
                w \in Seq(PostRule) /\ (Ones(q) => Ones(w)) /\ \A e : Has(w, e) <=> Has(q, e)
           /\ \A q \in Seq(FilterRule) : [q EXCEPT ![i].iport = iport] \in Seq(FilterRule)
  <1>1. ASSUME NEW q \in Seq(NatRule)
        PROVE  LET w == [q EXCEPT ![i].iport = iport] IN
               w \in Seq(NatRule) /\ (Ones(q) => Ones(w)) /\ \A e : Has(w, e) <=> Has(q, e)
    <2> DEFINE x == [q[i] EXCEPT !.iport = iport]
    <2>1. CASE i \in 1 .. Len(q)
      <3>1. x \in NatRule /\ x.eport = q[i].eport
        <4>1. q[i] \in NatRule
          BY <2>1
        <4> QED  BY <4>1 DEF NatRule
      <3>2. [q EXCEPT ![i].iport = iport] = [q EXCEPT ![i] = x]
        OBVIOUS
      <3> HIDE DEF x
      <3> QED  BY <2>1, <3>1, <3>2, ChangeOne
    <2>2. CASE i \notin 1 .. Len(q)
      <3>1. [q EXCEPT ![i].iport = iport] = q
        BY <2>2
      <3> QED  BY <3>1
    <2> QED  BY <2>1, <2>2
  <1>2. ASSUME NEW q \in Seq(PostRule)
        PROVE  LET w == [q EXCEPT ![i].iport = iport] IN
               w \in Seq(PostRule) /\ (Ones(q) => Ones(w)) /\ \A e : Has(w, e) <=> Has(q, e)
    <2> DEFINE x == [q[i] EXCEPT !.iport = iport]
    <2>1. CASE i \in 1 .. Len(q)
      <3>1. x \in PostRule /\ x.eport = q[i].eport
        <4>1. q[i] \in PostRule
          BY <2>1
        <4> QED  BY <4>1 DEF PostRule
      <3>2. [q EXCEPT ![i].iport = iport] = [q EXCEPT ![i] = x]
        OBVIOUS
      <3> HIDE DEF x
      <3> QED  BY <2>1, <3>1, <3>2, ChangeOne
    <2>2. CASE i \notin 1 .. Len(q)
      <3>1. [q EXCEPT ![i].iport = iport] = q
        BY <2>2
      <3> QED  BY <3>1
    <2> QED  BY <2>1, <2>2
  <1>3. ASSUME NEW q \in Seq(FilterRule) PROVE [q EXCEPT ![i].iport = iport] \in Seq(FilterRule)
    <2> DEFINE x == [q[i] EXCEPT !.iport = iport]
    <2>1. CASE i \in 1 .. Len(q)
      <3>1. x \in FilterRule
        <4>1. q[i] \in FilterRule
          BY <2>1
        <4> QED  BY <4>1 DEF FilterRule
      <3>2. [q EXCEPT ![i].iport = iport] = [q EXCEPT ![i] = x]
        OBVIOUS
      <3> HIDE DEF x
      <3> QED  BY <2>1, <3>1, <3>2
    <2>2. CASE i \notin 1 .. Len(q)
      <3>1. [q EXCEPT ![i].iport = iport] = q
        BY <2>2
      <3> QED  BY <3>1
    <2> QED  BY <2>1, <2>2
  <1> QED  BY <1>1, <1>2, <1>3

\* update_portmapping(), also when it stops halfway
LEMMA UpdateWhole ==
    ASSUME NEW s, Whole(s), NEW eport \in Eports, NEW iport \in Iports, NEW timestamp \in Int, NEW fails
    PROVE  Whole(UpdatePortmapping(s, eport, iport, timestamp, fails).s)
  <1> DEFINE i == NatIndex(s, eport)
             old == s.nat[i]
             w == [s.nat EXCEPT ![i].iport = iport]
             natted == [s EXCEPT !.nat = w]
             j == FilterIndex(s, old.iaddr, old.iport)
             f == UpdateFilter(natted, j, iport)
             snatted == UpdateSnat(f, eport, old.iaddr, old.iport, iport, fails)
             r == UpdateDescTimestamp(snatted, eport, timestamp)
             out == UpdatePortmapping(s, eport, iport, timestamp, fails)
  <1>1. out = IF i = 0 \/ "nat" \in fails THEN Out(s, -1)
              ELSE IF j = 0 \/ "filter" \in fails THEN Out(natted, -1) ELSE Out(r, 0)
    BY DEF UpdatePortmapping
  <1>2. out.s = IF i = 0 \/ "nat" \in fails THEN s
                ELSE IF j = 0 \/ "filter" \in fails THEN natted ELSE r
    BY <1>1 DEF Out
  <1> HIDE DEF out
  <1>3. s \in Gate /\ Good(s)
    BY DEF Whole, Good
  <1>4. i # 0 => Has(s.nat, eport)
    BY <1>3, AtFinds, Indices, GateFields
  <1> HIDE DEF i
  <1>5. w \in Seq(NatRule) /\ Ones(w) /\ \A e : Has(w, e) <=> Has(s.nat, e)
    BY <1>3, GateFields, PortChanged DEF Good
  <1> HIDE DEF w
  <1>6. natted \in Gate /\ natted.nat = w /\ natted.desc = s.desc /\ natted.post = s.post
    BY <1>3, <1>5, GateFields
  <1> HIDE DEF natted
  <1>7. Whole(natted)
    BY <1>3, <1>5, <1>6 DEF Whole, Good
  <1> HIDE DEF j, old
  <1>8. Same(f, natted)
    <2> DEFINE v == [natted.filter EXCEPT ![j].iport = iport]
    <2>1. v \in Seq(FilterRule)
      BY <1>6, GateFields, PortChanged
    <2>2. f = [natted EXCEPT !.filter = v]
      BY DEF UpdateFilter
    <2> HIDE DEF v, f
    <2> QED  BY <1>6, <2>1, <2>2, GateFields
  <1> HIDE DEF f
  <1>9. Whole(f)
    BY <1>7, <1>8, SameIsGood
  <1>10. Whole(snatted) /\ snatted.nat = f.nat
    <2>1. PICK k : snatted = f \/ snatted = [f EXCEPT !.post[k].iport = iport]
      BY DEF UpdateSnat
    <2>2. CASE snatted = f
      BY <1>9, <2>2
    <2>3. CASE snatted = [f EXCEPT !.post[k].iport = iport]
      <3> DEFINE v == [f.post EXCEPT ![k].iport = iport]
      <3>1. f \in Gate /\ f.post \in Seq(PostRule) /\ Ones(f.post)
        BY <1>9, GateFields DEF Whole, Good
      <3>2. v \in Seq(PostRule) /\ Ones(v) /\ \A e : Has(v, e) <=> Has(f.post, e)
        BY <3>1, PortChanged
      <3>3. snatted = [f EXCEPT !.post = v]
        BY <2>3
      <3> HIDE DEF v, snatted
      <3>4. snatted \in Gate /\ snatted.nat = f.nat /\ snatted.desc = f.desc /\ snatted.post = v
        BY <3>1, <3>2, <3>3, GateFields
      <3> QED  BY <1>9, <3>2, <3>4 DEF Whole, Good
    <2> QED  BY <2>1, <2>2, <2>3
  <1> HIDE DEF snatted
  <1>11. i # 0 => Has(snatted.nat, eport)
    BY <1>4, <1>5, <1>6, <1>8, <1>10 DEF Same
  <1>12. i # 0 => Whole(r)
    BY <1>10, <1>11, UpdateDescGood DEF Whole
  <1> QED  BY <1>2, <1>7, <1>12 DEF out

\* upnp_redirect(), where the search for the port does not fail without the
\* rest: it adds a mapping, changes one or refuses.
LEMMA RedirectWhole ==
    ASSUME NEW s, Whole(s), NEW m \in NatRule, NEW duration \in Int, NEW fails,
           now \in Int, boot \in Int, "get" \in fails => "nat" \in fails
    PROVE  Whole(UpnpRedirect(s, m, duration, fails).s)
  <1> DEFINE timestamp == IF duration > 0 THEN UpnpTime + duration ELSE 0
             old == s.nat[NatIndex(s, m.eport)]
             int == UpnpRedirectInternal(s, m, timestamp, fails)
             done == Overwrite(s, m, old.iport, timestamp, fails)
             again == LeaseAgain(done.s, m, timestamp, fails)
             out == UpnpRedirect(s, m, duration, fails)
  <1>1. out = IF ~Taken(s, m, fails) THEN int
              ELSE IF m.iaddr # old.iaddr \/ m.rhost # old.rhost THEN Out(s, -2)
              ELSE IF done.r # 0 THEN done ELSE Out(again, 0)
    BY DEF UpnpRedirect, On
  <1>2. out.s = IF ~Taken(s, m, fails) THEN int.s
                ELSE IF m.iaddr # old.iaddr \/ m.rhost # old.rhost THEN s
                ELSE IF done.r # 0 THEN done.s ELSE again
    BY <1>1 DEF Out
  <1> HIDE DEF out
  <1>3. timestamp \in Int
    BY DEF UpnpTime
  <1>4. m.eport \in Eports /\ m.iport \in Iports /\ s \in Gate /\ Good(s)
    BY DEF NatRule, Whole, Good
  <1> HIDE DEF timestamp, old
  <1>5. NatIndex(s, m.eport) = At(s.nat, m.eport)
    BY Indices
  <1>6. NatIndex(s, m.eport) = 0 => ~Has(s.nat, m.eport)
    BY <1>4, <1>5, AtFinds, GateFields
  <1>7. ~Taken(s, m, fails) => Whole(int.s)
    <2>1. ~Taken(s, m, fails) => ("nat" \notin fails => ~Has(s.nat, m.eport))
      BY <1>6 DEF Taken
    <2> QED  BY <1>3, <2>1, RedirectInternalWhole
  <1>8. Taken(s, m, fails) => Whole(done.s)
    <2> SUFFICES ASSUME Taken(s, m, fails) PROVE Whole(done.s)
      OBVIOUS
    <2>1. Has(s.nat, m.eport)
      BY <1>4, <1>5, AtFinds, GateFields DEF Taken
    <2>2. CASE m.iport = old.iport
      <3>1. done = Out(UpdateDescTimestamp(s, m.eport, timestamp), 0)
        BY <2>2 DEF Overwrite
      <3>2. Whole(UpdateDescTimestamp(s, m.eport, timestamp))
        BY <1>3, <1>4, <2>1, UpdateDescGood
      <3> QED  BY <3>1, <3>2 DEF Out
    <2>3. CASE m.iport # old.iport
      <3> DEFINE first == UpdatePortmapping(s, m.eport, m.iport, timestamp, fails)
                 second == UpdatePortmapping(first.s, m.eport, m.iport, timestamp, Again(fails))
      <3>1. done = second
        BY <2>3 DEF Overwrite, On
      <3>2. Whole(first.s)
        BY <1>3, <1>4, UpdateWhole
      <3> HIDE DEF first
      <3>3. Whole(second.s)
        BY <1>3, <1>4, <3>2, UpdateWhole
      <3> QED  BY <3>1, <3>3
    <2> QED  BY <2>2, <2>3
  <1> HIDE DEF done
  <1>9. Whole(done.s) => Whole(again)
    <2> SUFFICES ASSUME Whole(done.s) PROVE Whole(again)
      OBVIOUS
    <2> DEFINE cut == LeaseRemove(done.s, m.eport, fails)
    <2>1. Same(cut, done.s)
      BY LeaseRemoveSame DEF Whole, Good
    <2>2. again = LeaseAdd(cut, m, timestamp, fails)
      BY DEF LeaseAgain
    <2> HIDE DEF cut, again
    <2>3. Whole(cut)
      BY <2>1, SameIsGood
    <2>4. Same(again, cut)
      BY <1>3, <2>2, <2>3, LeaseAddSame DEF Whole, Good
    <2> QED  BY <2>3, <2>4, SameIsGood
  <1> QED  BY <1>2, <1>7, <1>8, <1>9 DEF out

-----------------------------------------------------------------------------
(***************************************************************************)
(* Deleting mappings.                                                      *)
(***************************************************************************)
\* A filter rule is taken out.
LEMMA DeleteFilterSame ==
    ASSUME NEW s \in Gate, NEW iaddr, NEW iport
    PROVE  Same(DeleteFilter(s, iaddr, iport), s)
  <1> DEFINE q == s.filter
             k == FilterIndex(s, iaddr, iport)
             I == {i \in 1 .. Len(q) : q[i].iaddr = iaddr /\ q[i].iport = iport}
             w == RemoveAt(q, k)
  <1>1. q \in Seq(FilterRule) /\ Same(s, s)
    BY GateFields DEF Same
  <1>2. k = IF I # {} THEN Min(I) ELSE 0
    BY DEF FilterIndex, SelectInSeq
  <1>3. DeleteFilter(s, iaddr, iport) = IF k = 0 THEN s ELSE [s EXCEPT !.filter = w]
    BY DEF DeleteFilter
  <1> HIDE DEF k
  <1>4. CASE k = 0
    BY <1>1, <1>3, <1>4
  <1>5. CASE k # 0
    <2>1. I # {} /\ I \subseteq Nat
      BY <1>2, <1>5
    <2>2. \E m \in I : \A n \in I : m <= n
      BY <2>1, LeastNatural
    <2>3. Min(I) \in I
      BY <2>2 DEF Min
    <2>4. k \in 1 .. Len(q)
      BY <1>2, <2>1, <2>3
    <2>5. w \in Seq(FilterRule)
      BY <1>1, <2>4, CutThinned
    <2> HIDE DEF w
    <2>6. Same([s EXCEPT !.filter = w], s)
      BY <2>5, GateFields
    <2> QED  BY <1>3, <1>5, <2>6
  <1> QED  BY <1>4, <1>5

\* The DNAT rule and the filter rule are taken out, or some of them.
LEMMA DeleteNatGood ==
    ASSUME NEW s, Good(s), NEW eport, NEW fails
    PROVE  LET r == DeleteNatAndFilter(s, eport, fails).s IN
           /\ Good(r) /\ r.desc = s.desc /\ r.post = s.post
           /\ fails = {} => \A e : Has(r.nat, e) <=> Has(s.nat, e) /\ e # eport
  <1> DEFINE i == At(s.nat, eport)
             x == s.nat[i]
             w == RemoveAt(s.nat, i)
             cut == [s EXCEPT !.nat = w]
             un == IF "init" \in fails THEN s ELSE cut
             del == DeleteFilter(un, x.iaddr, x.iport)
             r == DeleteNatAndFilter(s, eport, fails).s
  <1>1. NatIndex(s, eport) = i
    BY Indices
  <1>2. r = IF i = 0 THEN s
            ELSE IF "init" \notin fails /\ "nat" \in fails THEN s
            ELSE IF "filter" \in fails THEN un ELSE del
    BY <1>1 DEF DeleteNatAndFilter, Out
  <1>3. s \in Gate /\ s.nat \in Seq(NatRule) /\ Ones(s.nat)
    BY GateFields DEF Good
  <1>4. /\ i = 0 => ~Has(s.nat, eport)
        /\ i # 0 => i \in 1 .. Len(s.nat) /\ s.nat[i].eport = eport
    BY <1>3, AtFinds
  <1> HIDE DEF r, i
  <1>5. CASE i = 0
    BY <1>2, <1>4, <1>5 DEF r
  <1>6. CASE i # 0
    <2>1. w \in Seq(NatRule) /\ Ones(w) /\ \A e : Has(w, e) <=> Has(s.nat, e) /\ e # eport
      BY <1>3, <1>4, <1>6, CutOne
    <2> HIDE DEF w
    <2>2. cut \in Gate /\ cut.nat = w /\ cut.desc = s.desc /\ cut.post = s.post
      BY <1>3, <2>1, GateFields
    <2> HIDE DEF cut
    <2>3. Good(un) /\ un.desc = s.desc /\ un.post = s.post
      BY <2>1, <2>2 DEF Good
    <2>4. "init" \notin fails => \A e : Has(un.nat, e) <=> Has(s.nat, e) /\ e # eport
      BY <2>1, <2>2
    <2> HIDE DEF un, x
    <2>5. Same(del, un)
      BY <2>3, DeleteFilterSame DEF Good
    <2> HIDE DEF del
    <2>6. Good(del) /\ del.desc = s.desc /\ del.post = s.post /\ del.nat = un.nat
      BY <2>3, <2>5, SameIsGood DEF Same
    <2>7. Good(r) /\ r.desc = s.desc /\ r.post = s.post
      BY <1>2, <2>3, <2>6
    <2>8. fails = {} => r = del /\ "init" \notin fails
      BY <1>2, <1>6
    <2> QED  BY <2>4, <2>6, <2>7, <2>8 DEF r
  <1> QED  BY <1>5, <1>6

\* _upnp_delete_redir(): what is left has one rule of a kind for a port, whatever
\* failed, and the lists belong together if nothing did.
LEMMA DeleteGood ==
    ASSUME NEW s, Good(s), NEW eport, NEW fails
    PROVE  LET r == UpnpDeleteRedir(s, eport, fails).s IN
           Good(r) /\ (fails = {} /\ Whole(s) => Whole(r))
  <1> DEFINE first == DeleteNatAndFilter(s, eport, fails)
             i == At(first.s.post, eport)
             w == RemoveAt(first.s.post, i)
             cut == [first.s EXCEPT !.post = w]
             second == DeletePost(first.s, eport, fails)
             undescribed == DelRedirectDesc(second.s, eport)
             del == DeleteRedirectAndFilterRules(s, eport, fails)
             r == UpnpDeleteRedir(s, eport, fails).s
  <1>1. r = LeaseRemove(del.s, eport, fails)
    <2>1. UpnpDeleteRedir(s, eport, fails) = Out(LeaseRemove(del.s, eport, fails), del.r)
      BY DEF UpnpDeleteRedir, On
    <2> QED  BY <2>1 DEF Out
  <1>2. del.s = IF "get" \in fails THEN s ELSE undescribed
    <2>1. del = IF "get" \in fails THEN Out(s, -1) ELSE Out(undescribed, first.r * second.r)
      BY DEF DeleteRedirectAndFilterRules, On
    <2> QED  BY <2>1 DEF Out
  <1> HIDE DEF del, r
  <1>3. /\ Good(first.s) /\ first.s.desc = s.desc /\ first.s.post = s.post
        /\ fails = {} => \A e : Has(first.s.nat, e) <=> Has(s.nat, e) /\ e # eport
    BY DeleteNatGood
  <1>4. second.s = IF i = 0 \/ "post" \in fails THEN first.s ELSE cut
    <2>1. PostIndex(first.s, eport) = i
      BY Indices
    <2> HIDE DEF first, i
    <2> QED  BY <2>1 DEF DeletePost, Out
  <1> HIDE DEF first, second
  <1>5. /\ first.s \in Gate /\ first.s.post \in Seq(PostRule) /\ Ones(first.s.post)
    BY <1>3, GateFields DEF Good
  <1>6. /\ i = 0 => ~Has(first.s.post, eport)
        /\ i # 0 => i \in 1 .. Len(first.s.post) /\ first.s.post[i].eport = eport
    BY <1>5, AtFinds
  <1> HIDE DEF i
  <1>7. /\ Good(second.s) /\ second.s.desc = s.desc /\ second.s.nat = first.s.nat
        /\ fails = {} => \A e : Has(second.s.post, e) <=> Has(s.post, e) /\ e # eport
    <2>1. CASE i = 0
      BY <1>3, <1>4, <1>6, <2>1
    <2>2. CASE i # 0
      <3>1. /\ w \in Seq(PostRule) /\ Ones(w)
            /\ \A e : Has(w, e) <=> Has(first.s.post, e) /\ e # eport
        BY <1>5, <1>6, <2>2, CutOne
      <3> HIDE DEF w
      <3>2. cut \in Gate /\ cut.nat = first.s.nat /\ cut.desc = first.s.desc /\ cut.post = w
        BY <1>5, <3>1, GateFields
      <3> HIDE DEF cut
      <3>3. Good(cut)
        BY <1>3, <3>1, <3>2 DEF Good
      <3> QED  BY <1>3, <1>4, <2>2, <3>1, <3>2, <3>3
    <2> QED  BY <2>1, <2>2
  <1>8. /\ Good(undescribed) /\ undescribed.nat = second.s.nat /\ undescribed.post = second.s.post
        /\ \A e : Has(undescribed.desc, e) <=> Has(second.s.desc, e) /\ e # eport
    BY <1>7, DelDescGood
  <1> HIDE DEF undescribed
  <1>9. Good(del.s) /\ (fails = {} /\ Whole(s) => Whole(del.s))
    BY <1>2, <1>3, <1>7, <1>8 DEF Whole
  <1>10. Same(r, del.s)
    BY <1>1, <1>9, LeaseRemoveSame DEF Good
  <1> QED  BY <1>9, <1>10, SameIsGood DEF r

\* Deleting one port after the other keeps what every deletion keeps.
LEMMA DeleteEachKeeps ==
    ASSUME NEW T, NEW s \in T, NEW eports, Len(eports) \in Nat, NEW at, NEW fails,
           \A r \in T, i \in 1 .. Len(eports) : /\ UpnpDeleteRedir(r, eports[i], fails).s \in T
                                                 /\ UpnpDeleteRedir(r, eports[i], {}).s \in T
    PROVE  DeleteEach(s, eports, at, fails) \in T
  <1> DEFINE n == Len(eports)
             Some(i) == IF i = at THEN fails ELSE {}
             Turn(r, i) == IF i > at /\ Dies(fails) THEN r
                           ELSE UpnpDeleteRedir(r, eports[i], Some(i)).s
             Loop(f) == f = [i \in 0 .. n |->
                               IF i = 0 THEN s
                               ELSE IF i > at /\ Dies(fails) THEN f[i - 1]
                               ELSE On(f[i - 1], LAMBDA before :
                                       UpnpDeleteRedir(before, eports[i], IF i = at THEN fails ELSE {}).s)]
             del == CHOOSE f : Loop(f)
             g == [i \in 1 .. n |-> [r \in T |-> Turn(r, i)]]
  <1>1. DeleteEach(s, eports, at, fails) = del[n]
    BY DEF DeleteEach
  <1>2. \A r, i : On(r, LAMBDA before :
                     UpnpDeleteRedir(before, eports[i], IF i = at THEN fails ELSE {}).s)
                    = UpnpDeleteRedir(r, eports[i], Some(i)).s
    BY DEF On
  <1>3. \A r \in T, i \in 1 .. n : Turn(r, i) \in T
    OBVIOUS
  <1>4. n \in Nat /\ s \in T
    OBVIOUS
  <1>5. \A f : Loop(f) => f[0] = s /\ \A i \in 1 .. n : f[i] = Turn(f[i - 1], i)
    <2> SUFFICES ASSUME NEW f, Loop(f), NEW i \in 0 .. n
                 PROVE  f[i] = IF i = 0 THEN s ELSE Turn(f[i - 1], i)
      <3>1. \A i \in 1 .. n : i \in 0 .. n /\ i # 0
        BY <1>4
      <3>2. 0 \in 0 .. n
        BY <1>4
      <3> HIDE DEF Loop, Turn, n
      <3> QED  BY <3>1, <3>2
    <2>1. f[i] = IF i = 0 THEN s
                 ELSE IF i > at /\ Dies(fails) THEN f[i - 1]
                 ELSE On(f[i - 1], LAMBDA before :
                         UpnpDeleteRedir(before, eports[i], IF i = at THEN fails ELSE {}).s)
      <3> HIDE DEF n
      <3> QED  OBVIOUS
    <2> QED  BY <1>2, <2>1
  <1>6. ASSUME NEW f, DOMAIN f = 0 .. n, f = [i \in 0 .. n |-> f[i]],
               f[0] = s, \A i \in 1 .. n : f[i] = Turn(f[i - 1], i)
        PROVE  Loop(f)
    <2>1. ASSUME NEW i \in 0 .. n
          PROVE  f[i] = IF i = 0 THEN s
                        ELSE IF i > at /\ Dies(fails) THEN f[i - 1]
                        ELSE On(f[i - 1], LAMBDA before :
                                UpnpDeleteRedir(before, eports[i], IF i = at THEN fails ELSE {}).s)
      <3>1. CASE i = 0
        BY <1>6, <3>1
      <3>2. CASE i # 0
        <4>1. i \in 1 .. n
          BY <1>4, <3>2
        <4>2. f[i] = Turn(f[i - 1], i)
          BY <1>6, <4>1
        <4> QED  BY <1>2, <3>2, <4>2
      <3> QED  BY <3>1, <3>2
    <2> HIDE DEF n
    <2> QED  BY <1>6, <2>1
  <1> HIDE DEF n, Turn, Loop
  <1>7. g \in [1 .. n -> [T -> T]]
    BY <1>3
  <1>8. PICK f \in [0 .. n -> T] : Applies(f, s, n, g)
    <2> HIDE DEF g
    <2> QED  BY <1>4, <1>7, StepsExist
  <1>9. Loop(f)
    <2>1. ASSUME NEW i \in 0 .. n PROVE f[i] = IF i = 0 THEN s ELSE g[i][f[i - 1]]
      <3> HIDE DEF g
      <3> QED  BY <1>8 DEF Applies
    <2>2. f[0] = s
      <3>1. 0 \in 0 .. n
        BY <1>4
      <3> HIDE DEF g
      <3> QED  BY <2>1, <3>1
    <2>3. ASSUME NEW i \in 1 .. n PROVE f[i] = Turn(f[i - 1], i)
      <3>1. i \in 0 .. n /\ i # 0 /\ f[i - 1] \in T
        BY <1>4
      <3> QED  BY <2>1, <3>1
    <2> QED  BY <1>6, <2>2, <2>3
  <1>10. Loop(del)
    BY <1>9
  <1> HIDE DEF del
  <1>11. del[0] = s /\ \A i \in 1 .. n : del[i] = Turn(del[i - 1], i)
    BY <1>5, <1>10
  <1>12. \A i \in 0 .. n : del[i] \in T
    <2>1. del[0] \in T /\ \A i \in 1 .. n : del[i - 1] \in T => del[i] \in T
      BY <1>3, <1>4, <1>11
    <2> QED  BY <1>4, <2>1, KeptBySteps
  <1> QED  BY <1>1, <1>4, <1>12

\* The whole of it.
LEMMA DeleteEachGood ==
    ASSUME NEW s, Good(s), NEW eports, Len(eports) \in Nat, NEW at, NEW fails
    PROVE  /\ Good(DeleteEach(s, eports, at, fails))
           /\ fails = {} /\ Whole(s) => Whole(DeleteEach(s, eports, at, fails))
  <1> DEFINE G == {r \in Gate : Good(r)}
             W == {r \in Gate : Whole(r)}
  <1>1. Good(DeleteEach(s, eports, at, fails))
    <2>1. s \in G /\ \A r \in G : Good(r)
      BY DEF Good
    <2>2. \A r \in G : \A eport : /\ UpnpDeleteRedir(r, eport, fails).s \in G
                                  /\ UpnpDeleteRedir(r, eport, {}).s \in G
      BY DeleteGood DEF Good
    <2> HIDE DEF G
    <2> QED  BY <2>1, <2>2, DeleteEachKeeps
  <1>2. ASSUME fails = {}, Whole(s) PROVE Whole(DeleteEach(s, eports, at, fails))
    <2>1. s \in W /\ \A r \in W : Whole(r)
      BY <1>2 DEF Whole, Good
    <2>2. \A r \in W : \A eport : UpnpDeleteRedir(r, eport, {}).s \in W
      BY DeleteGood DEF Good, Whole
    <2> HIDE DEF W
    <2> QED  BY <1>2, <2>1, <2>2, DeleteEachKeeps
  <1> QED  BY <1>1, <1>2

\* remove_unused_rules() deletes ports, whichever they are.
RemovesUnused(f, victim) ==
    f = [i \in 0 .. Len(gw.list) |->
           IF i = 0 THEN gw
           ELSE On(f[i - 1], LAMBDA before :
                   IF Unused(before, gw.list[i]) THEN UpnpDeleteRedir(before, victim[i], {}).s
                   ELSE before)]

\* It keeps what every deletion keeps.
LEMMA RemovesKeeps ==
    ASSUME NEW W, gw \in W, gw \in Gate, NEW victim,
           \A r \in W, i \in 1 .. Len(gw.list) : UpnpDeleteRedir(r, victim[i], {}).s \in W
    PROVE  (CHOOSE f : RemovesUnused(f, victim))[Len(gw.list)] \in W
  <1> DEFINE n == Len(gw.list)
             Turn(r, i) == IF Unused(r, gw.list[i]) THEN UpnpDeleteRedir(r, victim[i], {}).s ELSE r
             del == CHOOSE f : RemovesUnused(f, victim)
             g == [i \in 1 .. n |-> [r \in W |-> Turn(r, i)]]
  <1>1. gw \in W /\ n \in Nat
    <2>1. gw.list \in Seq(Entry)
      BY GateFields
    <2> QED  BY <2>1
  <1>3. \A r \in W, i \in 1 .. n : Turn(r, i) \in W
    OBVIOUS
  <1>5. \A f : RemovesUnused(f, victim)
                 <=> f = [i \in 0 .. n |-> IF i = 0 THEN gw ELSE Turn(f[i - 1], i)]
    <2> TAKE f
    <2> DEFINE A(i) == IF i = 0 THEN gw
                       ELSE On(f[i - 1], LAMBDA before :
                               IF Unused(before, gw.list[i])
                               THEN UpnpDeleteRedir(before, victim[i], {}).s ELSE before)
               B(i) == IF i = 0 THEN gw ELSE Turn(f[i - 1], i)
    <2>1. ASSUME NEW i \in 0 .. n PROVE A(i) = B(i)
      <3>1. On(f[i - 1], LAMBDA before :
               IF Unused(before, gw.list[i]) THEN UpnpDeleteRedir(before, victim[i], {}).s
               ELSE before) = Turn(f[i - 1], i)
        <4> DEFINE r == f[i - 1]
        <4> HIDE DEF r
        <4>1. On(r, LAMBDA before :
                 IF Unused(before, gw.list[i]) THEN UpnpDeleteRedir(before, victim[i], {}).s
                 ELSE before) = Turn(r, i)
          BY DEF On
        <4> QED  BY <4>1 DEF r
      <3> QED  BY <3>1
    <2>2. RemovesUnused(f, victim) <=> f = [i \in 0 .. n |-> A(i)]
      BY DEF RemovesUnused
    <2> HIDE DEF A, B, n
    <2>3. [i \in 0 .. n |-> A(i)] = [i \in 0 .. n |-> B(i)]
      BY <2>1
    <2>4. RemovesUnused(f, victim) <=> f = [i \in 0 .. n |-> B(i)]
      BY <2>2, <2>3
    <2> QED  BY <2>4 DEF B
  <1> HIDE DEF n, Turn
  <1>6. g \in [1 .. n -> [W -> W]]
    BY <1>3
  <1>7. PICK f \in [0 .. n -> W] : Applies(f, gw, n, g)
    <2> HIDE DEF g
    <2> QED  BY <1>1, <1>6, StepsExist
  <1>8. RemovesUnused(f, victim)
    <2>1. ASSUME NEW i \in 0 .. n PROVE f[i] = IF i = 0 THEN gw ELSE g[i][f[i - 1]]
      <3> HIDE DEF g
      <3> QED  BY <1>7 DEF Applies
    <2>2. ASSUME NEW i \in 0 .. n PROVE f[i] = IF i = 0 THEN gw ELSE Turn(f[i - 1], i)
      <3>1. CASE i = 0
        <4> HIDE DEF g
        <4> QED  BY <2>1, <3>1
      <3>2. CASE i # 0
        <4>1. i \in 1 .. n /\ f[i - 1] \in W
          BY <1>1, <3>2
        <4> QED  BY <2>1, <3>2, <4>1
      <3> QED  BY <3>1, <3>2
    <2>3. f = [i \in 0 .. n |-> f[i]]
      OBVIOUS
    <2>4. f = [i \in 0 .. n |-> IF i = 0 THEN gw ELSE Turn(f[i - 1], i)]
      BY <2>2, <2>3
    <2> QED  BY <1>5, <2>4
  <1>9. del = [i \in 0 .. n |-> IF i = 0 THEN gw ELSE Turn(del[i - 1], i)]
    BY <1>5, <1>8
  <1> HIDE DEF del
  <1>10. \A i \in 0 .. n : del[i] \in W
    <2>1. del[0] \in W
      <3>1. 0 \in 0 .. n
        BY <1>1
      <3> QED  BY <1>1, <1>9, <3>1
    <2>2. ASSUME NEW i \in 1 .. n, del[i - 1] \in W PROVE del[i] \in W
      <3>1. i \in 0 .. n /\ i # 0
        BY <1>1
      <3>2. del[i] = Turn(del[i - 1], i)
        BY <1>9, <3>1
      <3> QED  BY <1>3, <2>2, <3>2
    <2> QED  BY <1>1, <2>1, <2>2, KeptBySteps
  <1>11. del[n] \in W
    BY <1>1, <1>10
  <1> QED  BY <1>11 DEF del, n

\* What it leaves is whole.
LEMMA UnusedWhole ==
    ASSUME Whole(gw), NEW victim
    PROVE  Whole((CHOOSE f : RemovesUnused(f, victim))[Len(gw.list)])
  <1> DEFINE W == {r \in Gate : Whole(r)}
  <1>1. gw \in W /\ gw \in Gate /\ \A r \in W : Whole(r)
    BY DEF Whole, Good
  <1>2. \A r \in W : \A eport : UpnpDeleteRedir(r, eport, {}).s \in W
    BY DeleteGood DEF Good, Whole
  <1> HIDE DEF W
  <1> QED  BY <1>1, <1>2, RemovesKeeps

-----------------------------------------------------------------------------
(***************************************************************************)
(* The clean-up.                                                           *)
(***************************************************************************)
\* The lease of a mapping ends at a number.
LEMMA TimestampTyped ==
    ASSUME NEW s \in Gate, NEW eport
    PROVE  Timestamp(s, eport) \in Int
  <1> DEFINE i == At(s.desc, eport)
  <1>1. s.desc \in Seq(DescRule)
    BY GateFields
  <1>2. i # 0 => i \in 1 .. Len(s.desc)
    BY <1>1, AtFinds
  <1>3. Timestamp(s, eport) = IF i = 0 THEN 0 ELSE s.desc[i].timestamp
    BY Indices DEF Timestamp
  <1> HIDE DEF i
  <1>4. i # 0 => s.desc[i] \in DescRule
    BY <1>1, <1>2
  <1> QED  BY <1>3, <1>4 DEF DescRule

\* and so does the next clean-up begin.
LEMMA NextTyped ==
    ASSUME NEW s \in Gate, now \in Int, boot \in Int
    PROVE  NextToClean(s) \in Int
  <1> DEFINE times == {Timestamp(s, s.nat[i].eport) : i \in 1 .. Len(s.nat)}
             later == {t \in times : t > UpnpTime}
             above == {t - UpnpTime : t \in later}
  <1>1. NextToClean(s) = IF later = {} THEN 0 ELSE Min(later)
    BY DEF NextToClean
  <1>2. UpnpTime \in Int /\ later \subseteq Int /\ \A t \in later : t > UpnpTime
    BY TimestampTyped DEF UpnpTime
  <1> HIDE DEF later
  <1>3. CASE later # {}
    <2>1. above \subseteq Nat /\ above # {}
      <3>1. ASSUME NEW t \in later PROVE t - UpnpTime \in Nat
        BY <1>2
      <3> QED  BY <1>3, <3>1
    <2>2. PICK m \in above : \A k \in above : m <= k
      BY <2>1, LeastNatural
    <2>3. PICK t \in later : m = t - UpnpTime
      OBVIOUS
    <2>4. \A u \in later : t <= u
      BY <1>2, <2>2, <2>3
    <2>5. Min(later) \in later
      BY <2>4 DEF Min
    <2> QED  BY <1>1, <1>2, <1>3, <2>5
  <1> QED  BY <1>1, <1>3

\* The chain read backwards is a chain.
LEMMA BackwardsTyped ==
    ASSUME NEW s \in Gate
    PROVE  Reverse(s.nat) \in Seq(NatRule)
  <1>1. s.nat \in Seq(NatRule)
    BY GateFields
  <1>2. PICK n \in Nat : n = Len(s.nat)
    BY <1>1
  <1>3. \A i \in 1 .. n : s.nat[(n - i) + 1] \in NatRule
    BY <1>1, <1>2
  <1>4. Reverse(s.nat) = [i \in 1 .. n |-> s.nat[(n - i) + 1]]
    BY <1>2 DEF Reverse
  <1> QED  BY <1>3, <1>4

\* The expired ports are a list of ports.
LEMMA ExpiredTyped ==
    ASSUME NEW s \in Gate
    PROVE  /\ Len(ExpiredPorts(s)) \in Nat
           /\ \A i \in 1 .. Len(ExpiredPorts(s)) :
                ExpiredPorts(s)[i] \in Eports /\ Expired(s, ExpiredPorts(s)[i])
  <1> DEFINE q == Reverse(s.nat)
             seqs == [i \in DOMAIN q |-> IF Expired(s, q[i].eport) THEN <<q[i]>> ELSE <<>>]
             dead == FlattenSeq(seqs)
             ports == [i \in 1 .. Len(dead) |-> dead[i].eport]
  <1>1. q \in Seq(NatRule)
    BY BackwardsTyped
  <1>2. Those(q, LAMBDA e : Expired(s, e.eport)) = dead
    BY DEF Those
  <1>3. ExpiredPorts(s) = On(dead, LAMBDA d : [i \in 1 .. Len(d) |-> d[i].eport])
    BY <1>2 DEF ExpiredPorts
  <1> HIDE DEF q
  <1>4. dead \in Seq(NatRule) /\ \A j \in 1 .. Len(dead) : Expired(s, dead[j].eport)
    <2> DEFINE Gone == {i \in 1 .. Len(q) : ~Expired(s, q[i].eport)}
    <2>1. Picks(seqs, q) /\ \A i \in 1 .. Len(q) : seqs[i] = <<>> <=> i \in Gone
      BY DEF Picks
    <2> HIDE DEF seqs, Gone
    <2>2. dead \in Seq(NatRule) /\ \E f : Thinned(dead, q, f, Gone)
      BY <1>1, <2>1, PicksThinned
    <2> HIDE DEF dead
    <2>3. PICK f : Thinned(dead, q, f, Gone)
      BY <2>2
    <2>4. \A j \in 1 .. Len(dead) : f[j] \in 1 .. Len(q) /\ dead[j] = q[f[j]] /\ f[j] \notin Gone
      BY <2>3 DEF Thinned
    <2>5. \A j \in 1 .. Len(dead) : Expired(s, dead[j].eport)
      BY <2>4 DEF Gone
    <2> QED  BY <2>2, <2>5
  <1> HIDE DEF dead
  <1>5. ExpiredPorts(s) = ports
    BY <1>3 DEF On
  <1>6. Len(dead) \in Nat
    BY <1>4
  <1>7. Len(ports) = Len(dead)
    BY <1>6
  <1>8. \A i \in 1 .. Len(dead) : dead[i] \in NatRule /\ ports[i] = dead[i].eport
    BY <1>4
  <1> HIDE DEF ports
  <1>9. \A i \in 1 .. Len(ports) : ports[i] \in Eports /\ Expired(s, ports[i])
    BY <1>4, <1>7, <1>8 DEF NatRule
  <1> QED  BY <1>5, <1>6, <1>7, <1>9

\* and so is what remains of the chain.
LEMMA StateListTyped ==
    ASSUME NEW s \in Gate, NEW target
    PROVE  StateList(s, target) \in Seq(Entry)
  <1> DEFINE q == Reverse(s.nat)
             seqs == [i \in DOMAIN q |-> IF ~Expired(s, q[i].eport) THEN <<q[i]>> ELSE <<>>]
             alive == FlattenSeq(seqs)
             all == [i \in 1 .. Len(alive) |-> [eport   |-> alive[i].eport,
                                                packets |-> alive[i].packets]]
  <1>1. q \in Seq(NatRule)
    BY BackwardsTyped
  <1>2. Those(q, LAMBDA e : ~Expired(s, e.eport)) = alive
    BY DEF Those
  <1>3. StateList(s, target) = IF Len(alive) <= target THEN <<>> ELSE all
    BY <1>2 DEF StateList
  <1> HIDE DEF q
  <1>4. alive \in Seq(NatRule)
    <2>1. seqs = [i \in DOMAIN q |-> seqs[i]]
      OBVIOUS
    <2>2. \A i \in DOMAIN q : seqs[i] = <<q[i]>> \/ seqs[i] = <<>>
      OBVIOUS
    <2> HIDE DEF seqs
    <2> QED  BY <1>1, <2>1, <2>2, PickedOnes DEF Picks
  <1> HIDE DEF alive
  <1>5. PICK n \in Nat : n = Len(alive)
    BY <1>4
  <1>6. \A i \in 1 .. n : alive[i] \in NatRule
    BY <1>4, <1>5
  <1>7. \A x \in NatRule : [eport |-> x.eport, packets |-> x.packets] \in Entry
    BY DEF NatRule, Entry
  <1>8. \A i \in 1 .. n : all[i] \in Entry
    BY <1>5, <1>6, <1>7
  <1>9. all \in Seq(Entry)
    BY <1>5, <1>8
  <1> QED  BY <1>3, <1>9

\* get_upnp_rules_state_list() deletes ports.
LEMMA SweptGood ==
    ASSUME NEW s, Good(s), NEW at, NEW fails, now \in Int, boot \in Int
    PROVE  /\ Good(Swept(s, at, fails))
           /\ fails = {} /\ Whole(s) => Whole(Swept(s, at, fails))
  <1> DEFINE r == [s EXCEPT !.next = NextToClean(s)]
             dead == ExpiredPorts(s)
  <1>1. s \in Gate
    BY DEF Good
  <1>2. NextToClean(s) \in Int /\ Len(dead) \in Nat
    BY <1>1, NextTyped, ExpiredTyped
  <1>3. Swept(s, at, fails) = On(dead, LAMBDA d : DeleteEach(r, d, at, fails))
    BY DEF Swept
  <1>4. Same(r, s)
    BY <1>1, <1>2, GateFields
  <1> HIDE DEF r, dead
  <1>5. Swept(s, at, fails) = DeleteEach(r, dead, at, fails)
    BY <1>3 DEF On
  <1>6. Good(r) /\ (Whole(s) => Whole(r))
    BY <1>4, SameIsGood
  <1> QED  BY <1>2, <1>5, <1>6, DeleteEachGood

-----------------------------------------------------------------------------
(***************************************************************************)
(* Handlers that run to their end or die on the way.                       *)
(***************************************************************************)
\* No step fails by itself, and a daemon that can die in a handler starts
\* again in empty chains
Sound == Faults = "none" \/ (Faults = "crash" /\ ~Keeps)

\* A handler does all of its steps, or the daemon dies in it.
LEMMA AllOrDies ==
    ASSUME Sound, NEW steps, NEW fails \in FaultSets(steps)
    PROVE  fails = {} \/ (Dies(fails) /\ ~Keeps)
  BY DEF Sound, FaultSets, Dies

\* A daemon that dies before upnp_redirect() has looked for the port adds no rule,
\* and one that dies before it has removed a line of the lease file adds none.
LEMMA StepsInOrder ==
    ASSUME Sound, NEW s, NEW m, NEW fails \in FaultSets(RedirectSteps(s, m))
    PROVE  ("get" \in fails => "nat" \in fails) /\ ("unlease" \in fails => "lease" \in fails)
  <1> DEFINE steps == RedirectSteps(s, m)
             Before(x, y) == \A j \in 1 .. Len(steps) :
                                steps[j] = x => \E k \in j .. Len(steps) : steps[k] = y
  <1>1. Len(steps) \in Nat /\ Before("get", "nat") /\ Before("unlease", "lease")
    <2>1. CASE NatIndex(s, m.eport) = 0
      <3> DEFINE q == <<"get", "nat", "post", "lease", "filter">>
      <3>1. steps = q
        BY <2>1 DEF RedirectSteps
      <3>2. /\ Len(q) = 5 /\ q[1] = "get" /\ q[2] = "nat" /\ q[3] = "post"
            /\ q[4] = "lease" /\ q[5] = "filter"
        OBVIOUS
      <3> HIDE DEF q
      <3>3. \A j \in 1 .. 5 : j = 1 \/ j = 2 \/ j = 3 \/ j = 4 \/ j = 5
        OBVIOUS
      <3>4. \A j \in 1 .. 5 : (q[j] = "get" => j = 1) /\ q[j] # "unlease"
        BY <3>2, <3>3
      <3>5. 2 \in 1 .. 5
        OBVIOUS
      <3> QED  BY <3>1, <3>2, <3>4, <3>5
    <2>2. CASE NatIndex(s, m.eport) # 0
      <3> DEFINE q == <<"get", "nat", "filter", "post", "nat2", "filter2", "post2",
                        "unlease", "lease">>
      <3>1. steps = q
        BY <2>2 DEF RedirectSteps
      <3>2. /\ Len(q) = 9 /\ q[1] = "get" /\ q[2] = "nat" /\ q[3] = "filter"
            /\ q[4] = "post" /\ q[5] = "nat2" /\ q[6] = "filter2" /\ q[7] = "post2"
            /\ q[8] = "unlease" /\ q[9] = "lease"
        OBVIOUS
      <3> HIDE DEF q
      <3>3. \A j \in 1 .. 9 : \/ j = 1 \/ j = 2 \/ j = 3 \/ j = 4 \/ j = 5
                              \/ j = 6 \/ j = 7 \/ j = 8 \/ j = 9
        OBVIOUS
      <3>4. \A j \in 1 .. 9 : (q[j] = "get" => j = 1) /\ (q[j] = "unlease" => j = 8)
        BY <3>2, <3>3
      <3>5. 2 \in 1 .. 9 /\ 9 \in 8 .. 9
        OBVIOUS
      <3> QED  BY <3>1, <3>2, <3>4, <3>5
    <2> QED  BY <2>1, <2>2
  <1> HIDE DEF steps
  <1>2. fails \in FaultSets(steps)
    BY DEF steps
  <1>3. ASSUME NEW x, NEW y, Before(x, y), x \in fails PROVE y \in fails
    <2>1. Faults = "crash" /\ fails # {}
      BY <1>2, <1>3, AllOrDies DEF Dies
    <2>2. PICK i \in 1 .. Len(steps) : fails = {steps[j] : j \in i .. Len(steps)}
      BY <1>2, <2>1 DEF FaultSets
    <2>3. PICK j \in i .. Len(steps) : steps[j] = x
      BY <1>3, <2>2
    <2>4. PICK k \in j .. Len(steps) : steps[k] = y
      BY <1>1, <1>3, <2>3
    <2>5. k \in i .. Len(steps)
      BY <1>1
    <2> QED  BY <2>2, <2>4, <2>5
  <1> HIDE DEF Before
  <1> QED  BY <1>1, <1>3

\* The daemon's memory is gone, and with it all descriptions.
LEMMA ForgottenGood ==
    ASSUME NEW s, Good(s)
    PROVE  /\ Good(Forgotten(s)) /\ (Whole(s) => Whole(Forgotten(s)))
           /\ Forgotten(s).desc = <<>>
  <1> DEFINE r == Forgotten(s)
  <1>1. s \in Gate
    BY DEF Good
  <1>2. r.nat = s.nat /\ r.post = s.post /\ r.desc = <<>> /\ r \in Gate
    <2>0. <<>> \in Seq(DescRule) /\ <<>> \in Seq(Entry)
      OBVIOUS
    <2>1. PICK d \in Seq(DescRule) : d = <<>>
      BY <2>0, Zenon
    <2>2. PICK l \in Seq(Entry) : l = <<>>
      BY <2>0, Zenon
    <2>3. PICK n \in Int : n = 0
      OBVIOUS
    <2> DEFINE a == [s EXCEPT !.desc = d]
               b == [a EXCEPT !.next = n]
               c == [b EXCEPT !.list = l]
    <2>4. r = c
      BY <2>1, <2>2, <2>3 DEF Forgotten
    <2>5. a \in Gate /\ a.nat = s.nat /\ a.desc = d /\ a.post = s.post
      BY <1>1, GateFields
    <2> HIDE DEF a
    <2>6. Same(b, a)
      BY <2>5, GateFields
    <2> HIDE DEF b
    <2>7. Same(c, b)
      BY <2>6, GateFields DEF Same
    <2> HIDE DEF c, r
    <2> QED  BY <2>1, <2>4, <2>5, <2>6, <2>7 DEF Same
  <1>3. Ones(r.desc) /\ \A e : ~Has(r.desc, e)
    BY <1>2 DEF Ones, Has
  <1> HIDE DEF r
  <1>4. Good(r) /\ (Whole(s) => Whole(r))
    BY <1>2, <1>3 DEF Good, Whole
  <1> QED  BY <1>2, <1>4 DEF r

-----------------------------------------------------------------------------
(***************************************************************************)
(* The inductive invariant.                                                *)
(***************************************************************************)
RInv == /\ now \in Int /\ boot \in Int
        /\ pending \in Seq(FileLine)
        /\ Good(gw)
        /\ Whole(gw) \/ (phase = "down" /\ ~Keeps)
        /\ phase = "down" => gw.desc = <<>>

\* The end of a handler.
LEMMA EndsKeeps ==
    ASSUME RInv, phase # "down", pending' \in Seq(FileLine), NEW s, NEW fails, Ends(s, fails),
           Good(s), fails = {} => Whole(s), fails = {} \/ (Dies(fails) /\ ~Keeps)
    PROVE  RInv'
  <1>1. now' \in Int /\ boot' \in Int
    BY DEF RInv, Ends
  <1>2. CASE Dies(fails)
    <2>1. gw' = Forgotten(s) /\ phase' = "down"
      BY <1>2 DEF Ends
    <2>2. ~Keeps
      BY <1>2 DEF Dies
    <2> QED  BY <1>1, <2>1, <2>2, ForgottenGood DEF RInv
  <1>3. CASE ~Dies(fails)
    <2>1. gw' = s /\ phase' = phase
      BY <1>3 DEF Ends
    <2>2. Whole(s)
      BY <1>3
    <2> QED  BY <1>1, <2>1, <2>2 DEF RInv
  <1> QED  BY <1>2, <1>3

\* The daemon starts in empty chains.
LEMMA InitRInv == Init => RInv
  <1> SUFFICES ASSUME Init PROVE RInv
    OBVIOUS
  <1>1. gw \in Gate /\ gw.nat = <<>> /\ gw.desc = <<>> /\ gw.post = <<>>
    BY DEF Init, Gate
  <1>2. Whole(gw)
    BY <1>1 DEF Whole, Good, Ones, Has
  <1> QED  BY <1>2 DEF RInv, Whole, Init

\* AddPortMapping finds the port or adds it.
LEMMA AddKeeps ==
    ASSUME Sound, RInv, NEW m \in NatRule, NEW duration \in Int, AddPortMapping(m, duration)
    PROVE  RInv'
  <1>1. PICK fails \in FaultSets(RedirectSteps(gw, m)) :
            Ends(UpnpRedirect(gw, m, duration, fails).s, fails)
    BY DEF AddPortMapping
  <1>2. phase # "down" /\ pending' \in Seq(FileLine)
    BY DEF AddPortMapping, RInv
  <1>3. fails = {} \/ (Dies(fails) /\ ~Keeps)
    BY AllOrDies
  <1>4. "get" \in fails => "nat" \in fails
    BY StepsInOrder
  <1>5. Whole(gw) /\ now \in Int /\ boot \in Int
    BY <1>2 DEF RInv
  <1>6. Whole(UpnpRedirect(gw, m, duration, fails).s)
    BY <1>4, <1>5, RedirectWhole
  <1>7. Good(UpnpRedirect(gw, m, duration, fails).s)
    BY <1>6 DEF Whole
  <1> QED  BY <1>1, <1>2, <1>3, <1>6, <1>7, EndsKeeps

\* DeletePortMapping.
LEMMA DeleteKeeps ==
    ASSUME Sound, RInv, NEW eport, DeletePortMapping(eport)
    PROVE  RInv'
  <1>1. PICK fails \in FaultSets(DeleteSteps) : Ends(UpnpDeleteRedir(gw, eport, fails).s, fails)
    BY DEF DeletePortMapping
  <1>2. phase # "down" /\ pending' \in Seq(FileLine)
    BY DEF DeletePortMapping, RInv
  <1>3. fails = {} \/ (Dies(fails) /\ ~Keeps)
    BY AllOrDies
  <1>4. Good(gw) /\ Whole(gw)
    BY <1>2 DEF RInv
  <1>5. /\ Good(UpnpDeleteRedir(gw, eport, fails).s)
        /\ fails = {} => Whole(UpnpDeleteRedir(gw, eport, fails).s)
    BY <1>4, DeleteGood
  <1> QED  BY <1>1, <1>2, <1>3, <1>5, EndsKeeps

\* DeletePortMappingRange.
LEMMA DeleteRangeKeeps ==
    ASSUME Sound, RInv, NEW from, NEW to, DeletePortMappingRange(from, to)
    PROVE  RInv'
  <1> DEFINE q == gw.nat
             seqs == [i \in DOMAIN q |-> IF q[i].eport \in from .. to THEN <<q[i]>> ELSE <<>>]
             inRange == FlattenSeq(seqs)
             eports == [i \in 1 .. Len(inRange) |-> inRange[i].eport]
  <1>1. Those(gw.nat, LAMBDA e : e.eport \in from .. to) = inRange
    BY DEF Those
  <1>2. PICK at \in 1 .. Len(eports), fails \in FaultSets(DeleteSteps) :
            Ends(DeleteEach(gw, eports, at, fails), fails)
    BY <1>1 DEF DeletePortMappingRange
  <1>3. phase # "down" /\ pending' \in Seq(FileLine)
    BY DEF DeletePortMappingRange, RInv
  <1>4. fails = {} \/ (Dies(fails) /\ ~Keeps)
    BY AllOrDies
  <1>5. Good(gw) /\ Whole(gw) /\ gw \in Gate
    BY <1>3 DEF RInv, Good
  <1>6. q \in Seq(NatRule)
    BY <1>5, GateFields
  <1> HIDE DEF q
  <1>7. inRange \in Seq(NatRule)
    <2>1. seqs = [i \in DOMAIN q |-> seqs[i]]
      OBVIOUS
    <2>2. \A i \in DOMAIN q : seqs[i] = <<q[i]>> \/ seqs[i] = <<>>
      OBVIOUS
    <2> HIDE DEF seqs
    <2> QED  BY <1>6, <2>1, <2>2, PickedOnes DEF Picks
  <1> HIDE DEF inRange
  <1>8. Len(eports) \in Nat
    <2>1. Len(inRange) \in Nat
      BY <1>7
    <2> QED  BY <2>1
  <1> HIDE DEF eports
  <1>9. /\ Good(DeleteEach(gw, eports, at, fails))
        /\ fails = {} => Whole(DeleteEach(gw, eports, at, fails))
    BY <1>5, <1>8, DeleteEachGood
  <1> QED  BY <1>2, <1>3, <1>4, <1>9, EndsKeeps

\* The clean-up when a lease has ended.
LEMMA CleanKeeps ==
    ASSUME Sound, RInv, CleanExpired
    PROVE  RInv'
  <1>1. PICK at \in Places(gw), fails \in FaultSets(DeleteSteps) : Ends(Swept(gw, at, fails), fails)
    BY DEF CleanExpired
  <1>2. phase # "down" /\ pending' \in Seq(FileLine)
    BY DEF CleanExpired, RInv
  <1>3. fails = {} \/ (Dies(fails) /\ ~Keeps)
    BY AllOrDies
  <1>4. Good(gw) /\ Whole(gw) /\ now \in Int /\ boot \in Int
    BY <1>2 DEF RInv
  <1>5. Good(Swept(gw, at, fails)) /\ (fails = {} => Whole(Swept(gw, at, fails)))
    BY <1>4, SweptGood
  <1> QED  BY <1>1, <1>2, <1>3, <1>5, EndsKeeps

\* The list of the rules that clean_ruleset_interval asks for.
LEMMA ListKeeps ==
    ASSUME Sound, RInv, ListRules
    PROVE  RInv'
  <1>1. PICK at \in Places(gw), fails \in FaultSets(DeleteSteps) :
            Ends([Swept(gw, at, fails) EXCEPT !.list = StateList(gw, Threshold)], fails)
    BY DEF ListRules
  <1> DEFINE s == Swept(gw, at, fails)
             l == StateList(gw, Threshold)
             r == [s EXCEPT !.list = l]
  <1>2. phase # "down" /\ pending' \in Seq(FileLine)
    BY DEF ListRules, RInv
  <1>3. fails = {} \/ (Dies(fails) /\ ~Keeps)
    BY AllOrDies
  <1>4. Good(gw) /\ Whole(gw) /\ now \in Int /\ boot \in Int /\ gw \in Gate
    BY <1>2 DEF RInv, Good
  <1>5. Good(s) /\ (fails = {} => Whole(s)) /\ s \in Gate
    BY <1>4, SweptGood DEF Good
  <1>6. l \in Seq(Entry)
    BY <1>4, StateListTyped
  <1> HIDE DEF s, l
  <1>7. Same(r, s)
    BY <1>5, <1>6, GateFields
  <1>8. Good(r) /\ (fails = {} => Whole(r))
    BY <1>5, <1>7, SameIsGood
  <1>9. Ends(r, fails)
    BY <1>1 DEF s, l
  <1> HIDE DEF r
  <1> QED  BY <1>2, <1>3, <1>8, <1>9, EndsKeeps

\* The clean-up of the rules that count nothing, whichever ports it deletes.
LEMMA UnusedKeeps ==
    ASSUME RInv, NEW victim, RemoveUnusedRules(victim)
    PROVE  RInv'
  <1> DEFINE s == (CHOOSE f : RemovesUnused(f, victim))[Len(gw.list)]
  <1>1. Ends([s EXCEPT !.list = <<>>], {})
    BY DEF RemoveUnusedRules, RemovesUnused
  <1>2. phase # "down" /\ pending' \in Seq(FileLine)
    BY DEF RemoveUnusedRules, RInv
  <1>3. Whole(s)
    BY <1>2, UnusedWhole DEF RInv
  <1> HIDE DEF s
  <1>4. <<>> \in Seq(Entry)
    OBVIOUS
  <1>5. PICK l \in Seq(Entry) : l = <<>>
    BY <1>4, Zenon
  <1> DEFINE r == [s EXCEPT !.list = l]
  <1>6. Same(r, s)
    BY <1>3, GateFields DEF Whole, Good
  <1>7. Ends(r, {})
    BY <1>1, <1>5
  <1> HIDE DEF r
  <1>8. Whole(r) /\ Good(r)
    BY <1>3, <1>6, SameIsGood DEF Whole
  <1> QED  BY <1>2, <1>7, <1>8, EndsKeeps

\* A packet is counted.
LEMMA PacketKeeps ==
    ASSUME RInv, NEW eport, Packet(eport)
    PROVE  RInv'
  <1> DEFINE i == At(gw.nat, eport)
             x == [gw.nat[i] EXCEPT !.packets = @ + 1]
             w == [gw.nat EXCEPT ![i] = x]
             r == [gw EXCEPT !.nat = w]
  <1>1. gw \in Gate /\ gw.nat \in Seq(NatRule)
    BY GateFields DEF RInv, Good
  <1>2. i # 0 /\ gw' = [gw EXCEPT !.nat[i].packets = @ + 1]
        /\ UNCHANGED <<phase, pending, now, boot>>
    BY Indices DEF Packet
  <1>3. i \in 1 .. Len(gw.nat)
    BY <1>1, <1>2, AtFinds
  <1> HIDE DEF i
  <1>4. gw' = r
    BY <1>2
  <1>5. gw.nat[i] \in NatRule
    BY <1>1, <1>3
  <1>6. x \in NatRule /\ x.eport = gw.nat[i].eport
    BY <1>5 DEF NatRule
  <1> HIDE DEF x
  <1>7. /\ w \in Seq(NatRule) /\ (Ones(gw.nat) => Ones(w))
        /\ \A e : Has(w, e) <=> Has(gw.nat, e)
    BY <1>1, <1>3, <1>6, ChangeOne
  <1> HIDE DEF w
  <1>8. r \in Gate /\ r.nat = w /\ r.desc = gw.desc /\ r.post = gw.post
    BY <1>1, <1>7, GateFields
  <1> HIDE DEF r
  <1>9. (Good(gw) => Good(r)) /\ (Whole(gw) => Whole(r))
    BY <1>7, <1>8 DEF Good, Whole
  <1> QED  BY <1>2, <1>4, <1>8, <1>9 DEF RInv

\* The daemon stops.
LEMMA StopKeeps ==
    ASSUME RInv, Stop
    PROVE  RInv'
  <1>1. /\ phase # "down" /\ phase' = "down" /\ gw' = Forgotten(gw)
        /\ now' = now /\ boot' = boot /\ pending' = <<>>
    BY DEF Stop
  <1>2. pending' \in Seq(FileLine)
    BY <1>1
  <1>3. Good(gw) /\ Whole(gw)
    BY <1>1 DEF RInv
  <1>4. Good(gw') /\ Whole(gw') /\ gw'.desc = <<>>
    BY <1>1, <1>3, ForgottenGood
  <1> QED  BY <1>1, <1>2, <1>4 DEF RInv

\* The daemon starts, in empty chains or in the whole ones it has left.
LEMMA StartKeeps ==
    ASSUME RInv, NEW flushed \in BOOLEAN, NEW rebooted \in BOOLEAN, Start(flushed, rebooted)
    PROVE  RInv'
  <1>1. /\ phase = "down" /\ phase' = "reload" /\ (~Keeps => flushed)
        /\ now' = now /\ pending' = gw.lease
    BY DEF Start
  <1>2. Good(gw) /\ gw \in Gate /\ gw.desc = <<>> /\ now \in Int /\ boot \in Int
    BY <1>1 DEF RInv, Good
  <1>3. boot' \in Int
    BY <1>2 DEF Start
  <1>4. pending' \in Seq(FileLine)
    BY <1>1, <1>2, GateFields
  <1>5. <<>> \in Seq(NatRule) /\ <<>> \in Seq(FilterRule) /\ <<>> \in Seq(PostRule)
        /\ <<>> \in Seq(FileLine)
    OBVIOUS
  <1>6. PICK n \in Seq(NatRule) : n = <<>>
    BY <1>5, Zenon
  <1>7. PICK f \in Seq(FilterRule) : f = <<>>
    BY <1>5, Zenon
  <1>8. PICK p \in Seq(PostRule) : p = <<>>
    BY <1>5, Zenon
  <1>9. PICK l \in Seq(FileLine) : l = <<>>
    BY <1>5, Zenon
  <1> DEFINE a == [gw EXCEPT !.nat = n]
             b == [a EXCEPT !.filter = f]
             c == [b EXCEPT !.post = p]
             kept == IF flushed THEN c ELSE gw
             r == [kept EXCEPT !.lease = l]
  <1>10. gw' = r
    BY <1>6, <1>7, <1>8, <1>9 DEF Start
  <1>11. Whole(kept)
    <2>1. CASE flushed
      <3>1. a \in Gate /\ a.nat = n /\ a.desc = gw.desc
        BY <1>2, GateFields
      <3> HIDE DEF a
      <3>2. Same(b, a)
        BY <3>1, GateFields
      <3> HIDE DEF b
      <3>3. c \in Gate /\ c.nat = b.nat /\ c.desc = b.desc /\ c.post = p
        BY <3>2, GateFields DEF Same
      <3> HIDE DEF c
      <3>4. c \in Gate /\ c.nat = <<>> /\ c.desc = <<>> /\ c.post = <<>>
        BY <1>2, <1>6, <1>8, <3>1, <3>2, <3>3 DEF Same
      <3>5. Whole(c)
        BY <3>4 DEF Whole, Good, Ones, Has
      <3> QED  BY <2>1, <3>5
    <2>2. CASE ~flushed
      <3>1. Whole(gw)
        BY <1>1, <2>2 DEF RInv
      <3> QED  BY <2>2, <3>1
    <2> QED  BY <2>1, <2>2
  <1> HIDE DEF kept
  <1>12. Same(r, kept)
    BY <1>11, GateFields DEF Whole, Good
  <1> HIDE DEF r
  <1>13. Whole(r) /\ Good(r)
    BY <1>11, <1>12, SameIsGood DEF Whole
  <1> QED  BY <1>1, <1>2, <1>3, <1>4, <1>10, <1>13 DEF RInv

\* A line of the lease file is a mapping again, or not.
LEMMA ReloadKeeps ==
    ASSUME Sound, RInv, ReloadLine
    PROVE  RInv'
  <1> DEFINE l == Head(pending)
             m == Reloaded(l)
             duration == IF l.timestamp = 0 THEN 0 ELSE l.timestamp - now
             ts == IF duration = 0 THEN 0 ELSE UpnpTime + duration
             out == UpnpRedirect(gw, m, duration, {})
             r == IF out.r = -2 THEN LeaseAdd(out.s, m, ts, {}) ELSE out.s
  <1>1. phase = "reload" /\ pending # <<>> /\ pending' = Tail(pending)
    BY DEF ReloadLine
  <1>2. Ends(gw, {}) \/ Ends(r, {})
    BY DEF ReloadLine, Sound
  <1>3. Whole(gw) /\ Good(gw) /\ now \in Int /\ boot \in Int /\ pending \in Seq(FileLine)
    BY <1>1 DEF RInv
  <1>4. l \in FileLine /\ pending' \in Seq(FileLine)
    BY <1>1, <1>3
  <1> HIDE DEF l
  <1>5. m \in NatRule
    BY <1>4, HostAssumption DEF Reloaded, FileLine, NatRule
  <1>6. duration \in Int
    BY <1>3, <1>4 DEF FileLine
  <1>7. ts \in Int
    <2> HIDE DEF duration
    <2> QED  BY <1>3, <1>6 DEF UpnpTime
  <1> HIDE DEF m, duration, ts
  <1>8. Whole(out.s)
    BY <1>3, <1>5, <1>6, RedirectWhole
  <1> HIDE DEF out
  <1>9. Same(LeaseAdd(out.s, m, ts, {}), out.s)
    BY <1>3, <1>5, <1>7, <1>8, LeaseAddSame DEF Whole, Good
  <1>10. Whole(r) /\ Good(r)
    BY <1>8, <1>9, SameIsGood DEF Whole
  <1> HIDE DEF r
  <1>11. phase # "down"
    BY <1>1
  <1> QED  BY <1>2, <1>3, <1>4, <1>10, <1>11, EndsKeeps

\* Every step keeps the invariant.
LEMMA NextRInv ==
    ASSUME Sound, RInv, [Next]_vars
    PROVE  RInv'
  <1>1. ASSUME NEW e \in Eports, NEW a \in Iaddrs, NEW p \in Iports, NEW h \in Rhosts,
               NEW d \in Leases,
               AddPortMapping([eport |-> e, iaddr |-> a, iport |-> p, rhost |-> h,
                               packets |-> 0], d)
        PROVE  RInv'
    <2>1. [eport |-> e, iaddr |-> a, iport |-> p, rhost |-> h, packets |-> 0] \in NatRule
      BY DEF NatRule
    <2>2. d \in Int
      BY LeasesAssumption
    <2> QED  BY <1>1, <2>1, <2>2, AddKeeps
  <1>2. CASE \E e \in Eports : DeletePortMapping(e)
    BY <1>2, DeleteKeeps
  <1>3. CASE \E from, to \in Eports : from <= to /\ DeletePortMappingRange(from, to)
    BY <1>3, DeleteRangeKeeps
  <1>4. CASE CleanUp
    <2>1. CASE CleanExpired
      BY <2>1, CleanKeeps
    <2>2. CASE ListRules
      BY <2>2, ListKeeps
    <2>3. CASE \E victim \in [1 .. Len(gw.list) -> Eports] : RemoveUnusedRules(victim)
      BY <2>3, UnusedKeeps
    <2> QED  BY <1>4, <2>1, <2>2, <2>3 DEF CleanUp
  <1>5. CASE \E e \in Eports : Packet(e)
    BY <1>5, PacketKeeps
  <1>6. CASE Stop
    BY <1>6, StopKeeps
  <1>7. CASE \E flushed, rebooted \in BOOLEAN : Start(flushed, rebooted)
    BY <1>7, StartKeeps
  <1>8. CASE ReloadLine
    BY <1>8, ReloadKeeps
  <1>9. CASE ReloadDone
    BY <1>9 DEF ReloadDone, RInv
  <1>10. CASE Tick
    BY <1>10 DEF Tick, RInv
  <1>11. CASE UNCHANGED vars
    BY <1>11 DEF vars, RInv
  <1>12. CASE Requests
    BY <1>1, <1>2, <1>3, <1>12 DEF Requests
  <1> QED  BY <1>4, <1>5, <1>6, <1>7, <1>8, <1>9, <1>10, <1>11, <1>12 DEF Next, Reload

\* A list without a port twice has one position of it at most.
LEMMA OnesCounted ==
    ASSUME NEW q, Ones(q), NEW e
    PROVE  Cardinality({i \in 1 .. Len(q) : q[i].eport = e}) <= 1
  <1> DEFINE I == {i \in 1 .. Len(q) : q[i].eport = e}
  <1>1. CASE I = {}
    <2>1. Cardinality(I) = 0
      BY <1>1, FS_EmptySet
    <2> QED  BY <2>1
  <1>2. CASE I # {}
    <2>1. PICK i \in I : TRUE
      BY <1>2
    <2>2. I = {i}
      BY <2>1 DEF Ones
    <2>3. Cardinality(I) = 1
      BY <2>2, FS_Singleton
    <2> QED  BY <2>3
  <1> QED  BY <1>1, <1>2

\* A port has one DNAT rule at most, one description and one MASQUERADE rule
\* (iptcrdr.c searches for the first of each), when no step fails by itself and
\* a daemon that can die in a handler finds empty chains when it starts again.
THEOREM OneRule == Sound => (Spec => []OneRulePerPort)
  <1> SUFFICES ASSUME Sound PROVE Spec => []OneRulePerPort
    OBVIOUS
  <1>1. Init => RInv
    BY InitRInv
  <1>2. RInv /\ [Next]_vars => RInv'
    BY NextRInv
  <1>3. RInv => OneRulePerPort
    <2> SUFFICES ASSUME RInv, NEW e \in Eports
                 PROVE  /\ Cardinality(Positions(gw.nat, LAMBDA x : x.eport = e)) <= 1
                        /\ Cardinality(Positions(gw.desc, LAMBDA x : x.eport = e)) <= 1
                        /\ Cardinality(Positions(gw.post, LAMBDA x : x.eport = e)) <= 1
      BY DEF OneRulePerPort
    <2>1. Ones(gw.nat) /\ Ones(gw.desc) /\ Ones(gw.post)
      BY DEF RInv, Good
    <2> QED  BY <2>1, OnesCounted DEF Positions
  <1> QED  BY <1>1, <1>2, <1>3, PTL DEF Spec

-----------------------------------------------------------------------------
(***************************************************************************)
(* The three chains agree: how many rules of a chain lead to an internal   *)
(* address and port.                                                       *)
(***************************************************************************)
To(x, a, p) == x.iaddr = a /\ x.iport = p

Leading(q, a, p) == {i \in 1 .. Len(q) : To(q[i], a, p)}

Count(q, a, p) == Cardinality(Leading(q, a, p))

One(x, a, p) == IF To(x, a, p) THEN 1 ELSE 0

\* It is a number, and leaving out one place makes the difference of one rule.
LEMMA CountTyped ==
    ASSUME NEW T, NEW q \in Seq(T), NEW a, NEW p
    PROVE  /\ IsFiniteSet(Leading(q, a, p)) /\ Count(q, a, p) \in Nat
           /\ \A i \in 1 .. Len(q) : /\ IsFiniteSet(Leading(q, a, p) \ {i})
                                     /\ Cardinality(Leading(q, a, p) \ {i}) \in Nat
                                     /\ Count(q, a, p) = Cardinality(Leading(q, a, p) \ {i})
                                                           + One(q[i], a, p)
  <1> DEFINE I == Leading(q, a, p)
  <1>1. IsFiniteSet(1 .. Len(q)) /\ I \in SUBSET (1 .. Len(q))
    BY PlacesCounted DEF Leading
  <1>2. IsFiniteSet(I)
    BY <1>1, FS_Subset
  <1>3. Cardinality(I) \in Nat
    BY <1>2, FS_CardinalityType
  <1>4. ASSUME NEW i \in 1 .. Len(q)
        PROVE  /\ IsFiniteSet(I \ {i}) /\ Cardinality(I \ {i}) \in Nat
               /\ Cardinality(I) = Cardinality(I \ {i}) + One(q[i], a, p)
    <2>1. i \in I <=> To(q[i], a, p)
      BY DEF Leading
    <2> HIDE DEF I
    <2>2. /\ IsFiniteSet(I \ {i})
          /\ Cardinality(I \ {i}) = IF i \in I THEN Cardinality(I) - 1 ELSE Cardinality(I)
      BY <1>2, FS_RemoveElement
    <2>3. Cardinality(I \ {i}) \in Nat
      BY <2>2, FS_CardinalityType
    <2> QED  BY <1>3, <2>1, <2>2, <2>3 DEF One
  <1> QED  BY <1>2, <1>3, <1>4 DEF Count

\* A rule is added at the end.
LEMMA CountAppend ==
    ASSUME NEW T, NEW q \in Seq(T), NEW x \in T, NEW a, NEW p
    PROVE  Count(Append(q, x), a, p) = Count(q, a, p) + One(x, a, p)
  <1> DEFINE w == Append(q, x)
  <1>1. PICK n \in Nat : n = Len(q)
    OBVIOUS
  <1>2. /\ w \in Seq(T) /\ Len(w) = n + 1 /\ w[n + 1] = x /\ \A i \in 1 .. n : w[i] = q[i]
        /\ n + 1 \in 1 .. Len(w)
    BY <1>1
  <1> HIDE DEF w
  <1>3. Leading(w, a, p) \ {n + 1} = Leading(q, a, p)
    <2>1. \A i : i \in 1 .. n <=> i \in 1 .. n + 1 /\ i # n + 1
      OBVIOUS
    <2> QED  BY <1>1, <1>2, <2>1 DEF Leading
  <1>4. Count(w, a, p) = Cardinality(Leading(w, a, p) \ {n + 1}) + One(w[n + 1], a, p)
    BY <1>2, CountTyped
  <1> QED  BY <1>2, <1>3, <1>4 DEF Count, w

\* A rule is changed.
LEMMA CountChange ==
    ASSUME NEW T, NEW q \in Seq(T), NEW i \in 1 .. Len(q), NEW x \in T, NEW a, NEW p
    PROVE  Count([q EXCEPT ![i] = x], a, p) = Count(q, a, p) - One(q[i], a, p) + One(x, a, p)
  <1> DEFINE w == [q EXCEPT ![i] = x]
             c == Cardinality(Leading(q, a, p) \ {i})
  <1>1. /\ w \in Seq(T) /\ Len(w) = Len(q) /\ w[i] = x /\ i \in 1 .. Len(w)
        /\ \A j \in 1 .. Len(q) : j # i => w[j] = q[j]
    OBVIOUS
  <1> HIDE DEF w
  <1>2. Leading(w, a, p) \ {i} = Leading(q, a, p) \ {i}
    BY <1>1 DEF Leading
  <1>3. c \in Nat /\ Count(q, a, p) = c + One(q[i], a, p)
    BY CountTyped
  <1>4. Count(w, a, p) = Cardinality(Leading(w, a, p) \ {i}) + One(w[i], a, p)
    BY <1>1, CountTyped
  <1>5. Count(w, a, p) = c + One(x, a, p)
    BY <1>1, <1>2, <1>4
  <1>6. One(q[i], a, p) \in Nat /\ One(x, a, p) \in Nat
    BY DEF One
  <1> HIDE DEF c
  <1> QED  BY <1>3, <1>5, <1>6 DEF w

\* A rule is taken out.
LEMMA CountCut ==
    ASSUME NEW T, NEW q \in Seq(T), NEW i \in 1 .. Len(q), NEW a, NEW p
    PROVE  Count(RemoveAt(q, i), a, p) = Count(q, a, p) - One(q[i], a, p)
  <1> DEFINE w == RemoveAt(q, i)
             A == Leading(w, a, p)
             B == Leading(q, a, p) \ {i}
  <1>1. w \in Seq(T) /\ \E f : Thinned(w, q, f, {i})
    BY CutThinned
  <1>2. PICK f : Thinned(w, q, f, {i})
    BY <1>1
  <1> HIDE DEF w
  <1>3. /\ \A j \in 1 .. Len(w) : f[j] \in 1 .. Len(q) /\ w[j] = q[f[j]] /\ f[j] # i
        /\ \A j, k \in 1 .. Len(w) : f[j] = f[k] => j = k
        /\ \A m \in 1 .. Len(q) : m # i => \E j \in 1 .. Len(w) : f[j] = m
    BY <1>2 DEF Thinned
  <1> DEFINE g == [j \in A |-> f[j]]
  <1>4. g \in [A -> B]
    <2>1. \A j \in A : f[j] \in B
      BY <1>3 DEF Leading
    <2> QED  BY <2>1
  <1>5. \A j, k \in A : g[j] = g[k] => j = k
    BY <1>3 DEF Leading
  <1>6. \A m \in B : \E j \in A : g[j] = m
    <2> SUFFICES ASSUME NEW m \in B PROVE \E j \in A : g[j] = m
      OBVIOUS
    <2>1. m \in 1 .. Len(q) /\ m # i /\ To(q[m], a, p)
      BY DEF Leading
    <2>2. PICK j \in 1 .. Len(w) : f[j] = m
      BY <1>3, <2>1
    <2>3. j \in A
      BY <1>3, <2>1, <2>2 DEF Leading
    <2> QED  BY <2>2, <2>3
  <1> HIDE DEF g, A, B
  <1>7. ExistsBijection(A, B)
    BY <1>4, <1>5, <1>6 DEF ExistsBijection, Bijection, Injection, Surjection, IsInjective
  <1>8. IsFiniteSet(A)
    BY <1>1, CountTyped DEF A
  <1>9. Cardinality(B) = Cardinality(A)
    BY <1>7, <1>8, FS_Bijection
  <1>10. Cardinality(B) \in Nat /\ Count(q, a, p) = Cardinality(B) + One(q[i], a, p)
    BY CountTyped DEF B
  <1>11. One(q[i], a, p) \in Nat
    BY DEF One
  <1>12. Count(w, a, p) = Cardinality(A)
    BY DEF Count, A
  <1> QED  BY <1>9, <1>10, <1>11, <1>12 DEF w

\* Rules that are counted are there.
LEMMA Counted ==
    ASSUME NEW T, NEW q \in Seq(T), NEW i \in 1 .. Len(q), NEW T2, NEW r \in Seq(T2),
           Count(r, q[i].iaddr, q[i].iport) = Count(q, q[i].iaddr, q[i].iport)
    PROVE  \E j \in 1 .. Len(r) : To(r[j], q[i].iaddr, q[i].iport)
  <1> DEFINE a == q[i].iaddr
             p == q[i].iport
  <1>1. i \in Leading(q, a, p)
    BY DEF Leading, To
  <1> HIDE DEF a, p
  <1>2. IsFiniteSet(Leading(q, a, p)) /\ IsFiniteSet(Leading(r, a, p))
    BY CountTyped
  <1>3. Cardinality(Leading(q, a, p)) # 0
    BY <1>1, <1>2, FS_EmptySet
  <1>4. Cardinality(Leading(r, a, p)) # 0
    BY <1>3 DEF Count, a, p
  <1>5. Leading(r, a, p) # {}
    BY <1>4, FS_EmptySet
  <1> QED  BY <1>5 DEF Leading, a, p

\* The search for a filter rule finds one if there is one.
LEMMA FilterFound ==
    ASSUME NEW s \in Gate, NEW a, NEW p
    PROVE  LET k == FilterIndex(s, a, p) IN
           /\ k # 0 => k \in 1 .. Len(s.filter) /\ To(s.filter[k], a, p)
           /\ (\E j \in 1 .. Len(s.filter) : To(s.filter[j], a, p)) => k # 0
  <1> DEFINE q == s.filter
             k == FilterIndex(s, a, p)
             I == {i \in 1 .. Len(q) : q[i].iaddr = a /\ q[i].iport = p}
  <1>1. k = IF I # {} THEN Min(I) ELSE 0
    BY DEF FilterIndex, SelectInSeq
  <1>2. q \in Seq(FilterRule)
    BY GateFields
  <1>3. \A j : j \in I <=> j \in 1 .. Len(q) /\ To(q[j], a, p)
    BY DEF To
  <1>4. I \subseteq Nat
    BY <1>2
  <1> HIDE DEF k, I
  <1>5. I # {} => Min(I) \in I /\ Min(I) # 0
    <2> SUFFICES ASSUME I # {} PROVE Min(I) \in I /\ Min(I) # 0
      OBVIOUS
    <2>1. \E m \in I : \A n \in I : m <= n
      BY <1>4, LeastNatural
    <2>2. Min(I) \in I
      BY <2>1 DEF Min
    <2>3. Min(I) # 0
      BY <1>2, <1>3, <2>2
    <2> QED  BY <2>2, <2>3
  <1>6. k # 0 => k \in 1 .. Len(q) /\ To(q[k], a, p)
    BY <1>1, <1>3, <1>5
  <1>7. (\E j \in 1 .. Len(q) : To(q[j], a, p)) => k # 0
    BY <1>1, <1>3, <1>5
  <1> QED  BY <1>6, <1>7 DEF k

-----------------------------------------------------------------------------
\* The MASQUERADE rule of a mapping
Masq(m) == [eport |-> m.eport, iaddr |-> m.iaddr, iport |-> m.iport]

\* Every rule has its own, and as many filter rules lead to a client's port as
\* DNAT rules do
Agreeing(nat, filter, post) ==
    /\ \A a, p : Count(nat, a, p) = Count(filter, a, p)
    /\ \A i \in 1 .. Len(nat) : \E j \in 1 .. Len(post) : post[j] = Masq(nat[i])

Agree(s) == Whole(s) /\ Agreeing(s.nat, s.filter, s.post)

\* A rule with a new port agrees with what it brings along.
LEMMA AddedAgree ==
    ASSUME NEW nat \in Seq(NatRule), NEW filter \in Seq(FilterRule), NEW post \in Seq(PostRule),
           Agreeing(nat, filter, post), NEW m \in NatRule
    PROVE  Agreeing(Append(nat, m),
                    Append(filter, [iaddr |-> m.iaddr, iport |-> m.iport, rhost |-> m.rhost]),
                    Append(post, Masq(m)))
  <1> DEFINE x == [iaddr |-> m.iaddr, iport |-> m.iport, rhost |-> m.rhost]
             y == Masq(m)
             w == Append(nat, m)
             u == Append(post, y)
  <1>1. x \in FilterRule /\ y \in PostRule /\ \A a, p : One(x, a, p) = One(m, a, p)
    BY DEF FilterRule, PostRule, Masq, NatRule, One, To
  <1> HIDE DEF x, y
  <1>2. ASSUME NEW a, NEW p PROVE Count(w, a, p) = Count(Append(filter, x), a, p)
    <2>1. Count(w, a, p) = Count(nat, a, p) + One(m, a, p)
      BY CountAppend
    <2>2. Count(Append(filter, x), a, p) = Count(filter, a, p) + One(x, a, p)
      BY <1>1, CountAppend
    <2> QED  BY <1>1, <2>1, <2>2 DEF Agreeing
  <1>3. PICK n \in Nat, k \in Nat : n = Len(nat) /\ k = Len(post)
    OBVIOUS
  <1>4. Len(w) = n + 1 /\ w[n + 1] = m /\ \A i \in 1 .. n : w[i] = nat[i]
    BY <1>3
  <1>5. Len(u) = k + 1 /\ u[k + 1] = y /\ \A j \in 1 .. k : u[j] = post[j]
    BY <1>1, <1>3
  <1> HIDE DEF w, u
  <1>6. ASSUME NEW i \in 1 .. Len(w) PROVE \E j \in 1 .. Len(u) : u[j] = Masq(w[i])
    <2>1. CASE i = n + 1
      <3>1. k + 1 \in 1 .. Len(u) /\ u[k + 1] = Masq(w[i])
        BY <1>4, <1>5, <2>1 DEF y
      <3> QED  BY <3>1
    <2>2. CASE i # n + 1
      <3>1. i \in 1 .. n
        BY <1>4, <2>2
      <3>2. PICK j \in 1 .. k : post[j] = Masq(nat[i])
        BY <1>3, <3>1 DEF Agreeing
      <3>3. j \in 1 .. Len(u) /\ u[j] = Masq(w[i])
        BY <1>4, <1>5, <3>1, <3>2
      <3> QED  BY <3>3
    <2> QED  BY <2>1, <2>2
  <1> QED  BY <1>2, <1>6 DEF Agreeing, w, u, x, y

\* A mapping gets another internal port in all three chains.
LEMMA ChangedAgree ==
    ASSUME NEW nat \in Seq(NatRule), NEW filter \in Seq(FilterRule), NEW post \in Seq(PostRule),
           Agreeing(nat, filter, post), Ones(nat), NEW iport \in Iports,
           NEW i \in 1 .. Len(nat),
           NEW j \in 1 .. Len(filter), To(filter[j], nat[i].iaddr, nat[i].iport),
           NEW k \in 1 .. Len(post), post[k] = Masq(nat[i])
    PROVE  Agreeing([nat EXCEPT ![i].iport = iport], [filter EXCEPT ![j].iport = iport],
                    [post EXCEPT ![k].iport = iport])
  <1> DEFINE x == [nat[i] EXCEPT !.iport = iport]
             y == [filter[j] EXCEPT !.iport = iport]
             z == [post[k] EXCEPT !.iport = iport]
             w == [nat EXCEPT ![i] = x]
             v == [filter EXCEPT ![j] = y]
             u == [post EXCEPT ![k] = z]
  <1>1. nat[i] \in NatRule /\ filter[j] \in FilterRule /\ post[k] \in PostRule
    OBVIOUS
  <1>2. /\ x \in NatRule /\ y \in FilterRule /\ z \in PostRule
        /\ x.eport = nat[i].eport /\ x.iaddr = nat[i].iaddr /\ x.iport = iport
        /\ y.iaddr = filter[j].iaddr /\ y.iport = iport
    BY <1>1 DEF NatRule, FilterRule, PostRule
  <1>3. z = Masq(x)
    BY <1>1 DEF NatRule, Masq
  <1>4. /\ [nat EXCEPT ![i].iport = iport] = w
        /\ [filter EXCEPT ![j].iport = iport] = v
        /\ [post EXCEPT ![k].iport = iport] = u
    OBVIOUS
  <1> HIDE DEF x, y, z
  <1>5. ASSUME NEW a, NEW p PROVE Count(w, a, p) = Count(v, a, p)
    <2>1. Count(w, a, p) = Count(nat, a, p) - One(nat[i], a, p) + One(x, a, p)
      BY <1>2, CountChange
    <2>2. Count(v, a, p) = Count(filter, a, p) - One(filter[j], a, p) + One(y, a, p)
      BY <1>2, CountChange
    <2>3. One(filter[j], a, p) = One(nat[i], a, p) /\ One(y, a, p) = One(x, a, p)
      BY <1>2 DEF One, To
    <2>4. Count(nat, a, p) = Count(filter, a, p)
      BY DEF Agreeing
    <2> QED  BY <2>1, <2>2, <2>3, <2>4
  <1>6. /\ Len(w) = Len(nat) /\ w[i] = x /\ \A b \in 1 .. Len(nat) : b # i => w[b] = nat[b]
        /\ Len(u) = Len(post) /\ u[k] = z /\ \A b \in 1 .. Len(post) : b # k => u[b] = post[b]
    OBVIOUS
  <1> HIDE DEF w, u, v
  <1>7. ASSUME NEW b \in 1 .. Len(nat) PROVE \E c \in 1 .. Len(post) : u[c] = Masq(w[b])
    <2>1. CASE b = i
      BY <1>3, <1>6, <2>1
    <2>2. CASE b # i
      <3>1. PICK c \in 1 .. Len(post) : post[c] = Masq(nat[b])
        BY DEF Agreeing
      <3>2. post[c].eport = nat[b].eport /\ post[k].eport = nat[i].eport
        BY <3>1 DEF Masq
      <3>3. c # k
        BY <2>2, <3>2 DEF Ones
      <3>4. u[c] = Masq(w[b])
        BY <1>6, <2>2, <3>1, <3>3
      <3> QED  BY <3>4
    <2> QED  BY <2>1, <2>2
  <1> QED  BY <1>4, <1>5, <1>6, <1>7 DEF Agreeing

\* A mapping goes from all three chains.
LEMMA CutAgree ==
    ASSUME NEW nat \in Seq(NatRule), NEW filter \in Seq(FilterRule), NEW post \in Seq(PostRule),
           Agreeing(nat, filter, post), Ones(nat),
           NEW i \in 1 .. Len(nat),
           NEW j \in 1 .. Len(filter), To(filter[j], nat[i].iaddr, nat[i].iport),
           NEW k \in 1 .. Len(post), post[k].eport = nat[i].eport
    PROVE  Agreeing(RemoveAt(nat, i), RemoveAt(filter, j), RemoveAt(post, k))
  <1> DEFINE w == RemoveAt(nat, i)
             v == RemoveAt(filter, j)
             u == RemoveAt(post, k)
  <1>1. PICK f : Thinned(w, nat, f, {i})
    BY CutThinned
  <1>2. PICK g : Thinned(u, post, g, {k})
    BY CutThinned
  <1>3. ASSUME NEW a, NEW p PROVE Count(w, a, p) = Count(v, a, p)
    <2>1. Count(w, a, p) = Count(nat, a, p) - One(nat[i], a, p)
      BY CountCut
    <2>2. Count(v, a, p) = Count(filter, a, p) - One(filter[j], a, p)
      BY CountCut
    <2>3. One(filter[j], a, p) = One(nat[i], a, p)
      BY DEF One, To
    <2>4. Count(nat, a, p) = Count(filter, a, p)
      BY DEF Agreeing
    <2> QED  BY <2>1, <2>2, <2>3, <2>4
  <1> HIDE DEF w, u, v
  <1>4. ASSUME NEW b \in 1 .. Len(w) PROVE \E c \in 1 .. Len(u) : u[c] = Masq(w[b])
    <2>1. f[b] \in 1 .. Len(nat) /\ w[b] = nat[f[b]] /\ f[b] # i
      BY <1>1 DEF Thinned
    <2>2. PICK c \in 1 .. Len(post) : post[c] = Masq(nat[f[b]])
      BY <2>1 DEF Agreeing
    <2>3. post[c].eport = nat[f[b]].eport
      BY <2>2 DEF Masq
    <2>4. c # k
      BY <2>1, <2>3 DEF Ones
    <2>5. PICK d \in 1 .. Len(u) : g[d] = c
      BY <1>2, <2>4 DEF Thinned
    <2>6. u[d] = post[c]
      BY <1>2, <2>5 DEF Thinned
    <2> QED  BY <2>1, <2>2, <2>6
  <1> QED  BY <1>3, <1>4 DEF Agreeing, w, v, u

-----------------------------------------------------------------------------
(***************************************************************************)
(* What the operations do to the five lists when every step is done.       *)
(***************************************************************************)
\* r has these lists
Holds(r, nat, filter, post, desc, lease) ==
    /\ r \in Gate
    /\ r.nat = nat /\ r.filter = filter /\ r.post = post /\ r.desc = desc /\ r.lease = lease

\* What deleting the rule of a port leaves of a list
Without(q, eport) == IF At(q, eport) = 0 THEN q ELSE RemoveAt(q, At(q, eport))

\* What lease_file_remove() leaves of the file
Spared(q, eport) ==
    FlattenSeq([i \in DOMAIN q |-> IF ~TextPrefix(eport, q[i].eport) THEN <<q[i]>> ELSE <<>>])

\* The line of a mapping whose lease ends at t
LineOf(m, t) == [eport |-> m.eport, iaddr |-> m.iaddr, iport |-> m.iport,
                 timestamp |-> IF t = 0 THEN 0 ELSE t + boot]

FilterOf(m) == [iaddr |-> m.iaddr, iport |-> m.iport, rhost |-> m.rhost]

Described(eport, t) == [eport |-> eport, timestamp |-> t]

\* One field of the state changes.
LEMMA FieldsHold ==
    ASSUME NEW s \in Gate
    PROVE  /\ Holds(s, s.nat, s.filter, s.post, s.desc, s.lease)
           /\ \A x \in Seq(NatRule) :
                Holds([s EXCEPT !.nat = x], x, s.filter, s.post, s.desc, s.lease)
           /\ \A x \in Seq(FilterRule) :
                Holds([s EXCEPT !.filter = x], s.nat, x, s.post, s.desc, s.lease)
           /\ \A x \in Seq(PostRule) :
                Holds([s EXCEPT !.post = x], s.nat, s.filter, x, s.desc, s.lease)
           /\ \A x \in Seq(DescRule) :
                Holds([s EXCEPT !.desc = x], s.nat, s.filter, s.post, x, s.lease)
           /\ \A x \in Seq(FileLine) :
                Holds([s EXCEPT !.lease = x], s.nat, s.filter, s.post, s.desc, x)
           /\ \A x \in Int :
                Holds([s EXCEPT !.next = x], s.nat, s.filter, s.post, s.desc, s.lease)
           /\ \A x \in Seq(Entry) :
                Holds([s EXCEPT !.list = x], s.nat, s.filter, s.post, s.desc, s.lease)
  BY DEF Gate, Holds

\* The lists that the operations make are lists of the right rules.
LEMMA ListsTyped ==
    ASSUME NEW m \in NatRule, NEW t \in Int, boot \in Int
    PROVE  /\ Masq(m) \in PostRule /\ FilterOf(m) \in FilterRule /\ LineOf(m, t) \in FileLine
           /\ Described(m.eport, t) \in DescRule
           /\ \A a, p : One(FilterOf(m), a, p) = One(m, a, p)
  <1>1. (IF t = 0 THEN 0 ELSE t + boot) \in Int
    OBVIOUS
  <1> QED
    BY <1>1 DEF NatRule, PostRule, FilterRule, FileLine, DescRule, Masq, FilterOf, LineOf,
                Described, One, To

\* Descriptions
LEMMA DelHolds ==
    ASSUME NEW r \in Gate, NEW e
    PROVE  /\ Without(r.desc, e) \in Seq(DescRule)
           /\ Holds(DelRedirectDesc(r, e), r.nat, r.filter, r.post, Without(r.desc, e), r.lease)
  <1> DEFINE q == Without(r.desc, e)
  <1>1. DelRedirectDesc(r, e) = IF At(r.desc, e) = 0 THEN r ELSE [r EXCEPT !.desc = q]
    BY Indices DEF DelRedirectDesc, Without
  <1>2. r.desc \in Seq(DescRule)
    BY GateFields
  <1>3. At(r.desc, e) # 0 => At(r.desc, e) \in 1 .. Len(r.desc)
    BY <1>2, AtFinds
  <1>4. q \in Seq(DescRule)
    BY <1>2, <1>3, CutThinned DEF Without
  <1>5. At(r.desc, e) = 0 => q = r.desc
    BY DEF Without
  <1> HIDE DEF q
  <1> QED  BY <1>1, <1>4, <1>5, FieldsHold DEF q

\* that are written,
LEMMA DescHolds ==
    ASSUME NEW s \in Gate, NEW any, NEW eport \in Eports, NEW timestamp \in Int
    PROVE  /\ Without(s.desc, any) \in Seq(DescRule)
           /\ Holds(DelRedirectDesc(s, any), s.nat, s.filter, s.post, Without(s.desc, any), s.lease)
           /\ Holds(AddRedirectDesc(s, eport, timestamp), s.nat, s.filter, s.post,
                    <<Described(eport, timestamp)>> \o s.desc, s.lease)
           /\ Holds(UpdateDescTimestamp(s, eport, timestamp), s.nat, s.filter, s.post,
                    <<Described(eport, timestamp)>> \o Without(s.desc, eport), s.lease)
  <1>1. Without(s.desc, any) \in Seq(DescRule) /\ Holds(DelRedirectDesc(s, any), s.nat, s.filter, s.post,
             Without(s.desc, any), s.lease)
    BY DelHolds
  <1>2. ASSUME NEW r \in Gate
        PROVE  Holds(AddRedirectDesc(r, eport, timestamp), r.nat, r.filter, r.post,
                     <<Described(eport, timestamp)>> \o r.desc, r.lease)
    <2> DEFINE x == Described(eport, timestamp)
               w == <<x>> \o r.desc
    <2>1. x \in DescRule
      BY DEF DescRule, Described
    <2>2. AddRedirectDesc(r, eport, timestamp) = [r EXCEPT !.desc = w]
      BY DEF AddRedirectDesc, Described
    <2> HIDE DEF x
    <2>3. w \in Seq(DescRule)
      BY <2>1, GateFields
    <2> HIDE DEF w
    <2>4. Holds(AddRedirectDesc(r, eport, timestamp), r.nat, r.filter, r.post, w, r.lease)
      BY <2>2, <2>3, FieldsHold
    <2> QED  BY <2>4 DEF w, x
  <1> DEFINE d == DelRedirectDesc(s, eport)
  <1>3. UpdateDescTimestamp(s, eport, timestamp) = AddRedirectDesc(d, eport, timestamp)
    BY DEF UpdateDescTimestamp
  <1>4. Holds(d, s.nat, s.filter, s.post, Without(s.desc, eport), s.lease)
    BY DelHolds
  <1> HIDE DEF d
  <1>5. Holds(AddRedirectDesc(d, eport, timestamp), d.nat, d.filter, d.post,
              <<Described(eport, timestamp)>> \o d.desc, d.lease)
    BY <1>2, <1>4 DEF Holds
  <1>6. Holds(UpdateDescTimestamp(s, eport, timestamp), s.nat, s.filter, s.post,
              <<Described(eport, timestamp)>> \o Without(s.desc, eport), s.lease)
    BY <1>3, <1>4, <1>5 DEF Holds
  <1> QED  BY <1>1, <1>2, <1>6

\* and lines of the lease file.
LEMMA LeaseRemoveHolds ==
    ASSUME NEW s \in Gate, NEW eport, NEW fails
    PROVE  /\ Spared(s.lease, eport) \in Seq(FileLine)
           /\ Holds(LeaseRemove(s, eport, fails), s.nat, s.filter, s.post, s.desc,
                    IF "unlease" \in fails THEN s.lease ELSE Spared(s.lease, eport))
  <1> DEFINE b == Spared(s.lease, eport)
             rem == LeaseRemove(s, eport, fails)
  <1>1. rem = IF "unlease" \in fails THEN s ELSE [s EXCEPT !.lease = b]
    BY DEF LeaseRemove, Those, Spared
  <1>2. b \in Seq(FileLine)
    <2>1. LeaseRemove(s, eport, {}) = [s EXCEPT !.lease = b]
      BY DEF LeaseRemove, Those, Spared
    <2> HIDE DEF b
    <2>2. LeaseRemove(s, eport, {}).lease = b
      BY <2>1 DEF Gate
    <2> QED  BY <2>2, LeaseRemoveSame, GateFields DEF Same
  <1> HIDE DEF b, rem
  <1>3. Holds(rem, s.nat, s.filter, s.post, s.desc, IF "unlease" \in fails THEN s.lease ELSE b)
    BY <1>1, <1>2, FieldsHold
  <1> QED  BY <1>2, <1>3 DEF b, rem

\* A line that is added
LEMMA LeaseAddHolds ==
    ASSUME NEW s \in Gate, NEW m \in NatRule, NEW timestamp \in Int, NEW fails,
           now \in Int, boot \in Int
    PROVE  Holds(LeaseAdd(s, m, timestamp, fails), s.nat, s.filter, s.post, s.desc,
                 IF "lease" \in fails THEN s.lease ELSE Append(s.lease, LineOf(m, timestamp)))
  <1> DEFINE a == Append(s.lease, LineOf(m, timestamp))
             add == LeaseAdd(s, m, timestamp, fails)
  <1>1. add = IF "lease" \in fails THEN s ELSE [s EXCEPT !.lease = a]
    <2>1. timestamp - UpnpTime + now = timestamp + boot
      BY DEF UpnpTime
    <2> QED  BY <2>1 DEF LeaseAdd, LineOf
  <1>2. a \in Seq(FileLine)
    BY ListsTyped, GateFields
  <1> HIDE DEF a, add
  <1>3. Holds(add, s.nat, s.filter, s.post, s.desc, IF "lease" \in fails THEN s.lease ELSE a)
    BY <1>1, <1>2, FieldsHold
  <1> QED  BY <1>3 DEF a, add


\* upnp_redirect_internal()
LEMMA InternalDoes ==
    ASSUME NEW s \in Gate, NEW m \in NatRule, NEW timestamp \in Int, now \in Int, boot \in Int
    PROVE  LET out == UpnpRedirectInternal(s, m, timestamp, {}) IN
           /\ out.r = 0
           /\ Holds(out.s, Append(s.nat, m), Append(s.filter, FilterOf(m)), Append(s.post, Masq(m)),
                    <<Described(m.eport, timestamp)>> \o s.desc, Append(s.lease, LineOf(m, timestamp)))
  <1> DEFINE w == Append(s.nat, m)
             r == [s EXCEPT !.nat = w]
             d == AddRedirectDesc(r, m.eport, timestamp)
             u == Append(d.post, Masq(m))
             p == [d EXCEPT !.post = u]
             leased == LeaseAdd(p, m, timestamp, {})
             v == Append(leased.filter, FilterOf(m))
             open == [leased EXCEPT !.filter = v]
             next == Sooner(open.next, timestamp)
             last == [open EXCEPT !.next = next]
             desc == <<Described(m.eport, timestamp)>> \o s.desc
             lease == Append(s.lease, LineOf(m, timestamp))
             out == UpnpRedirectInternal(s, m, timestamp, {})
  <1>1. AddRedirectRule2(s, m, timestamp, {}) = Out(p, 0)
    BY DEF AddRedirectRule2, Masq
  <1>2. AddFilterRule2(leased, m, {}) = Out(open, 0)
    BY DEF AddFilterRule2, FilterOf
  <1>3. out = Out(last, 0)
    <2> HIDE DEF p, open, last
    <2>1. \A a, b : Out(a, b).s = a /\ Out(a, b).r = b
      BY DEF Out
    <2> DEFINE rdr == AddRedirectRule2(s, m, timestamp, {})
               opn == AddFilterRule2(LeaseAdd(rdr.s, m, timestamp, {}), m, {})
    <2>2. out = IF rdr.r < 0 THEN Out(rdr.s, -1)
                ELSE IF opn.r < 0 THEN Out(opn.s, -1)
                ELSE Out([opn.s EXCEPT !.next = Sooner(opn.s.next, timestamp)], 0)
      BY DEF UpnpRedirectInternal, On
    <2>3. rdr.s = p /\ rdr.r = 0
      BY <1>1, <2>1
    <2>4. opn.s = open /\ opn.r = 0
      BY <1>2, <2>1, <2>3
    <2> HIDE DEF rdr, opn, out
    <2> QED  BY <2>2, <2>3, <2>4 DEF last
  <1>4. out.s = last /\ out.r = 0
    BY <1>3 DEF Out
  <1> HIDE DEF out
  <1>5. /\ s.nat \in Seq(NatRule) /\ s.filter \in Seq(FilterRule) /\ s.post \in Seq(PostRule)
        /\ m.eport \in Eports /\ Masq(m) \in PostRule /\ FilterOf(m) \in FilterRule
    BY GateFields, ListsTyped DEF NatRule
  <1>6. w \in Seq(NatRule)
    BY <1>5
  <1> HIDE DEF w
  <1>7. Holds(r, w, s.filter, s.post, s.desc, s.lease)
    BY <1>6, FieldsHold
  <1> HIDE DEF r
  <1>8. Holds(d, w, s.filter, s.post, desc, s.lease)
    <2>1. Holds(d, r.nat, r.filter, r.post, <<Described(m.eport, timestamp)>> \o r.desc, r.lease)
      BY <1>5, <1>7, DescHolds DEF Holds
    <2> QED  BY <1>7, <2>1 DEF Holds
  <1> HIDE DEF d, desc
  <1>9. u \in Seq(PostRule) /\ u = Append(s.post, Masq(m))
    BY <1>5, <1>8 DEF Holds
  <1> HIDE DEF u
  <1>10. Holds(p, w, s.filter, u, desc, s.lease)
    BY <1>8, <1>9, FieldsHold DEF Holds
  <1> HIDE DEF p
  <1>11. Holds(leased, w, s.filter, u, desc, lease)
    <2>1. p \in Gate /\ p.nat = w /\ p.filter = s.filter /\ p.post = u /\ p.desc = desc
          /\ p.lease = s.lease
      BY <1>10 DEF Holds
    <2>2. Holds(leased, p.nat, p.filter, p.post, p.desc, Append(p.lease, LineOf(m, timestamp)))
      BY <2>1, LeaseAddHolds
    <2> QED  BY <2>1, <2>2
  <1> HIDE DEF leased, lease
  <1>12. v \in Seq(FilterRule) /\ v = Append(s.filter, FilterOf(m))
    BY <1>5, <1>11 DEF Holds
  <1> HIDE DEF v
  <1>13. Holds(open, w, v, u, desc, lease)
    BY <1>11, <1>12, FieldsHold DEF Holds
  <1> HIDE DEF open
  <1>14. next \in Int
    BY <1>13, GateFields DEF Sooner, Holds
  <1> HIDE DEF next
  <1>15. Holds(last, w, v, u, desc, lease)
    BY <1>13, <1>14, FieldsHold DEF Holds
  <1> HIDE DEF last
  <1> QED  BY <1>4, <1>9, <1>12, <1>15 DEF w, desc, lease, out

\* update_portmapping() finds the rules of the mapping in all three chains.
LEMMA UpdateDoes ==
    ASSUME NEW s, Agree(s), NEW eport \in Eports, Has(s.nat, eport), NEW iport \in Iports,
           NEW timestamp \in Int
    PROVE  LET out == UpdatePortmapping(s, eport, iport, timestamp, {}) IN
           out.r = 0 /\
           \E i \in 1 .. Len(s.nat), j \in 1 .. Len(s.filter), k \in 1 .. Len(s.post) :
             /\ s.nat[i].eport = eport
             /\ To(s.filter[j], s.nat[i].iaddr, s.nat[i].iport)
             /\ s.post[k] = Masq(s.nat[i])
             /\ Holds(out.s, [s.nat EXCEPT ![i].iport = iport], [s.filter EXCEPT ![j].iport = iport],
                      [s.post EXCEPT ![k].iport = iport],
                      <<Described(eport, timestamp)>> \o Without(s.desc, eport), s.lease)
  <1> DEFINE i == NatIndex(s, eport)
             old == s.nat[i]
             w == [s.nat EXCEPT ![i].iport = iport]
             natted == [s EXCEPT !.nat = w]
             j == FilterIndex(natted, old.iaddr, old.iport)
             v == [natted.filter EXCEPT ![j].iport = iport]
             f == [natted EXCEPT !.filter = v]
             I == {b \in 1 .. Len(f.post) : /\ f.post[b].eport = eport
                                            /\ f.post[b].iaddr = old.iaddr
                                            /\ f.post[b].iport = old.iport}
             k == IF I # {} THEN Min(I) ELSE 0
             u == [f.post EXCEPT ![k].iport = iport]
             p == [f EXCEPT !.post = u]
             snatted == IF k = 0 THEN f ELSE p
             r == UpdateDescTimestamp(snatted, eport, timestamp)
             desc == <<Described(eport, timestamp)>> \o Without(s.desc, eport)
             out == UpdatePortmapping(s, eport, iport, timestamp, {})
  <1>1. s \in Gate /\ s.nat \in Seq(NatRule) /\ s.filter \in Seq(FilterRule)
        /\ s.post \in Seq(PostRule) /\ Agreeing(s.nat, s.filter, s.post)
    BY GateFields DEF Agree, Whole, Good
  <1>2. FilterIndex(s, old.iaddr, old.iport) = j
    <2>1. natted.filter = s.filter
      BY <1>1 DEF Gate
    <2> HIDE DEF natted, old
    <2> QED  BY <2>1 DEF FilterIndex
  <1>3. out = IF i = 0 THEN Out(s, -1) ELSE IF j = 0 THEN Out(natted, -1) ELSE Out(r, 0)
    <2>1. UpdateFilter(natted, j, iport) = f
      BY DEF UpdateFilter
    <2>2. UpdateSnat(f, eport, old.iaddr, old.iport, iport, {}) = snatted
      <3> HIDE DEF f, old
      <3> QED  BY DEF UpdateSnat, SelectInSeq
    <2> DEFINE n == [s EXCEPT !.nat[i].iport = iport]
    <2>3. n = natted
      OBVIOUS
    <2>4. out = IF i = 0 THEN Out(s, -1)
                ELSE IF FilterIndex(s, old.iaddr, old.iport) = 0 THEN Out(n, -1)
                ELSE Out(UpdateDescTimestamp(
                           UpdateSnat(UpdateFilter(n, FilterIndex(s, old.iaddr, old.iport), iport),
                                      eport, old.iaddr, old.iport, iport, {}), eport, timestamp), 0)
      BY DEF UpdatePortmapping
    <2> HIDE DEF n, natted, j, f, snatted, out, i, old
    <2> QED  BY <1>2, <2>1, <2>2, <2>3, <2>4 DEF r
  <1> HIDE DEF out
  <1>4. i # 0 /\ i \in 1 .. Len(s.nat) /\ old.eport = eport
    BY <1>1, AtFinds, Indices
  <1> HIDE DEF i
  <1>5. w \in Seq(NatRule)
    BY <1>1, PortChanged
  <1> HIDE DEF w
  <1>6. Holds(natted, w, s.filter, s.post, s.desc, s.lease)
    BY <1>1, <1>5, FieldsHold
  <1> HIDE DEF natted
  <1>7. \E b \in 1 .. Len(s.filter) : To(s.filter[b], old.iaddr, old.iport)
    BY <1>1, <1>4, Counted DEF Agreeing
  <1>8. j \in 1 .. Len(s.filter) /\ To(s.filter[j], old.iaddr, old.iport) /\ j # 0
    BY <1>6, <1>7, FilterFound DEF Holds
  <1> HIDE DEF j
  <1>9. v \in Seq(FilterRule) /\ v = [s.filter EXCEPT ![j].iport = iport]
    BY <1>1, <1>6, PortChanged DEF Holds
  <1> HIDE DEF v
  <1>10. Holds(f, w, v, s.post, s.desc, s.lease)
    BY <1>6, <1>9, FieldsHold DEF Holds
  <1> HIDE DEF f
  <1>11. k \in 1 .. Len(s.post) /\ s.post[k] = Masq(old) /\ k # 0
    <2>1. f.post = s.post /\ I \subseteq Nat
      BY <1>1, <1>10 DEF Holds
    <2>2. PICK b \in 1 .. Len(s.post) : s.post[b] = Masq(old)
      BY <1>1, <1>4 DEF Agreeing
    <2>3. b \in I
      BY <1>4, <2>1, <2>2 DEF Masq
    <2>4. \E m \in I : \A n \in I : m <= n
      BY <2>1, <2>3, LeastNatural
    <2>5. Min(I) \in I
      BY <2>4 DEF Min
    <2>6. k \in I
      BY <2>3, <2>5
    <2> HIDE DEF k
    <2>7. k \in 1 .. Len(s.post) /\ s.post[k].eport = eport /\ s.post[k].iaddr = old.iaddr
          /\ s.post[k].iport = old.iport
      BY <2>1, <2>6
    <2>8. s.post[k] \in PostRule
      BY <1>1, <2>7
    <2>9. s.post[k] = Masq(old)
      BY <1>4, <2>7, <2>8 DEF PostRule, Masq
    <2>10. k # 0
      BY <1>1, <2>7
    <2> QED  BY <2>7, <2>9, <2>10
  <1> HIDE DEF k
  <1>12. u \in Seq(PostRule) /\ u = [s.post EXCEPT ![k].iport = iport]
    BY <1>1, <1>10, PortChanged DEF Holds
  <1> HIDE DEF u
  <1>13. Holds(snatted, w, v, u, s.desc, s.lease)
    <2>1. snatted = p
      BY <1>11
    <2> HIDE DEF snatted
    <2> QED  BY <1>10, <1>12, <2>1, FieldsHold DEF Holds
  <1> HIDE DEF snatted
  <1>14. Holds(r, w, v, u, desc, s.lease)
    <2>1. snatted \in Gate /\ snatted.nat = w /\ snatted.filter = v /\ snatted.post = u
          /\ snatted.desc = s.desc /\ snatted.lease = s.lease
      BY <1>13 DEF Holds
    <2>2. Holds(r, snatted.nat, snatted.filter, snatted.post,
                <<Described(eport, timestamp)>> \o Without(snatted.desc, eport), snatted.lease)
      BY <2>1, DescHolds
    <2> HIDE DEF r
    <2> QED  BY <2>1, <2>2
  <1> HIDE DEF r
  <1>15. out.r = 0 /\ out.s = r
    <2>1. out = Out(r, 0)
      BY <1>3, <1>4, <1>8
    <2> QED  BY <2>1 DEF Out
  <1>16. Holds(out.s, [s.nat EXCEPT ![i].iport = iport], [s.filter EXCEPT ![j].iport = iport],
               [s.post EXCEPT ![k].iport = iport], desc, s.lease)
    BY <1>9, <1>12, <1>14, <1>15 DEF w
  <1> HIDE DEF desc
  <1> QED  BY <1>4, <1>8, <1>11, <1>15, <1>16 DEF out, desc

\* _upnp_delete_redir()
LEMMA DeleteDoes ==
    ASSUME NEW s, Agree(s), NEW eport
    PROVE  LET r == UpnpDeleteRedir(s, eport, {}).s IN
           /\ ~Has(s.nat, eport) =>
                Holds(r, s.nat, s.filter, s.post, s.desc, Spared(s.lease, eport))
           /\ Has(s.nat, eport) =>
                \E i \in 1 .. Len(s.nat), j \in 1 .. Len(s.filter), k \in 1 .. Len(s.post) :
                  /\ s.nat[i].eport = eport
                  /\ To(s.filter[j], s.nat[i].iaddr, s.nat[i].iport)
                  /\ s.post[k].eport = eport
                  /\ Holds(r, RemoveAt(s.nat, i), RemoveAt(s.filter, j), RemoveAt(s.post, k),
                           Without(s.desc, eport), Spared(s.lease, eport))
  <1> DEFINE i == At(s.nat, eport)
             x == s.nat[i]
             w == RemoveAt(s.nat, i)
             cut == [s EXCEPT !.nat = w]
             j == FilterIndex(cut, x.iaddr, x.iport)
             v == RemoveAt(cut.filter, j)
             fil == IF j = 0 THEN cut ELSE [cut EXCEPT !.filter = v]
             first == IF i = 0 THEN s ELSE fil
             k == At(first.post, eport)
             u == RemoveAt(first.post, k)
             second == IF k = 0 THEN first ELSE [first EXCEPT !.post = u]
             undescribed == DelRedirectDesc(second, eport)
             del == DeleteRedirectAndFilterRules(s, eport, {})
             r == UpnpDeleteRedir(s, eport, {}).s
  <1>1. r = LeaseRemove(del.s, eport, {})
    <2>1. UpnpDeleteRedir(s, eport, {}) = Out(LeaseRemove(del.s, eport, {}), del.r)
      BY DEF UpnpDeleteRedir, On
    <2> QED  BY <2>1 DEF Out
  <1>2. DeleteNatAndFilter(s, eport, {}).s = first
    <2>1. NatIndex(s, eport) = i
      BY Indices
    <2>2. DeleteFilter(cut, x.iaddr, x.iport) = fil
      BY DEF DeleteFilter
    <2> HIDE DEF fil, cut, i
    <2> QED  BY <2>1, <2>2 DEF DeleteNatAndFilter, Out, cut
  <1>3. DeletePost(first, eport, {}).s = second
    <2>1. PostIndex(first, eport) = k
      BY Indices
    <2> HIDE DEF first, k
    <2> QED  BY <2>1 DEF DeletePost, Out
  <1>4. del.s = undescribed
    <2> DEFINE a == DeleteNatAndFilter(s, eport, {})
               b == DeletePost(a.s, eport, {})
    <2>1. del = Out(DelRedirectDesc(b.s, eport), a.r * b.r)
      BY DEF DeleteRedirectAndFilterRules, On
    <2>2. b.s = second
      BY <1>2, <1>3
    <2> HIDE DEF b, second, del
    <2> QED  BY <2>1, <2>2 DEF Out
  <1> HIDE DEF del, r
  <1>5. s \in Gate /\ s.nat \in Seq(NatRule) /\ s.filter \in Seq(FilterRule)
        /\ s.post \in Seq(PostRule) /\ Agreeing(s.nat, s.filter, s.post)
        /\ \A e : Has(s.post, e) \/ Has(s.desc, e) => Has(s.nat, e)
    BY GateFields DEF Agree, Whole, Good
  <1>6. ASSUME NEW n, NEW g, NEW q, Holds(second, n, g, q, s.desc, s.lease)
        PROVE  Holds(r, n, g, q, Without(s.desc, eport), Spared(s.lease, eport))
    <2>1. second \in Gate /\ second.nat = n /\ second.filter = g /\ second.post = q
          /\ second.desc = s.desc /\ second.lease = s.lease
      BY <1>6 DEF Holds
    <2> HIDE DEF second
    <2>2. Holds(undescribed, second.nat, second.filter, second.post, Without(second.desc, eport),
                second.lease)
      <3>1. ASSUME NEW z \in Gate
            PROVE  Holds(DelRedirectDesc(z, eport), z.nat, z.filter, z.post,
                         Without(z.desc, eport), z.lease)
        BY DelHolds
      <3> QED  BY <2>1, <3>1
    <2> HIDE DEF undescribed
    <2>3. Holds(del.s, n, g, q, Without(s.desc, eport), s.lease)
      BY <1>4, <2>1, <2>2
    <2>4. del.s \in Gate /\ del.s.nat = n /\ del.s.filter = g /\ del.s.post = q
          /\ del.s.desc = Without(s.desc, eport) /\ del.s.lease = s.lease
      BY <2>3 DEF Holds
    <2> DEFINE t == del.s
    <2>5. r = LeaseRemove(t, eport, {})
      BY <1>1
    <2> HIDE DEF t
    <2>6. Holds(r, t.nat, t.filter, t.post, t.desc, Spared(t.lease, eport))
      BY <2>4, <2>5, LeaseRemoveHolds DEF t
    <2> QED  BY <2>4, <2>6 DEF t
  <1>7. CASE i = 0
    <2>1. ~Has(s.nat, eport) /\ ~Has(s.post, eport) /\ ~Has(s.desc, eport)
      BY <1>5, <1>7, AtFinds
    <2>2. first = s
      BY <1>7
    <2>3. k = 0
      BY <1>5, <2>1, <2>2, AtFinds
    <2>4. Holds(second, s.nat, s.filter, s.post, s.desc, s.lease)
      BY <1>5, <2>2, <2>3, FieldsHold
    <2> HIDE DEF second
    <2>5. Without(s.desc, eport) = s.desc
      BY <1>5, <2>1, GateFields, AtFinds DEF Without
    <2>6. Holds(r, s.nat, s.filter, s.post, s.desc, Spared(s.lease, eport))
      BY <1>6, <2>4, <2>5
    <2> QED  BY <2>1, <2>6 DEF r
  <1>8. CASE i # 0
    <2>1. i \in 1 .. Len(s.nat) /\ x.eport = eport /\ Has(s.nat, eport)
      BY <1>5, <1>8, AtFinds
    <2> HIDE DEF i
    <2>2. w \in Seq(NatRule)
      BY <1>5, <2>1, CutThinned
    <2> HIDE DEF w
    <2>3. Holds(cut, w, s.filter, s.post, s.desc, s.lease)
      BY <1>5, <2>2, FieldsHold
    <2> HIDE DEF cut
    <2>4. \E b \in 1 .. Len(s.filter) : To(s.filter[b], x.iaddr, x.iport)
      BY <1>5, <2>1, Counted DEF Agreeing
    <2>5. j \in 1 .. Len(s.filter) /\ To(s.filter[j], x.iaddr, x.iport) /\ j # 0
      BY <2>3, <2>4, FilterFound DEF Holds
    <2> HIDE DEF j
    <2>6. v \in Seq(FilterRule) /\ v = RemoveAt(s.filter, j)
      BY <1>5, <2>3, <2>5, CutThinned DEF Holds
    <2> HIDE DEF v
    <2>7. Holds(fil, w, v, s.post, s.desc, s.lease)
      BY <2>3, <2>5, <2>6, FieldsHold DEF Holds
    <2> HIDE DEF fil
    <2>8. Holds(first, w, v, s.post, s.desc, s.lease)
      BY <1>8, <2>7
    <2> HIDE DEF first
    <2>9. Has(s.post, eport)
      <3>1. PICK b \in 1 .. Len(s.post) : s.post[b] = Masq(x)
        BY <1>5, <2>1 DEF Agreeing
      <3> QED  BY <2>1, <3>1 DEF Has, Masq
    <2>10. first.post = s.post
      BY <2>8 DEF Holds
    <2>11. k # 0 /\ k \in 1 .. Len(s.post) /\ s.post[k].eport = eport
      BY <1>5, <2>9, <2>10, AtFinds
    <2> HIDE DEF k
    <2>12. u \in Seq(PostRule) /\ u = RemoveAt(s.post, k)
      BY <1>5, <2>10, <2>11, CutThinned
    <2> HIDE DEF u
    <2>13. Holds(second, w, v, u, s.desc, s.lease)
      BY <2>8, <2>11, <2>12, FieldsHold DEF Holds
    <2> HIDE DEF second
    <2>14. Holds(r, RemoveAt(s.nat, i), RemoveAt(s.filter, j), RemoveAt(s.post, k),
                 Without(s.desc, eport), Spared(s.lease, eport))
      BY <1>6, <2>6, <2>12, <2>13 DEF w
    <2> QED  BY <2>1, <2>5, <2>11, <2>14 DEF r
  <1> QED  BY <1>7, <1>8

-----------------------------------------------------------------------------
(***************************************************************************)
(* What a list has for one port.                                           *)
(***************************************************************************)
\* The members of a list that are about a port
Of(q, e) == {q[i] : i \in {j \in 1 .. Len(q) : q[j].eport = e}}

\* A list has at most one
OneAt(q, e) == \A i, j \in 1 .. Len(q) : q[i].eport = e /\ q[j].eport = e => i = j

\* What it is to be one of them
LEMMA OfIs ==
    ASSUME NEW q, NEW e
    PROVE  /\ \A x : x \in Of(q, e) <=> \E i \in 1 .. Len(q) : q[i] = x /\ q[i].eport = e
           /\ Of(q, e) = {} <=> ~Has(q, e)
           /\ Ones(q) => OneAt(q, e)
           /\ OneAt(q, e) => \A i \in 1 .. Len(q) : q[i].eport = e => Of(q, e) = {q[i]}
  <1>1. \A x : x \in Of(q, e) <=> \E i \in 1 .. Len(q) : q[i] = x /\ q[i].eport = e
    BY DEF Of
  <1> HIDE DEF Of
  <1>2. Of(q, e) = {} <=> ~Has(q, e)
    BY <1>1 DEF Has
  <1>3. Ones(q) => OneAt(q, e)
    BY DEF Ones, OneAt
  <1>4. ASSUME OneAt(q, e), NEW i \in 1 .. Len(q), q[i].eport = e PROVE Of(q, e) = {q[i]}
    BY <1>1, <1>4 DEF OneAt
  <1> QED  BY <1>1, <1>2, <1>3, <1>4

\* One more at the end
LEMMA OfAppend ==
    ASSUME NEW T, NEW q \in Seq(T), NEW x \in T, NEW e
    PROVE  /\ Of(Append(q, x), e) = IF x.eport = e THEN Of(q, e) \cup {x} ELSE Of(q, e)
           /\ OneAt(q, e) /\ (x.eport = e => ~Has(q, e)) => OneAt(Append(q, x), e)
  <1> DEFINE w == Append(q, x)
  <1>1. PICK n \in Nat : n = Len(q)
    OBVIOUS
  <1>2. Len(w) = n + 1 /\ w[n + 1] = x /\ \A j \in 1 .. n : w[j] = q[j]
    BY <1>1
  <1>3. \A j : j \in 1 .. n + 1 <=> j = n + 1 \/ j \in 1 .. n
    BY <1>1
  <1> HIDE DEF w
  <1>4. \A y : y \in Of(w, e) <=> y \in Of(q, e) \/ (y = x /\ x.eport = e)
    <2>1. \A y : y \in Of(w, e) <=> \E i \in 1 .. n + 1 : w[i] = y /\ w[i].eport = e
      BY <1>2, OfIs
    <2>2. \A y : y \in Of(q, e) <=> \E i \in 1 .. n : q[i] = y /\ q[i].eport = e
      BY <1>1, OfIs
    <2> QED  BY <1>2, <1>3, <2>1, <2>2
  <1>5. Of(w, e) = IF x.eport = e THEN Of(q, e) \cup {x} ELSE Of(q, e)
    BY <1>4
  <1>6. OneAt(q, e) /\ (x.eport = e => ~Has(q, e)) => OneAt(w, e)
    <2> SUFFICES ASSUME OneAt(q, e), x.eport = e => ~Has(q, e),
                        NEW i \in 1 .. n + 1, NEW j \in 1 .. n + 1, w[i].eport = e, w[j].eport = e
                 PROVE  i = j
      BY <1>2 DEF OneAt
    <2>1. CASE x.eport = e
      <3>1. \A k \in 1 .. n : w[k].eport # e
        BY <1>1, <1>2, <2>1 DEF Has
      <3> QED  BY <1>3, <3>1
    <2>2. CASE x.eport # e
      <3>1. i \in 1 .. n /\ j \in 1 .. n
        BY <1>2, <1>3, <2>2
      <3> QED  BY <1>1, <1>2, <3>1 DEF OneAt
    <2> QED  BY <2>1, <2>2
  <1> QED  BY <1>5, <1>6 DEF w

\* One more description at the head
LEMMA OfPrepend ==
    ASSUME NEW q \in Seq(DescRule), NEW x \in DescRule, NEW e
    PROVE  Of(<<x>> \o q, e) = IF x.eport = e THEN Of(q, e) \cup {x} ELSE Of(q, e)
  <1> DEFINE w == <<x>> \o q
  <1>1. PICK n \in Nat : n = Len(q)
    OBVIOUS
  <1>2. Len(w) = n + 1 /\ w[1] = x /\ \A j \in 1 .. n : w[j + 1] = q[j]
    BY <1>1
  <1>3. \A y : y \in Of(w, e) <=> \E i \in 1 .. n + 1 : w[i] = y /\ w[i].eport = e
    <2> HIDE DEF w
    <2> QED  BY <1>2, OfIs
  <1>4. \A y : y \in Of(q, e) <=> \E i \in 1 .. n : q[i] = y /\ q[i].eport = e
    BY <1>1, OfIs
  <1> HIDE DEF w
  <1>5. ASSUME NEW y \in Of(w, e) PROVE y \in Of(q, e) \/ (y = x /\ x.eport = e)
    <2>1. PICK i \in 1 .. n + 1 : w[i] = y /\ w[i].eport = e
      BY <1>3
    <2>2. CASE i = 1
      BY <1>2, <2>1, <2>2
    <2>3. CASE i # 1
      <3>1. i - 1 \in 1 .. n /\ i = (i - 1) + 1
        BY <1>1, <2>3
      <3>2. q[i - 1] = y /\ q[i - 1].eport = e
        BY <1>2, <2>1, <3>1
      <3> QED  BY <1>4, <3>1, <3>2
    <2> QED  BY <2>2, <2>3
  <1>6. ASSUME NEW y \in Of(q, e) PROVE y \in Of(w, e)
    <2>1. PICK i \in 1 .. n : q[i] = y /\ q[i].eport = e
      BY <1>4
    <2>2. i + 1 \in 1 .. n + 1
      BY <1>1
    <2>3. w[i + 1] = y /\ w[i + 1].eport = e
      BY <1>2, <2>1
    <2> QED  BY <1>3, <2>2, <2>3
  <1>7. x.eport = e => x \in Of(w, e)
    <2>1. 1 \in 1 .. n + 1
      BY <1>1
    <2> QED  BY <1>2, <1>3, <2>1
  <1> QED  BY <1>5, <1>6, <1>7 DEF w

\* One is taken out.
LEMMA OfCut ==
    ASSUME NEW T, NEW q \in Seq(T), Ones(q), NEW i \in 1 .. Len(q), NEW e
    PROVE  Of(RemoveAt(q, i), e) = IF e = q[i].eport THEN {} ELSE Of(q, e)
  <1> DEFINE w == RemoveAt(q, i)
  <1>1. PICK f : Thinned(w, q, f, {i})
    BY CutThinned
  <1>2. ~Has(w, q[i].eport)
    BY CutOne
  <1> HIDE DEF w
  <1>3. e = q[i].eport => Of(w, e) = {}
    BY <1>2, OfIs
  <1>4. ASSUME e # q[i].eport, NEW x PROVE x \in Of(w, e) <=> x \in Of(q, e)
    <2>1. ASSUME NEW j \in 1 .. Len(w), w[j] = x, w[j].eport = e
          PROVE  \E k \in 1 .. Len(q) : q[k] = x /\ q[k].eport = e
      BY <1>1, <2>1 DEF Thinned
    <2>2. ASSUME NEW k \in 1 .. Len(q), q[k] = x, q[k].eport = e
          PROVE  \E j \in 1 .. Len(w) : w[j] = x /\ w[j].eport = e
      <3>1. k # i
        BY <1>4, <2>2
      <3>2. PICK j \in 1 .. Len(w) : f[j] = k
        BY <1>1, <3>1 DEF Thinned
      <3>3. w[j] = q[k]
        BY <1>1, <3>2 DEF Thinned
      <3> QED  BY <2>2, <3>3
    <2> QED  BY <2>1, <2>2, OfIs
  <1> QED  BY <1>3, <1>4 DEF w

\* The one of a port is taken out.
LEMMA OfWithout ==
    ASSUME NEW T, NEW q \in Seq(T), Ones(q), NEW eport, NEW e
    PROVE  Of(Without(q, eport), e) = IF e = eport THEN {} ELSE Of(q, e)
  <1>1. CASE At(q, eport) = 0
    <2>1. ~Has(q, eport)
      BY <1>1, AtFinds
    <2>2. Of(q, eport) = {}
      BY <2>1, OfIs
    <2> QED  BY <1>1, <2>2 DEF Without
  <1>2. CASE At(q, eport) # 0
    <2> DEFINE i == At(q, eport)
    <2>1. i \in 1 .. Len(q) /\ q[i].eport = eport
      BY <1>2, AtFinds
    <2>2. Without(q, eport) = RemoveAt(q, i)
      BY <1>2 DEF Without
    <2> HIDE DEF i
    <2> QED  BY <2>1, <2>2, OfCut
  <1> QED  BY <1>1, <1>2

\* A DNAT rule changes, but not its port.
LEMMA OfChange ==
    ASSUME NEW q \in Seq(NatRule), Ones(q), NEW i \in 1 .. Len(q), NEW x \in NatRule,
           x.eport = q[i].eport, NEW e
    PROVE  Of([q EXCEPT ![i] = x], e) = IF e = x.eport THEN {x} ELSE Of(q, e)
  <1> DEFINE w == [q EXCEPT ![i] = x]
  <1>1. Len(w) = Len(q) /\ w[i] = x /\ \A b \in 1 .. Len(q) : b # i => w[b] = q[b]
    OBVIOUS
  <1> HIDE DEF w
  <1>2. ASSUME NEW y PROVE y \in Of(w, e) <=> IF e = x.eport THEN y = x ELSE y \in Of(q, e)
    <2>1. y \in Of(w, e) <=> \E b \in 1 .. Len(q) : w[b] = y /\ w[b].eport = e
      BY <1>1, OfIs
    <2>2. y \in Of(q, e) <=> \E b \in 1 .. Len(q) : q[b] = y /\ q[b].eport = e
      BY OfIs
    <2>3. CASE e = x.eport
      <3>1. \A b \in 1 .. Len(q) : b # i => q[b].eport # e
        BY <2>3 DEF Ones
      <3> QED  BY <1>1, <2>1, <2>3, <3>1
    <2>4. CASE e # x.eport
      BY <1>1, <2>1, <2>2, <2>4
    <2> QED  BY <2>3, <2>4
  <1> QED  BY <1>2 DEF w

\* lease_file_remove() takes all lines that begin with the digits of the port.
LEMMA OfSpared ==
    ASSUME NEW q \in Seq(FileLine), NEW eport, NEW e
    PROVE  /\ Of(Spared(q, eport), e) = IF TextPrefix(eport, e) THEN {} ELSE Of(q, e)
           /\ OneAt(q, e) => OneAt(Spared(q, eport), e)
  <1> DEFINE Gone == {i \in 1 .. Len(q) : TextPrefix(eport, q[i].eport)}
             seqs == [i \in DOMAIN q |-> IF ~TextPrefix(eport, q[i].eport) THEN <<q[i]>> ELSE <<>>]
             w == Spared(q, eport)
  <1>1. w = FlattenSeq(seqs)
    BY DEF Spared
  <1>2. Picks(seqs, q) /\ \A i \in 1 .. Len(q) : seqs[i] = <<>> <=> i \in Gone
    BY DEF Picks
  <1> HIDE DEF seqs, w
  <1>3. PICK f : Thinned(w, q, f, Gone)
    BY <1>1, <1>2, PicksThinned
  <1>4. /\ \A j \in 1 .. Len(w) : f[j] \in 1 .. Len(q) /\ w[j] = q[f[j]]
                                  /\ ~TextPrefix(eport, q[f[j]].eport)
        /\ \A m \in 1 .. Len(q) : ~TextPrefix(eport, q[m].eport) =>
             \E j \in 1 .. Len(w) : f[j] = m
        /\ \A i, j \in 1 .. Len(w) : f[i] = f[j] => i = j
    BY <1>3 DEF Thinned
  <1> HIDE DEF Gone
  <1>5. ASSUME NEW x PROVE x \in Of(w, e) <=> x \in Of(q, e) /\ ~TextPrefix(eport, e)
    <2>1. x \in Of(w, e) <=> \E j \in 1 .. Len(w) : w[j] = x /\ w[j].eport = e
      BY OfIs
    <2>2. x \in Of(q, e) <=> \E j \in 1 .. Len(q) : q[j] = x /\ q[j].eport = e
      BY OfIs
    <2> QED  BY <1>4, <2>1, <2>2
  <1>6. OneAt(q, e) => OneAt(w, e)
    BY <1>4 DEF OneAt
  <1> QED  BY <1>5, <1>6 DEF w

-----------------------------------------------------------------------------
(***************************************************************************)
(* The chains agree after each operation, and the lists have what they      *)
(* should for each port.                                                    *)
(***************************************************************************)
\* r is s with other rules for one port only
Elsewhere(r, s, eport) ==
    \A e : e # eport => Of(r.nat, e) = Of(s.nat, e) /\ Of(r.desc, e) = Of(s.desc, e)

\* upnp_redirect_internal()
LEMMA InternalMaps ==
    ASSUME NEW s, Agree(s), NEW m \in NatRule, NEW timestamp \in Int,
           now \in Int, boot \in Int, ~Has(s.nat, m.eport)
    PROVE  LET out == UpnpRedirectInternal(s, m, timestamp, {}) IN
           /\ out.r = 0 /\ Agree(out.s) /\ Elsewhere(out.s, s, m.eport)
           /\ Of(out.s.nat, m.eport) = {m}
           /\ Of(out.s.desc, m.eport) = {Described(m.eport, timestamp)}
           /\ out.s.lease = Append(s.lease, LineOf(m, timestamp))
  <1> DEFINE out == UpnpRedirectInternal(s, m, timestamp, {})
             x == Described(m.eport, timestamp)
  <1>1. s \in Gate /\ s.nat \in Seq(NatRule) /\ s.filter \in Seq(FilterRule)
        /\ s.post \in Seq(PostRule) /\ s.desc \in Seq(DescRule)
        /\ Agreeing(s.nat, s.filter, s.post) /\ Whole(s) /\ ~Has(s.desc, m.eport)
    BY GateFields DEF Agree, Whole, Good
  <1>2. out.r = 0 /\ Holds(out.s, Append(s.nat, m), Append(s.filter, FilterOf(m)),
                           Append(s.post, Masq(m)), <<x>> \o s.desc,
                           Append(s.lease, LineOf(m, timestamp)))
    BY <1>1, InternalDoes
  <1>3. Whole(out.s)
    BY <1>1, RedirectInternalWhole
  <1>4. Agreeing(Append(s.nat, m), Append(s.filter, FilterOf(m)), Append(s.post, Masq(m)))
    BY <1>1, AddedAgree DEF FilterOf
  <1> HIDE DEF out
  <1>5. Agree(out.s)
    BY <1>2, <1>3, <1>4 DEF Agree, Holds
  <1>6. x \in DescRule /\ x.eport = m.eport
    BY DEF DescRule, Described, NatRule
  <1> HIDE DEF x
  <1>7. ASSUME NEW e
        PROVE  /\ Of(out.s.nat, e) = IF m.eport = e THEN Of(s.nat, e) \cup {m} ELSE Of(s.nat, e)
               /\ Of(out.s.desc, e) = IF m.eport = e THEN Of(s.desc, e) \cup {x} ELSE Of(s.desc, e)
    <2>1. out.s.nat = Append(s.nat, m) /\ out.s.desc = <<x>> \o s.desc
      BY <1>2 DEF Holds
    <2>2. \A q \in Seq(NatRule) :
            Of(Append(q, m), e) = IF m.eport = e THEN Of(q, e) \cup {m} ELSE Of(q, e)
      BY OfAppend
    <2>3. \A q \in Seq(DescRule) :
            Of(<<x>> \o q, e) = IF x.eport = e THEN Of(q, e) \cup {x} ELSE Of(q, e)
      BY <1>6, OfPrepend
    <2> QED  BY <1>1, <1>6, <2>1, <2>2, <2>3
  <1>8. Of(s.nat, m.eport) = {} /\ Of(s.desc, m.eport) = {}
    BY <1>1, OfIs
  <1>9. Elsewhere(out.s, s, m.eport)
    BY <1>7 DEF Elsewhere
  <1>10. Of(out.s.nat, m.eport) = {m} /\ Of(out.s.desc, m.eport) = {x}
    BY <1>7, <1>8
  <1> QED  BY <1>2, <1>5, <1>9, <1>10 DEF Holds, out, x

\* The mapping of a port has another internal port and another end.
Remapped(r, s, eport, iport, t) ==
    /\ Agree(r) /\ Elsewhere(r, s, eport)
    /\ r.lease = s.lease
    /\ Of(r.desc, eport) = {Described(eport, t)}
    /\ \E x \in NatRule : /\ Of(s.nat, eport) = {x}
                          /\ Of(r.nat, eport) = {[x EXCEPT !.iport = iport]}

\* A description that is written again
LEMMA DescAgain ==
    ASSUME NEW s, Good(s), NEW eport \in Eports, NEW t \in Int, NEW e
    PROVE  Of(<<Described(eport, t)>> \o Without(s.desc, eport), e)
             = IF e = eport THEN {Described(eport, t)} ELSE Of(s.desc, e)
  <1> DEFINE x == Described(eport, t)
             q == Without(s.desc, eport)
  <1>1. s.desc \in Seq(DescRule) /\ Ones(s.desc) /\ q \in Seq(DescRule)
    BY GateFields, DelHolds DEF Good
  <1>2. x \in DescRule /\ x.eport = eport
    BY DEF DescRule, Described
  <1>3. Of(q, e) = IF e = eport THEN {} ELSE Of(s.desc, e)
    <2>1. \A d \in Seq(DescRule) : Ones(d) =>
            Of(Without(d, eport), e) = IF e = eport THEN {} ELSE Of(d, e)
      BY OfWithout
    <2> QED  BY <1>1, <2>1
  <1> HIDE DEF x, q
  <1>4. Of(<<x>> \o q, e) = IF x.eport = e THEN Of(q, e) \cup {x} ELSE Of(q, e)
    <2>1. \A d \in Seq(DescRule) :
            Of(<<x>> \o d, e) = IF x.eport = e THEN Of(d, e) \cup {x} ELSE Of(d, e)
      BY <1>2, OfPrepend
    <2> QED  BY <1>1, <2>1
  <1>5. Of(<<x>> \o q, e) = IF e = eport THEN {x} ELSE Of(s.desc, e)
    BY <1>2, <1>3, <1>4
  <1> QED  BY <1>5 DEF x, q

\* update_portmapping()
LEMMA UpdateRemaps ==
    ASSUME NEW s, Agree(s), NEW eport \in Eports, Has(s.nat, eport), NEW iport \in Iports,
           NEW timestamp \in Int
    PROVE  LET out == UpdatePortmapping(s, eport, iport, timestamp, {}) IN
           out.r = 0 /\ Remapped(out.s, s, eport, iport, timestamp)
  <1> DEFINE out == UpdatePortmapping(s, eport, iport, timestamp, {})
             desc == <<Described(eport, timestamp)>> \o Without(s.desc, eport)
  <1>1. s \in Gate /\ s.nat \in Seq(NatRule) /\ s.filter \in Seq(FilterRule)
        /\ s.post \in Seq(PostRule) /\ Ones(s.nat) /\ Good(s)
        /\ Agreeing(s.nat, s.filter, s.post) /\ Whole(s)
    BY GateFields DEF Agree, Whole, Good
  <1>2. Whole(out.s)
    BY <1>1, UpdateWhole
  <1>3. out.r = 0 /\
        \E i \in 1 .. Len(s.nat), j \in 1 .. Len(s.filter), k \in 1 .. Len(s.post) :
          /\ s.nat[i].eport = eport
          /\ To(s.filter[j], s.nat[i].iaddr, s.nat[i].iport)
          /\ s.post[k] = Masq(s.nat[i])
          /\ Holds(out.s, [s.nat EXCEPT ![i].iport = iport], [s.filter EXCEPT ![j].iport = iport],
                   [s.post EXCEPT ![k].iport = iport], desc, s.lease)
    BY UpdateDoes
  <1> HIDE DEF out, desc
  <1>4. PICK i \in 1 .. Len(s.nat), j \in 1 .. Len(s.filter), k \in 1 .. Len(s.post) :
          /\ s.nat[i].eport = eport
          /\ To(s.filter[j], s.nat[i].iaddr, s.nat[i].iport)
          /\ s.post[k] = Masq(s.nat[i])
          /\ Holds(out.s, [s.nat EXCEPT ![i].iport = iport], [s.filter EXCEPT ![j].iport = iport],
                   [s.post EXCEPT ![k].iport = iport], desc, s.lease)
    BY <1>3
  <1>5. Agreeing([s.nat EXCEPT ![i].iport = iport], [s.filter EXCEPT ![j].iport = iport],
                 [s.post EXCEPT ![k].iport = iport])
    BY <1>1, <1>4, ChangedAgree
  <1>6. Agree(out.s)
    BY <1>2, <1>4, <1>5 DEF Agree, Holds
  <1> DEFINE x == s.nat[i]
             y == [x EXCEPT !.iport = iport]
  <1>7. x \in NatRule /\ y \in NatRule /\ x.eport = eport /\ y.eport = eport
    <2>1. x \in NatRule /\ x.eport = eport
      BY <1>1, <1>4
    <2> QED  BY <2>1 DEF NatRule
  <1>8. Of(s.nat, eport) = {x}
    BY <1>1, <1>4, OfIs
  <1>9. out.s.nat = [s.nat EXCEPT ![i] = y] /\ out.s.desc = desc /\ out.s.lease = s.lease
    BY <1>4 DEF Holds
  <1> HIDE DEF y
  <1>10. \A e : Of(out.s.nat, e) = IF e = eport THEN {y} ELSE Of(s.nat, e)
    <2>1. \A q \in Seq(NatRule) : Ones(q) =>
            \A b \in 1 .. Len(q) : y.eport = q[b].eport =>
              \A e : Of([q EXCEPT ![b] = y], e) = IF e = y.eport THEN {y} ELSE Of(q, e)
      BY <1>7, OfChange
    <2>2. y.eport = s.nat[i].eport
      BY <1>7
    <2>3. \A e : Of([s.nat EXCEPT ![i] = y], e) = IF e = y.eport THEN {y} ELSE Of(s.nat, e)
      BY <1>1, <2>1, <2>2, Zenon
    <2> QED  BY <1>7, <1>9, <2>3
  <1>11. \A e : Of(out.s.desc, e) = IF e = eport THEN {Described(eport, timestamp)} ELSE Of(s.desc, e)
    <2>1. \A e : Of(desc, e) = IF e = eport THEN {Described(eport, timestamp)} ELSE Of(s.desc, e)
      BY <1>1, DescAgain DEF desc
    <2> QED  BY <1>9, <2>1
  <1>12. Elsewhere(out.s, s, eport)
    BY <1>10, <1>11 DEF Elsewhere
  <1>13. Of(out.s.desc, eport) = {Described(eport, timestamp)} /\ Of(out.s.nat, eport) = {y}
    BY <1>10, <1>11
  <1> HIDE DEF x
  <1>14. Remapped(out.s, s, eport, iport, timestamp)
    BY <1>6, <1>7, <1>8, <1>9, <1>12, <1>13 DEF Remapped, y
  <1> QED  BY <1>3, <1>14 DEF out

\* Twice over
LEMMA RemappedTwice ==
    ASSUME NEW s, NEW r, NEW z, NEW eport, NEW iport \in Iports, NEW t,
           Remapped(r, s, eport, iport, t), Remapped(z, r, eport, iport, t)
    PROVE  Remapped(z, s, eport, iport, t)
  <1>1. PICK x \in NatRule : Of(s.nat, eport) = {x} /\ Of(r.nat, eport) = {[x EXCEPT !.iport = iport]}
    BY DEF Remapped
  <1>2. PICK y \in NatRule : Of(r.nat, eport) = {y} /\ Of(z.nat, eport) = {[y EXCEPT !.iport = iport]}
    BY DEF Remapped
  <1>3. y = [x EXCEPT !.iport = iport]
    BY <1>1, <1>2
  <1>4. [y EXCEPT !.iport = iport] = [x EXCEPT !.iport = iport]
    BY <1>3 DEF NatRule
  <1>5. Of(z.nat, eport) = {[x EXCEPT !.iport = iport]}
    BY <1>2, <1>4
  <1>6. Elsewhere(z, s, eport)
    BY DEF Remapped, Elsewhere
  <1> QED  BY <1>1, <1>5, <1>6 DEF Remapped

\* The mapping of a client's port is overwritten.
LEMMA OverwriteRemaps ==
    ASSUME NEW s, Agree(s), NEW m \in NatRule, Has(s.nat, m.eport), NEW timestamp \in Int
    PROVE  LET out == Overwrite(s, m, s.nat[NatIndex(s, m.eport)].iport, timestamp, {}) IN
           out.r = 0 /\ Remapped(out.s, s, m.eport, m.iport, timestamp)
  <1> DEFINE i == NatIndex(s, m.eport)
             x == s.nat[i]
             out == Overwrite(s, m, x.iport, timestamp, {})
  <1>1. m.eport \in Eports /\ m.iport \in Iports /\ s \in Gate /\ Good(s) /\ Whole(s)
        /\ Ones(s.nat) /\ s.nat \in Seq(NatRule)
    BY GateFields DEF NatRule, Agree, Whole, Good
  <1>2. i \in 1 .. Len(s.nat) /\ x.eport = m.eport
    BY <1>1, AtFinds, Indices
  <1> HIDE DEF i
  <1>3. x \in NatRule /\ Of(s.nat, m.eport) = {x}
    BY <1>1, <1>2, OfIs
  <1>4. CASE m.iport = x.iport
    <2> DEFINE r == UpdateDescTimestamp(s, m.eport, timestamp)
    <2>1. out = Out(r, 0)
      BY <1>4 DEF Overwrite
    <2>2. Whole(r)
      BY <1>1, UpdateDescGood
    <2>3. Holds(r, s.nat, s.filter, s.post,
                <<Described(m.eport, timestamp)>> \o Without(s.desc, m.eport), s.lease)
      BY <1>1, DescHolds
    <2> HIDE DEF r, out, x
    <2>4. Agree(r)
      BY <2>2, <2>3 DEF Agree, Holds
    <2>5. \A e : Of(r.desc, e) = IF e = m.eport THEN {Described(m.eport, timestamp)} ELSE Of(s.desc, e)
      <3> DEFINE d == <<Described(m.eport, timestamp)>> \o Without(s.desc, m.eport)
      <3>1. \A e : Of(d, e) = IF e = m.eport THEN {Described(m.eport, timestamp)} ELSE Of(s.desc, e)
        BY <1>1, DescAgain
      <3>2. r.desc = d
        BY <2>3 DEF Holds
      <3> HIDE DEF d
      <3> QED  BY <3>1, <3>2
    <2>6. r.nat = s.nat /\ r.lease = s.lease
      BY <2>3 DEF Holds
    <2>7. [x EXCEPT !.iport = m.iport] = x
      BY <1>3, <1>4 DEF NatRule
    <2>8. Elsewhere(r, s, m.eport)
      BY <2>5, <2>6 DEF Elsewhere
    <2>9. Remapped(r, s, m.eport, m.iport, timestamp)
      BY <1>3, <2>4, <2>5, <2>6, <2>7, <2>8 DEF Remapped
    <2> QED  BY <2>1, <2>9 DEF Out, out, x, i
  <1>5. CASE m.iport # x.iport
    <2> DEFINE first == UpdatePortmapping(s, m.eport, m.iport, timestamp, {})
               second == UpdatePortmapping(first.s, m.eport, m.iport, timestamp, {})
    <2>1. Again({}) = {}
      BY DEF Again
    <2>2. out = second
      BY <1>5, <2>1 DEF Overwrite, On
    <2>3. Remapped(first.s, s, m.eport, m.iport, timestamp)
      BY <1>1, UpdateRemaps
    <2> HIDE DEF first, out, x
    <2>4. Agree(first.s) /\ Has(first.s.nat, m.eport)
      <3>1. Of(first.s.nat, m.eport) # {}
        BY <2>3 DEF Remapped
      <3> QED  BY <2>3, <3>1, OfIs DEF Remapped
    <2>5. second.r = 0 /\ Remapped(second.s, first.s, m.eport, m.iport, timestamp)
      BY <1>1, <2>4, UpdateRemaps
    <2> HIDE DEF second
    <2>6. Remapped(second.s, s, m.eport, m.iport, timestamp)
      BY <1>1, <2>3, <2>5, RemappedTwice
    <2> QED  BY <2>2, <2>5, <2>6 DEF out, x, i
  <1> QED  BY <1>4, <1>5

-----------------------------------------------------------------------------
\* When a mapping ends, by the daemon's clock
EndOf(duration) == IF duration > 0 THEN UpnpTime + duration ELSE 0

\* The port has the mapping, in the chains, in memory and in the lease file.
Mapped(r, s, m, t) ==
    /\ Agree(r) /\ Elsewhere(r, s, m.eport)
    /\ Of(r.desc, m.eport) = {Described(m.eport, t)}
    /\ \E x : Of(r.nat, m.eport) = {x} /\ LineOf(x, t) = LineOf(m, t)
    /\ r.lease = Append(IF Has(s.nat, m.eport) THEN Spared(s.lease, m.eport) ELSE s.lease,
                        LineOf(m, t))

\* A line of the lease file is written again.
LEMMA LeaseAgainMaps ==
    ASSUME NEW s, NEW z, NEW m \in NatRule, NEW t \in Int, now \in Int, boot \in Int,
           Has(s.nat, m.eport), NEW x \in NatRule, Of(s.nat, m.eport) = {x}, x.iaddr = m.iaddr,
           Remapped(z, s, m.eport, m.iport, t)
    PROVE  Mapped(LeaseAgain(z, m, t, {}), s, m, t)
  <1> DEFINE cut == LeaseRemove(z, m.eport, {})
             r == LeaseAgain(z, m, t, {})
  <1>1. z \in Gate /\ Whole(z) /\ Agreeing(z.nat, z.filter, z.post) /\ z.lease = s.lease
    BY DEF Remapped, Agree, Whole, Good
  <1>2. r = LeaseAdd(cut, m, t, {})
    BY DEF LeaseAgain
  <1>3. Same(cut, z) /\ Holds(cut, z.nat, z.filter, z.post, z.desc, Spared(z.lease, m.eport))
    BY <1>1, LeaseRemoveSame, LeaseRemoveHolds
  <1> HIDE DEF cut, r
  <1>4. cut \in Gate /\ cut.nat = z.nat /\ cut.filter = z.filter /\ cut.post = z.post
        /\ cut.desc = z.desc /\ cut.lease = Spared(z.lease, m.eport)
    BY <1>3 DEF Holds
  <1>5. Same(r, cut) /\ Holds(r, cut.nat, cut.filter, cut.post, cut.desc,
                              Append(cut.lease, LineOf(m, t)))
    <2>1. \A c \in Gate : LET a == LeaseAdd(c, m, t, {}) IN
            Same(a, c) /\ Holds(a, c.nat, c.filter, c.post, c.desc, Append(c.lease, LineOf(m, t)))
      BY LeaseAddSame, LeaseAddHolds
    <2> QED  BY <1>2, <1>4, <2>1
  <1>6. r.nat = z.nat /\ r.filter = z.filter /\ r.post = z.post /\ r.desc = z.desc
        /\ r.lease = Append(Spared(s.lease, m.eport), LineOf(m, t))
    BY <1>1, <1>4, <1>5 DEF Holds
  <1>7. Whole(r)
    BY <1>1, <1>3, <1>5, SameIsGood
  <1>8. Agree(r)
    BY <1>1, <1>6, <1>7 DEF Agree
  <1>9. Elsewhere(r, s, m.eport) /\ Of(r.desc, m.eport) = {Described(m.eport, t)}
    BY <1>6 DEF Remapped, Elsewhere
  <1> DEFINE y == [x EXCEPT !.iport = m.iport]
  <1>10. Of(r.nat, m.eport) = {y}
    <2>1. PICK v \in NatRule : Of(s.nat, m.eport) = {v}
                               /\ Of(z.nat, m.eport) = {[v EXCEPT !.iport = m.iport]}
      BY DEF Remapped
    <2>2. v = x
      BY <2>1
    <2> QED  BY <1>6, <2>1, <2>2
  <1>11. LineOf(y, t) = LineOf(m, t)
    <2>1. x.eport = m.eport
      <3>1. x \in Of(s.nat, m.eport)
        OBVIOUS
      <3> QED  BY <3>1, OfIs
    <2>2. y.eport = m.eport /\ y.iaddr = m.iaddr /\ y.iport = m.iport
      BY <2>1 DEF NatRule
    <2> HIDE DEF y
    <2> QED  BY <2>2 DEF LineOf
  <1> HIDE DEF y
  <1>12. Mapped(r, s, m, t)
    BY <1>6, <1>8, <1>9, <1>10, <1>11 DEF Mapped
  <1> QED  BY <1>12 DEF r

\* upnp_redirect() answers that another client has the port, or maps it.
LEMMA RedirectMaps ==
    ASSUME NEW s, Agree(s), NEW m \in NatRule, NEW duration \in Int, now \in Int, boot \in Int
    PROVE  LET out == UpnpRedirect(s, m, duration, {}) IN
           \/ /\ out.r = -2 /\ out.s = s /\ Has(s.nat, m.eport)
              /\ \E x \in Of(s.nat, m.eport) : m.iaddr # x.iaddr \/ m.rhost # x.rhost
           \/ out.r = 0 /\ Mapped(out.s, s, m, EndOf(duration))
  <1> DEFINE t == EndOf(duration)
             old == s.nat[NatIndex(s, m.eport)]
             int == UpnpRedirectInternal(s, m, t, {})
             done == Overwrite(s, m, old.iport, t, {})
             again == LeaseAgain(done.s, m, t, {})
             out == UpnpRedirect(s, m, duration, {})
  <1>1. out = IF ~Taken(s, m, {}) THEN int
              ELSE IF m.iaddr # old.iaddr \/ m.rhost # old.rhost THEN Out(s, -2)
              ELSE IF done.r # 0 THEN done ELSE Out(again, 0)
    BY DEF UpnpRedirect, On, EndOf
  <1> HIDE DEF out
  <1>2. t \in Int
    BY DEF UpnpTime, EndOf
  <1>3. s \in Gate /\ s.nat \in Seq(NatRule) /\ Ones(s.nat)
    BY GateFields DEF Agree, Whole, Good
  <1>4. Taken(s, m, {}) <=> Has(s.nat, m.eport)
    BY <1>3, Indices, AtFinds DEF Taken
  <1>5. CASE ~Has(s.nat, m.eport)
    <2>1. out = int
      BY <1>1, <1>4, <1>5
    <2> HIDE DEF t, int
    <2>2. /\ int.r = 0 /\ Agree(int.s) /\ Elsewhere(int.s, s, m.eport)
          /\ Of(int.s.nat, m.eport) = {m}
          /\ Of(int.s.desc, m.eport) = {Described(m.eport, t)}
          /\ int.s.lease = Append(s.lease, LineOf(m, t))
      BY <1>2, <1>5, InternalMaps DEF int
    <2>3. Mapped(int.s, s, m, t)
      BY <1>5, <2>2 DEF Mapped
    <2> QED  BY <2>1, <2>2, <2>3 DEF out, t
  <1>6. CASE Has(s.nat, m.eport) /\ (m.iaddr # old.iaddr \/ m.rhost # old.rhost)
    <2>1. out = Out(s, -2)
      BY <1>1, <1>4, <1>6
    <2>2. NatIndex(s, m.eport) \in 1 .. Len(s.nat) /\ old.eport = m.eport
      BY <1>3, <1>6, Indices, AtFinds
    <2>3. old \in Of(s.nat, m.eport)
      BY <2>2 DEF Of
    <2> HIDE DEF old
    <2> QED  BY <1>6, <2>1, <2>3 DEF Out, out
  <1>7. CASE Has(s.nat, m.eport) /\ ~(m.iaddr # old.iaddr \/ m.rhost # old.rhost)
    <2> HIDE DEF t
    <2>1. done.r = 0 /\ Remapped(done.s, s, m.eport, m.iport, t)
      BY <1>2, <1>7, OverwriteRemaps
    <2>2. NatIndex(s, m.eport) \in 1 .. Len(s.nat) /\ old.eport = m.eport
      BY <1>3, <1>7, Indices, AtFinds
    <2>3. old \in NatRule /\ Of(s.nat, m.eport) = {old}
      BY <1>3, <2>2, OfIs
    <2>4. old.iaddr = m.iaddr
      BY <1>7
    <2> HIDE DEF done, old
    <2>5. Mapped(again, s, m, t)
      BY <1>2, <1>7, <2>1, <2>3, <2>4, LeaseAgainMaps
    <2>6. out = Out(again, 0)
      BY <1>1, <1>4, <1>7, <2>1
    <2> HIDE DEF again
    <2> QED  BY <2>5, <2>6 DEF Out, out, t
  <1> QED  BY <1>5, <1>6, <1>7

\* The port has nothing left.
Cleared(r, s, eport) ==
    /\ Agree(r) /\ Elsewhere(r, s, eport)
    /\ Of(r.nat, eport) = {} /\ Of(r.desc, eport) = {}
    /\ r.lease = Spared(s.lease, eport)

\* _upnp_delete_redir()
LEMMA DeleteClears ==
    ASSUME NEW s, Agree(s), NEW eport
    PROVE  Cleared(UpnpDeleteRedir(s, eport, {}).s, s, eport)
  <1> DEFINE r == UpnpDeleteRedir(s, eport, {}).s
  <1>1. s \in Gate /\ s.nat \in Seq(NatRule) /\ s.filter \in Seq(FilterRule)
        /\ s.post \in Seq(PostRule) /\ s.desc \in Seq(DescRule) /\ Good(s) /\ Whole(s)
        /\ Ones(s.nat) /\ Ones(s.desc) /\ Agreeing(s.nat, s.filter, s.post)
    BY GateFields DEF Agree, Whole, Good
  <1>2. Whole(r)
    BY <1>1, DeleteGood
  <1>3. /\ ~Has(s.nat, eport) => Holds(r, s.nat, s.filter, s.post, s.desc, Spared(s.lease, eport))
        /\ Has(s.nat, eport) =>
             \E i \in 1 .. Len(s.nat), j \in 1 .. Len(s.filter), k \in 1 .. Len(s.post) :
               /\ s.nat[i].eport = eport
               /\ To(s.filter[j], s.nat[i].iaddr, s.nat[i].iport)
               /\ s.post[k].eport = eport
               /\ Holds(r, RemoveAt(s.nat, i), RemoveAt(s.filter, j), RemoveAt(s.post, k),
                        Without(s.desc, eport), Spared(s.lease, eport))
    BY DeleteDoes
  <1> HIDE DEF r
  <1>4. CASE ~Has(s.nat, eport)
    <2>1. r.nat = s.nat /\ r.filter = s.filter /\ r.post = s.post /\ r.desc = s.desc
          /\ r.lease = Spared(s.lease, eport)
      BY <1>3, <1>4 DEF Holds
    <2>2. Of(s.nat, eport) = {} /\ Of(s.desc, eport) = {}
      BY <1>1, <1>4, OfIs DEF Whole
    <2>3. Agree(r) /\ Elsewhere(r, s, eport)
      BY <1>1, <1>2, <2>1 DEF Agree, Elsewhere
    <2>4. Cleared(r, s, eport)
      BY <2>1, <2>2, <2>3 DEF Cleared
    <2> QED  BY <2>4 DEF r
  <1>5. CASE Has(s.nat, eport)
    <2>1. PICK i \in 1 .. Len(s.nat), j \in 1 .. Len(s.filter), k \in 1 .. Len(s.post) :
               /\ s.nat[i].eport = eport
               /\ To(s.filter[j], s.nat[i].iaddr, s.nat[i].iport)
               /\ s.post[k].eport = eport
               /\ Holds(r, RemoveAt(s.nat, i), RemoveAt(s.filter, j), RemoveAt(s.post, k),
                        Without(s.desc, eport), Spared(s.lease, eport))
      BY <1>3, <1>5
    <2>2. r.nat = RemoveAt(s.nat, i) /\ r.filter = RemoveAt(s.filter, j)
          /\ r.post = RemoveAt(s.post, k) /\ r.desc = Without(s.desc, eport)
          /\ r.lease = Spared(s.lease, eport)
      BY <2>1 DEF Holds
    <2>3. Agreeing(r.nat, r.filter, r.post)
      BY <1>1, <2>1, <2>2, CutAgree
    <2>4. \A e : Of(r.nat, e) = IF e = eport THEN {} ELSE Of(s.nat, e)
      <3>1. \A q \in Seq(NatRule) : Ones(q) => \A a \in 1 .. Len(q) :
              \A e : Of(RemoveAt(q, a), e) = IF e = q[a].eport THEN {} ELSE Of(q, e)
        BY OfCut
      <3>2. \A e : Of(RemoveAt(s.nat, i), e) = IF e = s.nat[i].eport THEN {} ELSE Of(s.nat, e)
        BY <1>1, <3>1
      <3> QED  BY <2>1, <2>2, <3>2
    <2>5. \A e : Of(r.desc, e) = IF e = eport THEN {} ELSE Of(s.desc, e)
      <3>1. \A d \in Seq(DescRule) : Ones(d) =>
              \A e : Of(Without(d, eport), e) = IF e = eport THEN {} ELSE Of(d, e)
        BY OfWithout
      <3> QED  BY <1>1, <2>2, <3>1
    <2>6. Elsewhere(r, s, eport) /\ Of(r.nat, eport) = {} /\ Of(r.desc, eport) = {}
      BY <2>4, <2>5 DEF Elsewhere
    <2>7. Cleared(r, s, eport)
      BY <1>2, <2>2, <2>3, <2>6 DEF Cleared, Agree
    <2> QED  BY <2>7 DEF r
  <1> QED  BY <1>4, <1>5

-----------------------------------------------------------------------------
(***************************************************************************)
(* Handlers that do not come to their end: what becomes of the lease file. *)
(***************************************************************************)
\* A state with the file l
Files(s, l) == "lease" \in DOMAIN s /\ s.lease = l

\* The other fields have nothing to do with it.
LEMMA FieldsFile ==
    ASSUME NEW s, NEW l, Files(s, l)
    PROVE  \A x : /\ Files([s EXCEPT !.nat = x], l) /\ Files([s EXCEPT !.filter = x], l)
                  /\ Files([s EXCEPT !.post = x], l) /\ Files([s EXCEPT !.desc = x], l)
                  /\ Files([s EXCEPT !.next = x], l) /\ Files([s EXCEPT !.list = x], l)
  BY DEF Files

\* Descriptions are not in it.
LEMMA DescFile ==
    ASSUME NEW s, NEW l, Files(s, l), NEW eport, NEW t
    PROVE  /\ Files(DelRedirectDesc(s, eport), l)
           /\ Files(AddRedirectDesc(s, eport, t), l)
           /\ Files(UpdateDescTimestamp(s, eport, t), l)
  <1>1. ASSUME NEW r, Files(r, l) PROVE Files(DelRedirectDesc(r, eport), l)
    BY <1>1, FieldsFile DEF DelRedirectDesc
  <1>2. ASSUME NEW r, Files(r, l) PROVE Files(AddRedirectDesc(r, eport, t), l)
    BY <1>2, FieldsFile DEF AddRedirectDesc
  <1> QED  BY <1>1, <1>2 DEF UpdateDescTimestamp

\* add_redirect_rule2() and add_filter_rule2()
LEMMA AddFile ==
    ASSUME NEW s, NEW l, Files(s, l), NEW m, NEW t, NEW fails
    PROVE  /\ Files(AddRedirectRule2(s, m, t, fails).s, l)
           /\ "nat" \in fails => AddRedirectRule2(s, m, t, fails).r < 0
           /\ Files(AddFilterRule2(s, m, fails).s, l)
  <1> DEFINE a == [s EXCEPT !.nat = Append(s.nat, m)]
             b == AddRedirectDesc(a, m.eport, t)
             y == [eport |-> m.eport, iaddr |-> m.iaddr, iport |-> m.iport]
             c == [b EXCEPT !.post = Append(b.post, y)]
             out == AddRedirectRule2(s, m, t, fails)
             open == AddFilterRule2(s, m, fails)
             f == [s EXCEPT !.filter = Append(s.filter, [iaddr |-> m.iaddr, iport |-> m.iport,
                                                         rhost |-> m.rhost])]
  <1>1. out = IF "nat" \in fails THEN Out(s, -1) ELSE IF "post" \in fails THEN Out(b, -1)
              ELSE Out(c, 0)
    BY DEF AddRedirectRule2
  <1>2. open = IF "filter" \in fails THEN Out(s, -1) ELSE Out(f, 0)
    BY DEF AddFilterRule2
  <1>3. Files(a, l) /\ Files(f, l)
    BY FieldsFile
  <1> HIDE DEF a, f, out, open
  <1>4. Files(b, l)
    BY <1>3, DescFile
  <1> HIDE DEF b
  <1>5. Files(c, l)
    BY <1>4, FieldsFile
  <1> HIDE DEF c
  <1>6. Files(out.s, l) /\ ("nat" \in fails => out.r < 0) /\ Files(open.s, l)
    BY <1>1, <1>2, <1>3, <1>4, <1>5 DEF Out
  <1> QED  BY <1>6 DEF out, open

\* update_portmapping()
LEMMA UpdateFile ==
    ASSUME NEW s, NEW l, Files(s, l), NEW eport, NEW iport, NEW t, NEW fails
    PROVE  Files(UpdatePortmapping(s, eport, iport, t, fails).s, l)
  <1> DEFINE i == NatIndex(s, eport)
             old == s.nat[i]
             natted == [s EXCEPT !.nat[i].iport = iport]
             j == FilterIndex(s, old.iaddr, old.iport)
             f == UpdateFilter(natted, j, iport)
             snatted == UpdateSnat(f, eport, old.iaddr, old.iport, iport, fails)
             r == UpdateDescTimestamp(snatted, eport, t)
             out == UpdatePortmapping(s, eport, iport, t, fails)
  <1>1. out = IF i = 0 \/ "nat" \in fails THEN Out(s, -1)
              ELSE IF j = 0 \/ "filter" \in fails THEN Out(natted, -1) ELSE Out(r, 0)
    BY DEF UpdatePortmapping
  <1>2. Files(natted, l)
    <2> DEFINE w == [s.nat EXCEPT ![i].iport = iport]
    <2>1. natted = [s EXCEPT !.nat = w]
      OBVIOUS
    <2> HIDE DEF natted, w
    <2> QED  BY <2>1, FieldsFile
  <1> HIDE DEF out, natted, i, j, old
  <1>3. Files(f, l)
    <2> DEFINE w == [natted.filter EXCEPT ![j].iport = iport]
    <2>1. f = [natted EXCEPT !.filter = w]
      BY DEF UpdateFilter
    <2> HIDE DEF f, w
    <2> QED  BY <1>2, <2>1, FieldsFile
  <1> HIDE DEF f
  <1>4. Files(snatted, l)
    <2> DEFINE k == SelectInSeq(f.post, LAMBDA e : /\ e.eport = eport /\ e.iaddr = old.iaddr
                                                   /\ e.iport = old.iport)
               w == [f.post EXCEPT ![k].iport = iport]
    <2>1. snatted = IF k = 0 \/ "post" \in fails THEN f ELSE [f EXCEPT !.post = w]
      BY DEF UpdateSnat
    <2> HIDE DEF snatted, k, w
    <2> QED  BY <1>3, <2>1, FieldsFile
  <1> HIDE DEF snatted
  <1>5. Files(r, l)
    BY <1>4, DescFile
  <1> HIDE DEF r
  <1>6. Files(out.s, l)
    BY <1>1, <1>2, <1>5 DEF Out
  <1> QED  BY <1>6 DEF out

\* delete_redirect_and_filter_rules()
LEMMA DeleteFile ==
    ASSUME NEW s, NEW l, Files(s, l), NEW eport, NEW fails
    PROVE  Files(DeleteRedirectAndFilterRules(s, eport, fails).s, l)
  <1> DEFINE first == DeleteNatAndFilter(s, eport, fails)
             second == DeletePost(first.s, eport, fails)
             del == DeleteRedirectAndFilterRules(s, eport, fails)
  <1>1. del = IF "get" \in fails THEN Out(s, -1)
              ELSE Out(DelRedirectDesc(second.s, eport), first.r * second.r)
    BY DEF DeleteRedirectAndFilterRules, On
  <1>2. Files(first.s, l)
    <2> DEFINE i == NatIndex(s, eport)
               x == s.nat[i]
               w == RemoveAt(s.nat, i)
               u == IF "init" \in fails THEN s ELSE [s EXCEPT !.nat = w]
               v == DeleteFilter(u, x.iaddr, x.iport)
    <2>1. \/ first = Out(s, -1)
          \/ first = Out(u, IF FilterIndex(s, x.iaddr, x.iport) = 0 THEN 0 ELSE -1)
          \/ first = Out(v, 0)
      BY DEF DeleteNatAndFilter
    <2> HIDE DEF first, x, w
    <2>2. Files(u, l)
      BY FieldsFile
    <2> HIDE DEF u
    <2>3. Files(v, l)
      BY <2>2, FieldsFile DEF DeleteFilter
    <2> HIDE DEF v
    <2> QED  BY <2>1, <2>2, <2>3 DEF Out
  <1> HIDE DEF first
  <1>3. Files(second.s, l)
    <2> DEFINE t == first.s
               w == RemoveAt(t.post, PostIndex(t, eport))
               p == [t EXCEPT !.post = w]
    <2>1. second = Out(t, -1) \/ second = Out(p, 0)
      BY DEF DeletePost
    <2> HIDE DEF second, t, w
    <2>2. Files(p, l)
      BY <1>2, FieldsFile DEF t
    <2> HIDE DEF p
    <2> QED  BY <1>2, <2>1, <2>2 DEF Out, t
  <1> HIDE DEF second, del
  <1>4. Files(DelRedirectDesc(second.s, eport), l)
    BY <1>3, DescFile
  <1>5. Files(del.s, l)
    BY <1>1, <1>4 DEF Out
  <1> QED  BY <1>5 DEF del

-----------------------------------------------------------------------------
\* lease_file_add() and lease_file_remove()
LEMMA LeaseFile ==
    ASSUME NEW s, NEW l, Files(s, l), NEW m, NEW t \in Int, NEW eport, NEW fails,
           now \in Int, boot \in Int
    PROVE  /\ Files(LeaseAdd(s, m, t, fails),
                    IF "lease" \in fails THEN l ELSE Append(l, LineOf(m, t)))
           /\ Files(LeaseRemove(s, eport, fails),
                    IF "unlease" \in fails THEN l ELSE Spared(l, eport))
  <1> DEFINE a == Append(s.lease, LineOf(m, t))
             b == Spared(s.lease, eport)
             add == LeaseAdd(s, m, t, fails)
             rem == LeaseRemove(s, eport, fails)
  <1>1. add = IF "lease" \in fails THEN s ELSE [s EXCEPT !.lease = a]
    <2>1. t - UpnpTime + now = t + boot
      BY DEF UpnpTime
    <2> QED  BY <2>1 DEF LeaseAdd, LineOf
  <1>2. rem = IF "unlease" \in fails THEN s ELSE [s EXCEPT !.lease = b]
    BY DEF LeaseRemove, Those, Spared
  <1>3. a = Append(l, LineOf(m, t)) /\ b = Spared(l, eport)
    BY DEF Files
  <1> HIDE DEF a, b, add, rem
  <1>4. Files([s EXCEPT !.lease = a], a) /\ Files([s EXCEPT !.lease = b], b)
    BY DEF Files
  <1>5. /\ Files(add, IF "lease" \in fails THEN l ELSE a)
        /\ Files(rem, IF "unlease" \in fails THEN l ELSE b)
    BY <1>1, <1>2, <1>4
  <1> QED  BY <1>3, <1>5 DEF add, rem

\* upnp_redirect_internal()
LEMMA InternalFile ==
    ASSUME NEW s, NEW l, Files(s, l), NEW m, NEW t \in Int, NEW fails, now \in Int, boot \in Int
    PROVE  LET r == UpnpRedirectInternal(s, m, t, fails).s IN
           Files(r, l) \/ ("nat" \notin fails /\ Files(r, Append(l, LineOf(m, t))))
  <1> DEFINE rdr == AddRedirectRule2(s, m, t, fails)
             leased == LeaseAdd(rdr.s, m, t, fails)
             open == AddFilterRule2(leased, m, fails)
             next == Sooner(open.s.next, t)
             last == [open.s EXCEPT !.next = next]
             out == UpnpRedirectInternal(s, m, t, fails)
             l2 == IF "lease" \in fails THEN l ELSE Append(l, LineOf(m, t))
  <1>1. out = IF rdr.r < 0 THEN Out(rdr.s, -1)
              ELSE IF open.r < 0 THEN Out(open.s, -1) ELSE Out(last, 0)
    BY DEF UpnpRedirectInternal, On
  <1>2. Files(rdr.s, l) /\ ("nat" \in fails => rdr.r < 0)
    BY AddFile
  <1> HIDE DEF out, rdr
  <1>3. Files(leased, l2)
    BY <1>2, LeaseFile
  <1> HIDE DEF leased
  <1>4. Files(open.s, l2)
    BY <1>3, AddFile
  <1> HIDE DEF open, next
  <1>5. Files(last, l2)
    BY <1>4, FieldsFile
  <1> HIDE DEF last, l2
  <1>6. Files(out.s, l) \/ ("nat" \notin fails /\ Files(out.s, l2))
    BY <1>1, <1>2, <1>4, <1>5 DEF Out
  <1> QED  BY <1>6 DEF out, l2

\* The rule of a port is overwritten, but not yet its line.
LEMMA OverwriteFile ==
    ASSUME NEW s, NEW l, Files(s, l), NEW m, NEW old, NEW t, NEW fails
    PROVE  Files(Overwrite(s, m, old, t, fails).s, l)
  <1> DEFINE r == UpdateDescTimestamp(s, m.eport, t)
             first == UpdatePortmapping(s, m.eport, m.iport, t, fails)
             second == UpdatePortmapping(first.s, m.eport, m.iport, t, Again(fails))
             out == Overwrite(s, m, old, t, fails)
  <1>1. out = IF m.iport = old THEN Out(r, 0) ELSE second
    BY DEF Overwrite, On
  <1>2. Files(r, l)
    BY DescFile
  <1>3. Files(first.s, l)
    BY UpdateFile
  <1> HIDE DEF out, r, first
  <1>4. Files(second.s, l)
    BY <1>3, UpdateFile
  <1> HIDE DEF second
  <1>5. Files(out.s, l)
    BY <1>1, <1>2, <1>4 DEF Out
  <1> QED  BY <1>5 DEF out

\* upnp_redirect(): what may be in the file when it comes to its end or dies
LEMMA RedirectFile ==
    ASSUME NEW s \in Gate, NEW m, NEW duration \in Int, now \in Int, boot \in Int, NEW fails,
           "get" \in fails => "nat" \in fails, "unlease" \in fails => "lease" \in fails
    PROVE  LET r == UpnpRedirect(s, m, duration, fails).s
               x == LineOf(m, EndOf(duration))
           IN  \/ Files(r, s.lease)
               \/ Files(r, Spared(s.lease, m.eport))
               \/ Files(r, Append(Spared(s.lease, m.eport), x))
               \/ ~Has(s.nat, m.eport) /\ Files(r, Append(s.lease, x))
  <1> DEFINE t == EndOf(duration)
             l == s.lease
             old == s.nat[NatIndex(s, m.eport)]
             int == UpnpRedirectInternal(s, m, t, fails)
             done == Overwrite(s, m, old.iport, t, fails)
             cut == LeaseRemove(done.s, m.eport, fails)
             again == LeaseAgain(done.s, m, t, fails)
             out == UpnpRedirect(s, m, duration, fails)
             x == LineOf(m, t)
  <1>1. out = IF ~Taken(s, m, fails) THEN int
              ELSE IF m.iaddr # old.iaddr \/ m.rhost # old.rhost THEN Out(s, -2)
              ELSE IF done.r # 0 THEN done ELSE Out(again, 0)
    BY DEF UpnpRedirect, On, EndOf
  <1> HIDE DEF out
  <1>2. t \in Int
    BY DEF UpnpTime, EndOf
  <1>3. Files(s, l)
    BY DEF Gate, Files
  <1> HIDE DEF t, l
  <1>4. Files(int.s, l) \/ ("nat" \notin fails /\ Files(int.s, Append(l, x)))
    BY <1>2, <1>3, InternalFile
  <1>5. ~Taken(s, m, fails) /\ "nat" \notin fails => ~Has(s.nat, m.eport)
    BY GateFields, AtFinds, Indices DEF Taken
  <1>6. Files(done.s, l)
    BY <1>3, OverwriteFile
  <1>7. again = LeaseAdd(cut, m, t, fails)
    BY DEF LeaseAgain
  <1> HIDE DEF int, done, again, x
  <1>8. Files(cut, IF "unlease" \in fails THEN l ELSE Spared(l, m.eport))
    BY <1>2, <1>6, LeaseFile
  <1> HIDE DEF cut
  <1>9. Files(again, l) \/ Files(again, Spared(l, m.eport))
        \/ Files(again, Append(Spared(l, m.eport), x))
    <2> DEFINE k == IF "unlease" \in fails THEN l ELSE Spared(l, m.eport)
    <2>1. Files(again, IF "lease" \in fails THEN k ELSE Append(k, x))
      <3> HIDE DEF k
      <3>1. Files(cut, k)
        BY <1>8 DEF k
      <3> QED  BY <1>2, <1>7, <3>1, LeaseFile DEF x
    <2> QED  BY <2>1
  <1>10. \/ Files(out.s, l) \/ Files(out.s, Spared(l, m.eport))
         \/ Files(out.s, Append(Spared(l, m.eport), x))
         \/ ~Has(s.nat, m.eport) /\ Files(out.s, Append(l, x))
    BY <1>1, <1>3, <1>4, <1>5, <1>6, <1>9 DEF Out
  <1> QED  BY <1>10 DEF out, x, t, l

\* _upnp_delete_redir()
LEMMA DeleteRedirFile ==
    ASSUME NEW s \in Gate, NEW eport, NEW fails, now \in Int, boot \in Int
    PROVE  LET r == UpnpDeleteRedir(s, eport, fails).s IN
           Files(r, s.lease) \/ Files(r, Spared(s.lease, eport))
  <1> DEFINE del == DeleteRedirectAndFilterRules(s, eport, fails)
             cut == LeaseRemove(del.s, eport, fails)
             l == s.lease
  <1>1. UpnpDeleteRedir(s, eport, fails) = Out(cut, del.r)
    BY DEF UpnpDeleteRedir, On
  <1>2. Files(s, l)
    BY DEF Gate, Files
  <1> HIDE DEF l
  <1>3. Files(del.s, l)
    BY <1>2, DeleteFile
  <1> HIDE DEF del
  <1>4. Files(cut, IF "unlease" \in fails THEN l ELSE Spared(l, eport))
    <2>1. \A t \in Int : Files(cut, IF "unlease" \in fails THEN l ELSE Spared(l, eport))
      BY <1>3, LeaseFile
    <2>2. 0 \in Int
      OBVIOUS
    <2> QED  BY <2>1, <2>2
  <1> HIDE DEF cut
  <1> QED  BY <1>1, <1>4 DEF Out, l

-----------------------------------------------------------------------------
(***************************************************************************)
(* The lines of the lease file are those of the mappings.                  *)
(***************************************************************************)
\* The ports whose lines only their own removal takes
Plain == {e \in Eports : ~Exposed(e)}

Stamp(D) == IF D = {} THEN 0 ELSE (CHOOSE d \in D : TRUE).timestamp

\* The lines a port is to have
Lines(s, e) == {LineOf(m, Stamp(Of(s.desc, e))) : m \in Of(s.nat, e)}

Recorded(s, e) == OneAt(s.lease, e) /\ Of(s.lease, e) = Lines(s, e)

Settled(s) == Agree(s) /\ (~Keeps => \A e \in Plain : Recorded(s, e))

\* What is left when the daemon dies in a handler
Lone(s) == ~Keeps => \A e \in Plain : OneAt(s.lease, e)

\* A port begins with its own digits, and no other port with those of a plain one.
LEMMA Digits ==
    /\ \A e : TextPrefix(e, e)
    /\ \A e \in Plain : \A other \in Eports : other # e => ~TextPrefix(other, e)
  BY DEF TextPrefix, Plain, Exposed

\* The lines of the ports nothing was done to
LEMMA OthersRecorded ==
    ASSUME NEW r, NEW s, NEW eport, Elsewhere(r, s, eport), NEW e, e # eport
    PROVE  Lines(r, e) = Lines(s, e)
  BY DEF Lines, Elsewhere

\* One more line
LEMMA LineAdded ==
    ASSUME NEW q \in Seq(FileLine), NEW x \in FileLine, NEW e
    PROVE  /\ x.eport # e => Of(Append(q, x), e) = Of(q, e)
           /\ x.eport = e /\ Of(q, e) = {} => Of(Append(q, x), e) = {x}
           /\ OneAt(q, e) /\ (x.eport = e => Of(q, e) = {}) => OneAt(Append(q, x), e)
  <1>1. \A w \in Seq(FileLine) :
          /\ Of(Append(w, x), e) = IF x.eport = e THEN Of(w, e) \cup {x} ELSE Of(w, e)
          /\ OneAt(w, e) /\ (x.eport = e => ~Has(w, e)) => OneAt(Append(w, x), e)
    BY OfAppend
  <1>2. Of(q, e) = {} <=> ~Has(q, e)
    BY OfIs
  <1> QED  BY <1>1, <1>2

\* upnp_redirect() has mapped the port.
LEMMA MappedSettles ==
    ASSUME NEW s, Settled(s), NEW r, NEW m \in NatRule, NEW t \in Int, boot \in Int,
           Mapped(r, s, m, t)
    PROVE  Settled(r)
  <1> DEFINE x == LineOf(m, t)
             q == IF Has(s.nat, m.eport) THEN Spared(s.lease, m.eport) ELSE s.lease
  <1>1. s \in Gate /\ s.lease \in Seq(FileLine)
    BY GateFields DEF Settled, Agree, Whole, Good
  <1>2. q \in Seq(FileLine)
    BY <1>1, LeaseRemoveHolds
  <1>3. x \in FileLine /\ x.eport = m.eport /\ m.eport \in Eports
    BY ListsTyped DEF LineOf, NatRule
  <1>4. /\ Agree(r) /\ Elsewhere(r, s, m.eport)
        /\ Of(r.desc, m.eport) = {Described(m.eport, t)}
        /\ r.lease = Append(q, x)
    BY DEF Mapped
  <1>5. PICK y : Of(r.nat, m.eport) = {y} /\ LineOf(y, t) = x
    BY DEF Mapped
  <1> SUFFICES ASSUME ~Keeps, NEW e \in Plain PROVE Recorded(r, e)
    BY <1>4 DEF Settled
  <1>6. Recorded(s, e)
    BY DEF Settled
  <1>7. /\ Of(Spared(s.lease, m.eport), e) = IF TextPrefix(m.eport, e) THEN {} ELSE Of(s.lease, e)
        /\ OneAt(Spared(s.lease, m.eport), e)
    BY <1>1, <1>6, OfSpared DEF Recorded
  <1>8. OneAt(q, e)
    BY <1>6, <1>7 DEF Recorded
  <1>9. CASE e = m.eport
    <2>1. Of(q, e) = {}
      <3>1. CASE Has(s.nat, e)
        BY <1>7, <1>9, <3>1, Digits
      <3>2. CASE ~Has(s.nat, e)
        <4>1. Of(s.nat, e) = {}
          BY <3>2, OfIs
        <4>2. Of(s.lease, e) = {}
          BY <1>6, <4>1 DEF Recorded, Lines
        <4> QED  BY <1>9, <3>2, <4>2
      <3> QED  BY <3>1, <3>2
    <2> HIDE DEF x, q
    <2>2. Of(r.lease, e) = {x} /\ OneAt(r.lease, e)
      <3>1. x.eport = e
        BY <1>3, <1>9
      <3>2. Of(Append(q, x), e) = {x} /\ OneAt(Append(q, x), e)
        BY <1>2, <1>3, <1>8, <2>1, <3>1, LineAdded
      <3> QED  BY <1>4, <3>2
    <2>3. Stamp(Of(r.desc, e)) = t
      <3> DEFINE d == Described(m.eport, t)
      <3>1. d.timestamp = t
        BY DEF Described
      <3> HIDE DEF d
      <3>2. (CHOOSE c \in {d} : TRUE) = d
        OBVIOUS
      <3>3. Of(r.desc, e) = {d}
        BY <1>4, <1>9 DEF d
      <3> HIDE DEF Of
      <3> QED  BY <3>1, <3>2, <3>3 DEF Stamp
    <2>4. Lines(r, e) = {x}
      BY <1>5, <1>9, <2>3 DEF Lines
    <2> QED  BY <2>2, <2>4 DEF Recorded
  <1>10. CASE e # m.eport
    <2>1. Of(q, e) = Of(s.lease, e)
      BY <1>3, <1>7, <1>10, Digits
    <2> HIDE DEF x, q
    <2>2. Of(r.lease, e) = Of(s.lease, e) /\ OneAt(r.lease, e)
      BY <1>2, <1>3, <1>4, <1>8, <1>10, <2>1, LineAdded
    <2>3. Lines(r, e) = Lines(s, e)
      BY <1>4, <1>10, OthersRecorded
    <2> QED  BY <1>6, <2>2, <2>3 DEF Recorded
  <1> QED  BY <1>9, <1>10

\* _upnp_delete_redir() has cleared the port.
LEMMA ClearedSettles ==
    ASSUME NEW s, Settled(s), NEW r, NEW eport \in Eports, Cleared(r, s, eport)
    PROVE  Settled(r)
  <1>1. s \in Gate /\ s.lease \in Seq(FileLine)
    BY GateFields DEF Settled, Agree, Whole, Good
  <1>2. /\ Agree(r) /\ Elsewhere(r, s, eport) /\ Of(r.nat, eport) = {}
        /\ r.lease = Spared(s.lease, eport)
    BY DEF Cleared
  <1> SUFFICES ASSUME ~Keeps, NEW e \in Plain PROVE Recorded(r, e)
    BY <1>2 DEF Settled
  <1>3. Recorded(s, e)
    BY DEF Settled
  <1>4. /\ Of(r.lease, e) = IF TextPrefix(eport, e) THEN {} ELSE Of(s.lease, e)
        /\ OneAt(r.lease, e)
    BY <1>1, <1>2, <1>3, OfSpared DEF Recorded
  <1>5. CASE e = eport
    <2>1. Of(r.lease, e) = {}
      BY <1>4, <1>5, Digits
    <2>2. Lines(r, e) = {}
      BY <1>2, <1>5 DEF Lines
    <2> QED  BY <1>4, <2>1, <2>2 DEF Recorded
  <1>6. CASE e # eport
    <2>1. Of(r.lease, e) = Of(s.lease, e)
      BY <1>4, <1>6, Digits
    <2>2. Lines(r, e) = Lines(s, e)
      BY <1>2, <1>6, OthersRecorded
    <2> QED  BY <1>3, <1>4, <2>1, <2>2 DEF Recorded
  <1> QED  BY <1>5, <1>6

\* nextruletoclean_timestamp and the list of unused rules have nothing to do with it.
LEMMA FieldsSettle ==
    ASSUME NEW s, Settled(s)
    PROVE  /\ \A x \in Int : Settled([s EXCEPT !.next = x])
           /\ \A x \in Seq(Entry) : Settled([s EXCEPT !.list = x])
  <1>1. s \in Gate /\ Agree(s) /\ Whole(s)
    BY DEF Settled, Agree, Whole, Good
  <1>2. ASSUME NEW r, Holds(r, s.nat, s.filter, s.post, s.desc, s.lease) PROVE Settled(r)
    <2>1. /\ r \in Gate /\ r.nat = s.nat /\ r.filter = s.filter /\ r.post = s.post
          /\ r.desc = s.desc /\ r.lease = s.lease
      BY <1>2 DEF Holds
    <2>2. Whole(r)
      BY <1>1, <2>1, SameIsGood DEF Same
    <2>3. Agree(r)
      BY <1>1, <2>1, <2>2 DEF Agree
    <2>4. \A e : Recorded(s, e) => Recorded(r, e)
      BY <2>1 DEF Recorded, Lines
    <2> QED  BY <2>3, <2>4 DEF Settled
  <1>3. \A x \in Int : Holds([s EXCEPT !.next = x], s.nat, s.filter, s.post, s.desc, s.lease)
    BY <1>1, FieldsHold
  <1>4. \A x \in Seq(Entry) : Holds([s EXCEPT !.list = x], s.nat, s.filter, s.post, s.desc, s.lease)
    BY <1>1, FieldsHold
  <1> QED  BY <1>2, <1>3, <1>4

\* A line more for a port that is not plain
LEMMA OtherLineSettles ==
    ASSUME NEW s, Settled(s), NEW m \in NatRule, NEW t \in Int, now \in Int, boot \in Int,
           Keeps \/ m.eport \notin Plain
    PROVE  Settled(LeaseAdd(s, m, t, {}))
  <1> DEFINE r == LeaseAdd(s, m, t, {})
             x == LineOf(m, t)
  <1>1. s \in Gate /\ Agree(s) /\ Whole(s) /\ s.lease \in Seq(FileLine)
    BY GateFields DEF Settled, Agree, Whole, Good
  <1>2. x \in FileLine /\ x.eport = m.eport
    BY ListsTyped DEF LineOf
  <1>3. Holds(r, s.nat, s.filter, s.post, s.desc, Append(s.lease, x))
    BY <1>1, LeaseAddHolds
  <1> HIDE DEF r, x
  <1>4. /\ r \in Gate /\ r.nat = s.nat /\ r.filter = s.filter /\ r.post = s.post
        /\ r.desc = s.desc /\ r.lease = Append(s.lease, x)
    BY <1>3 DEF Holds
  <1>5. Whole(r)
    BY <1>1, <1>4, SameIsGood DEF Same
  <1>6. Agree(r)
    BY <1>1, <1>4, <1>5 DEF Agree
  <1>7. ASSUME ~Keeps, NEW e \in Plain PROVE Recorded(r, e)
    <2>1. Recorded(s, e)
      BY <1>7 DEF Settled
    <2>2. x.eport # e
      BY <1>2, <1>7
    <2>3. Of(r.lease, e) = Of(s.lease, e) /\ OneAt(r.lease, e)
      BY <1>1, <1>2, <1>4, <2>1, <2>2, LineAdded DEF Recorded
    <2>4. Lines(r, e) = Lines(s, e)
      BY <1>4 DEF Lines
    <2> QED  BY <2>1, <2>3, <2>4 DEF Recorded
  <1> QED  BY <1>6, <1>7 DEF Settled, r

-----------------------------------------------------------------------------
\* upnp_redirect() comes to its end.
LEMMA RedirectSettles ==
    ASSUME NEW s, Settled(s), NEW m \in NatRule, NEW duration \in Int, now \in Int, boot \in Int
    PROVE  LET out == UpnpRedirect(s, m, duration, {}) IN
           /\ Settled(out.s)
           /\ \/ out.s = s /\ Has(s.nat, m.eport)
              \/ out.r # -2 /\ Elsewhere(out.s, s, m.eport)
  <1> DEFINE out == UpnpRedirect(s, m, duration, {})
             t == EndOf(duration)
  <1>1. \/ out.r = -2 /\ out.s = s /\ Has(s.nat, m.eport)
        \/ out.r = 0 /\ Mapped(out.s, s, m, t)
    BY RedirectMaps DEF Settled
  <1>2. t \in Int
    BY DEF EndOf, UpnpTime
  <1> HIDE DEF out, t
  <1>3. ASSUME Mapped(out.s, s, m, t) PROVE Settled(out.s) /\ Elsewhere(out.s, s, m.eport)
    BY <1>2, <1>3, MappedSettles DEF Mapped
  <1>4. /\ Settled(out.s)
        /\ \/ out.s = s /\ Has(s.nat, m.eport)
           \/ out.r # -2 /\ Elsewhere(out.s, s, m.eport)
    <2>1. CASE out.r = -2 /\ out.s = s /\ Has(s.nat, m.eport)
      BY <2>1
    <2>2. CASE out.r = 0 /\ Mapped(out.s, s, m, t)
      <3>1. Settled(out.s) /\ Elsewhere(out.s, s, m.eport)
        BY <1>3, <2>2
      <3>2. out.r # -2
        BY <2>2
      <3> QED  BY <3>1, <3>2
    <2> QED  BY <1>1, <2>1, <2>2
  <1> QED  BY <1>4 DEF out

\* _upnp_delete_redir() comes to its end.
LEMMA DeleteSettles ==
    ASSUME NEW s, Settled(s), NEW eport \in Eports
    PROVE  Settled(UpnpDeleteRedir(s, eport, {}).s)
  <1> DEFINE r == UpnpDeleteRedir(s, eport, {}).s
  <1>1. Cleared(r, s, eport)
    BY DeleteClears DEF Settled
  <1> HIDE DEF r
  <1>2. Settled(r)
    BY <1>1, ClearedSettles
  <1> QED  BY <1>2 DEF r

\* A plain port still has one line at most when the daemon has died in upnp_redirect().
LEMMA RedirectLone ==
    ASSUME NEW s, Settled(s), NEW m \in NatRule, NEW duration \in Int, now \in Int, boot \in Int,
           NEW fails,
           "get" \in fails => "nat" \in fails, "unlease" \in fails => "lease" \in fails
    PROVE  Lone(UpnpRedirect(s, m, duration, fails).s)
  <1> DEFINE r == UpnpRedirect(s, m, duration, fails).s
             x == LineOf(m, EndOf(duration))
             q == Spared(s.lease, m.eport)
  <1>1. s \in Gate /\ s.lease \in Seq(FileLine)
    BY GateFields DEF Settled, Agree, Whole, Good
  <1>2. q \in Seq(FileLine)
    BY <1>1, LeaseRemoveHolds
  <1>3. x \in FileLine /\ x.eport = m.eport
    <2>1. EndOf(duration) \in Int
      BY DEF EndOf, UpnpTime
    <2> QED  BY <2>1, ListsTyped DEF LineOf
  <1>4. \/ r.lease = s.lease \/ r.lease = q \/ r.lease = Append(q, x)
        \/ ~Has(s.nat, m.eport) /\ r.lease = Append(s.lease, x)
    BY <1>1, RedirectFile DEF Files
  <1> HIDE DEF r, x
  <1> SUFFICES ASSUME ~Keeps, NEW e \in Plain PROVE OneAt(r.lease, e)
    BY DEF Lone, r
  <1>5. Recorded(s, e)
    BY DEF Settled
  <1>6. /\ Of(q, e) = IF TextPrefix(m.eport, e) THEN {} ELSE Of(s.lease, e)
        /\ OneAt(q, e)
    BY <1>1, <1>5, OfSpared DEF Recorded
  <1>7. m.eport = e => Of(q, e) = {}
    BY <1>6, Digits
  <1> HIDE DEF q
  <1>8. OneAt(Append(q, x), e)
    BY <1>2, <1>3, <1>6, <1>7, LineAdded
  <1>9. ~Has(s.nat, m.eport) => OneAt(Append(s.lease, x), e)
    <2> SUFFICES ASSUME ~Has(s.nat, m.eport) PROVE OneAt(Append(s.lease, x), e)
      OBVIOUS
    <2>1. m.eport = e => Of(s.lease, e) = {}
      <3>1. Of(s.nat, m.eport) = {}
        BY OfIs
      <3> QED  BY <1>5, <3>1 DEF Recorded, Lines
    <2> QED  BY <1>1, <1>3, <1>5, <2>1, LineAdded DEF Recorded
  <1> QED  BY <1>4, <1>5, <1>6, <1>8, <1>9 DEF Recorded

\* The same of _upnp_delete_redir()
LEMMA DeleteLone ==
    ASSUME NEW s \in Gate, Lone(s), NEW eport, NEW fails, now \in Int, boot \in Int
    PROVE  Lone(UpnpDeleteRedir(s, eport, fails).s)
  <1> DEFINE r == UpnpDeleteRedir(s, eport, fails).s
  <1>1. r.lease = s.lease \/ r.lease = Spared(s.lease, eport)
    BY DeleteRedirFile DEF Files
  <1> HIDE DEF r
  <1>2. s.lease \in Seq(FileLine)
    BY GateFields
  <1>3. Lone(r)
    BY <1>1, <1>2, OfSpared DEF Lone
  <1> QED  BY <1>3 DEF r

\* A state in which the lease file is right has no line twice.
LEMMA SettledLone ==
    ASSUME NEW s, Settled(s)
    PROVE  s \in Gate /\ Good(s) /\ Lone(s)
  BY DEF Settled, Agree, Whole, Good, Lone, Recorded

\* One deletion after the other
LEMMA DeleteEachSettles ==
    ASSUME NEW s, Settled(s), NEW eports, Len(eports) \in Nat,
           \A i \in 1 .. Len(eports) : eports[i] \in Eports,
           NEW at, NEW fails, now \in Int, boot \in Int
    PROVE  LET r == DeleteEach(s, eports, at, fails) IN
           (fails = {} => Settled(r)) /\ Good(r) /\ Lone(r)
  <1> DEFINE A == {r \in Gate : Settled(r)}
             B == {r \in Gate : Good(r) /\ Lone(r)}
  <1>1. s \in A /\ s \in B
    BY SettledLone
  <1>2. \A r \in A, i \in 1 .. Len(eports) : UpnpDeleteRedir(r, eports[i], {}).s \in A
    <2> SUFFICES ASSUME NEW r, Settled(r), NEW i \in 1 .. Len(eports)
                 PROVE  UpnpDeleteRedir(r, eports[i], {}).s \in A
      OBVIOUS
    <2>1. Settled(UpnpDeleteRedir(r, eports[i], {}).s)
      BY DeleteSettles
    <2> QED  BY <2>1, SettledLone
  <1>3. \A r \in B : \A eport, faults : UpnpDeleteRedir(r, eport, faults).s \in B
    <2> SUFFICES ASSUME NEW r \in Gate, Good(r), Lone(r), NEW eport, NEW faults
                 PROVE  UpnpDeleteRedir(r, eport, faults).s \in B
      OBVIOUS
    <2>1. Lone(UpnpDeleteRedir(r, eport, faults).s)
      BY DeleteLone
    <2>2. Good(UpnpDeleteRedir(r, eport, faults).s)
      BY DeleteGood
    <2> QED  BY <2>1, <2>2 DEF Good
  <1>4. (\A r \in A : Settled(r)) /\ (\A r \in B : Good(r) /\ Lone(r))
    OBVIOUS
  <1> HIDE DEF A, B
  <1>5. fails = {} => DeleteEach(s, eports, at, fails) \in A
    BY <1>1, <1>2, DeleteEachKeeps
  <1>6. DeleteEach(s, eports, at, fails) \in B
    BY <1>1, <1>3, DeleteEachKeeps
  <1> QED  BY <1>4, <1>5, <1>6

\* get_upnp_rules_state_list()
LEMMA SweptSettles ==
    ASSUME NEW s, Settled(s), NEW at, NEW fails, now \in Int, boot \in Int
    PROVE  LET r == Swept(s, at, fails) IN
           (fails = {} => Settled(r)) /\ Good(r) /\ Lone(r)
  <1> DEFINE r == [s EXCEPT !.next = NextToClean(s)]
             dead == ExpiredPorts(s)
  <1>1. s \in Gate
    BY SettledLone
  <1>2. /\ NextToClean(s) \in Int /\ Len(dead) \in Nat
        /\ \A i \in 1 .. Len(dead) : dead[i] \in Eports
    BY <1>1, NextTyped, ExpiredTyped
  <1>3. Swept(s, at, fails) = On(dead, LAMBDA d : DeleteEach(r, d, at, fails))
    BY DEF Swept
  <1>4. Settled(r)
    BY <1>2, FieldsSettle
  <1> HIDE DEF r, dead
  <1>5. Swept(s, at, fails) = DeleteEach(r, dead, at, fails)
    BY <1>3 DEF On
  <1> QED  BY <1>2, <1>4, <1>5, DeleteEachSettles

\* Descriptions, nextruletoclean_timestamp and the list of unused rules are lost.
LEMMA ForgottenLone ==
    ASSUME NEW s, Good(s)
    PROVE  /\ Forgotten(s).lease = s.lease
           /\ Lone(s) => Lone(Forgotten(s))
           /\ Agree(s) => Agree(Forgotten(s))
  <1>1. /\ Forgotten(s).nat = s.nat /\ Forgotten(s).filter = s.filter
        /\ Forgotten(s).post = s.post /\ Forgotten(s).lease = s.lease
    BY DEF Forgotten, Gate, Good
  <1>2. Whole(s) => Whole(Forgotten(s))
    BY ForgottenGood
  <1>3. Agree(s) => Agree(Forgotten(s))
    BY <1>1, <1>2 DEF Agree
  <1> QED  BY <1>1, <1>3 DEF Lone

-----------------------------------------------------------------------------
(***************************************************************************)
(* The invariant of the chains and of the lease file                       *)
(***************************************************************************)
\* The lines still to be reloaded are of ports that have no mapping yet.
Awaited(lines, s) ==
    ~Keeps => \A e \in Plain : OneAt(lines, e) /\ (Has(lines, e) => ~Has(s.nat, e))

\* A daemon that died in a handler finds its chains empty, or they agree.
Rests(s) == (Agree(s) \/ ~Keeps) /\ Lone(s)

SInv ==
    /\ RInv
    /\ phase # "down" => Settled(gw)
    /\ phase = "down" => Rests(gw)
    /\ phase = "reload" => Awaited(pending, gw)

\* What a handler leaves
Lands ==
    /\ boot' = boot
    /\ phase' # "down" => Settled(gw')
    /\ phase' = "down" => Rests(gw')

\* Ends of leases count from a boot that is still the same.
LEMMA BootKept ==
    ASSUME boot' = boot, Settled(gw')
    PROVE  Settled(gw)'
  <1>1. \A e : Recorded(gw', e) => Recorded(gw, e)'
    BY DEF Recorded, Lines, LineOf
  <1> QED  BY <1>1 DEF Settled

\* The end of a handler.
LEMMA EndsSettle ==
    ASSUME NEW s, NEW fails, Ends(s, fails), phase # "down", fails = {} => Settled(s),
           Good(s), Lone(s), fails = {} \/ (Dies(fails) /\ ~Keeps)
    PROVE  Lands
  <1>1. boot' = boot
    BY DEF Ends
  <1>2. CASE fails = {}
    <2>1. gw' = s /\ phase' = phase
      BY <1>2 DEF Ends, Dies
    <2> QED  BY <1>1, <1>2, <2>1 DEF Lands
  <1>3. CASE Dies(fails) /\ ~Keeps
    <2>1. gw' = Forgotten(s) /\ phase' = "down"
      BY <1>3 DEF Ends
    <2>2. Lone(Forgotten(s))
      BY ForgottenLone
    <2> QED  BY <1>1, <1>3, <2>1, <2>2 DEF Lands, Rests
  <1> QED  BY <1>2, <1>3

\* AddPortMapping.
LEMMA AddSettles ==
    ASSUME Sound, SInv, NEW m \in NatRule, NEW duration \in Int, AddPortMapping(m, duration)
    PROVE  Lands
  <1>1. PICK fails \in FaultSets(RedirectSteps(gw, m)) :
            Ends(UpnpRedirect(gw, m, duration, fails).s, fails)
    BY DEF AddPortMapping
  <1>2. Settled(gw) /\ now \in Int /\ boot \in Int /\ phase # "down"
    BY DEF AddPortMapping, SInv, RInv
  <1>3. fails = {} \/ (Dies(fails) /\ ~Keeps)
    BY AllOrDies
  <1>4. fails = {} => Settled(UpnpRedirect(gw, m, duration, fails).s)
    BY <1>2, RedirectSettles
  <1>5. ("get" \in fails => "nat" \in fails) /\ ("unlease" \in fails => "lease" \in fails)
    BY StepsInOrder
  <1>6. Lone(UpnpRedirect(gw, m, duration, fails).s)
    BY <1>2, <1>5, RedirectLone
  <1>7. Good(UpnpRedirect(gw, m, duration, fails).s)
    <2>1. Whole(gw) /\ Good(gw)
      BY <1>2 DEF Settled, Agree, Whole
    <2>2. Whole(UpnpRedirect(gw, m, duration, fails).s)
      BY <1>2, <1>5, <2>1, RedirectWhole
    <2> QED  BY <2>2 DEF Whole
  <1> QED  BY <1>1, <1>2, <1>3, <1>4, <1>6, <1>7, EndsSettle

\* DeletePortMapping and DeletePortMappingRange.
LEMMA DeletionsSettle ==
    ASSUME Sound, SInv, \/ \E e \in Eports : DeletePortMapping(e)
                        \/ \E from, to : DeletePortMappingRange(from, to)
    PROVE  Lands
  <1>1. Settled(gw) /\ gw \in Gate /\ phase # "down" /\ now \in Int /\ boot \in Int
    BY SettledLone DEF DeletePortMapping, DeletePortMappingRange, SInv, RInv
  <1>2. ASSUME NEW e \in Eports, DeletePortMapping(e) PROVE Lands
    <2>1. PICK fails \in FaultSets(DeleteSteps) : Ends(UpnpDeleteRedir(gw, e, fails).s, fails)
      BY <1>2 DEF DeletePortMapping
    <2>2. fails = {} \/ (Dies(fails) /\ ~Keeps)
      BY AllOrDies
    <2>3. fails = {} => Settled(UpnpDeleteRedir(gw, e, fails).s)
      BY <1>1, DeleteSettles
    <2>4. Good(UpnpDeleteRedir(gw, e, fails).s) /\ Lone(UpnpDeleteRedir(gw, e, fails).s)
      BY <1>1, SettledLone, DeleteGood, DeleteLone
    <2> QED  BY <1>1, <2>1, <2>2, <2>3, <2>4, EndsSettle
  <1>3. ASSUME NEW from, NEW to, DeletePortMappingRange(from, to) PROVE Lands
    <2> DEFINE q == gw.nat
               seqs == [i \in DOMAIN q |-> IF q[i].eport \in from .. to THEN <<q[i]>> ELSE <<>>]
               inRange == FlattenSeq(seqs)
               eports == [i \in 1 .. Len(inRange) |-> inRange[i].eport]
    <2>1. Those(gw.nat, LAMBDA e : e.eport \in from .. to) = inRange
      BY DEF Those
    <2>2. PICK at \in 1 .. Len(eports), fails \in FaultSets(DeleteSteps) :
              Ends(DeleteEach(gw, eports, at, fails), fails)
      BY <1>3, <2>1 DEF DeletePortMappingRange
    <2>3. fails = {} \/ (Dies(fails) /\ ~Keeps)
      BY AllOrDies
    <2>4. q \in Seq(NatRule)
      BY <1>1, GateFields
    <2> HIDE DEF q
    <2>5. inRange \in Seq(NatRule)
      <3>1. seqs = [i \in DOMAIN q |-> seqs[i]]
        OBVIOUS
      <3>2. \A i \in DOMAIN q : seqs[i] = <<q[i]>> \/ seqs[i] = <<>>
        OBVIOUS
      <3> HIDE DEF seqs
      <3> QED  BY <2>4, <3>1, <3>2, PickedOnes DEF Picks
    <2> HIDE DEF inRange
    <2>6. Len(eports) \in Nat /\ \A i \in 1 .. Len(eports) : eports[i] \in Eports
      <3>1. Len(inRange) \in Nat /\ \A i \in 1 .. Len(inRange) : inRange[i] \in NatRule
        BY <2>5
      <3> QED  BY <3>1 DEF NatRule
    <2> HIDE DEF eports
    <2>7. /\ fails = {} => Settled(DeleteEach(gw, eports, at, fails))
          /\ Good(DeleteEach(gw, eports, at, fails)) /\ Lone(DeleteEach(gw, eports, at, fails))
      BY <1>1, <2>6, DeleteEachSettles
    <2> QED  BY <1>1, <2>2, <2>3, <2>7, EndsSettle
  <1> QED  BY <1>2, <1>3

\* The list of unused rules changes.
LEMMA ListChanged ==
    ASSUME NEW s, NEW l \in Seq(Entry)
    PROVE  /\ Settled(s) => Settled([s EXCEPT !.list = l])
           /\ Good(s) /\ Lone(s) => Good([s EXCEPT !.list = l]) /\ Lone([s EXCEPT !.list = l])
  <1>1. Settled(s) => Settled([s EXCEPT !.list = l])
    BY FieldsSettle
  <1>2. ASSUME Good(s), Lone(s) PROVE Good([s EXCEPT !.list = l]) /\ Lone([s EXCEPT !.list = l])
    <2>1. s \in Gate
      BY <1>2 DEF Good
    <2>2. Same([s EXCEPT !.list = l], s) /\ [s EXCEPT !.list = l].lease = s.lease
      BY <2>1, GateFields, FieldsHold DEF Holds
    <2> QED  BY <1>2, <2>2, SameIsGood DEF Lone
  <1> QED  BY <1>1, <1>2

\* The clean-up of expired and of unused rules.
LEMMA CleanUpSettles ==
    ASSUME Sound, SInv, CleanUp
    PROVE  Lands
  <1>1. Settled(gw) /\ gw \in Gate /\ phase # "down" /\ now \in Int /\ boot \in Int
    BY SettledLone DEF CleanUp, CleanExpired, ListRules, RemoveUnusedRules, SInv, RInv
  <1>2. ASSUME CleanExpired PROVE Lands
    <2>1. PICK at \in Places(gw), fails \in FaultSets(DeleteSteps) : Ends(Swept(gw, at, fails), fails)
      BY <1>2 DEF CleanExpired
    <2>2. fails = {} \/ (Dies(fails) /\ ~Keeps)
      BY AllOrDies
    <2>3. /\ fails = {} => Settled(Swept(gw, at, fails))
          /\ Good(Swept(gw, at, fails)) /\ Lone(Swept(gw, at, fails))
      BY <1>1, SweptSettles
    <2> QED  BY <1>1, <2>1, <2>2, <2>3, EndsSettle
  <1>3. ASSUME ListRules PROVE Lands
    <2> DEFINE l == StateList(gw, Threshold)
    <2>1. PICK at \in Places(gw), fails \in FaultSets(DeleteSteps) :
              Ends([Swept(gw, at, fails) EXCEPT !.list = l], fails)
      BY <1>3 DEF ListRules
    <2>2. fails = {} \/ (Dies(fails) /\ ~Keeps)
      BY AllOrDies
    <2>3. l \in Seq(Entry)
      BY <1>1, StateListTyped
    <2> DEFINE r == Swept(gw, at, fails)
               x == [r EXCEPT !.list = l]
    <2>4. (fails = {} => Settled(r)) /\ Good(r) /\ Lone(r)
      BY <1>1, SweptSettles
    <2> HIDE DEF l, r
    <2>5. (fails = {} => Settled(x)) /\ Good(x) /\ Lone(x)
      BY <2>3, <2>4, ListChanged
    <2>6. Ends(x, fails)
      BY <2>1 DEF r, l
    <2> HIDE DEF x
    <2> QED  BY <1>1, <2>2, <2>5, <2>6, EndsSettle
  <1>4. ASSUME NEW victim \in [1 .. Len(gw.list) -> Eports], RemoveUnusedRules(victim)
        PROVE  Lands
    <2> DEFINE s == (CHOOSE f : RemovesUnused(f, victim))[Len(gw.list)]
               A == {r \in Gate : Settled(r)}
    <2>1. Ends([s EXCEPT !.list = <<>>], {})
      BY <1>4 DEF RemoveUnusedRules, RemovesUnused
    <2>2. gw \in A /\ \A r \in A : Settled(r)
      BY <1>1
    <2>3. \A r \in A, i \in 1 .. Len(gw.list) : UpnpDeleteRedir(r, victim[i], {}).s \in A
      <3> SUFFICES ASSUME NEW r, Settled(r), NEW i \in 1 .. Len(gw.list)
                   PROVE  UpnpDeleteRedir(r, victim[i], {}).s \in A
        OBVIOUS
      <3>1. victim[i] \in Eports
        OBVIOUS
      <3>2. Settled(UpnpDeleteRedir(r, victim[i], {}).s)
        BY <3>1, DeleteSettles
      <3> QED  BY <3>2, SettledLone
    <2> HIDE DEF A
    <2>4. s \in A
      BY <1>1, <2>2, <2>3, RemovesKeeps
    <2> HIDE DEF s
    <2>5. <<>> \in Seq(Entry)
      OBVIOUS
    <2>6. PICK l \in Seq(Entry) : l = <<>>
      BY <2>5, Zenon
    <2>7. Settled([s EXCEPT !.list = l])
      BY <2>2, <2>4, ListChanged
    <2>8. Ends([s EXCEPT !.list = l], {})
      BY <2>1, <2>6
    <2> QED  BY <1>1, <2>7, <2>8, SettledLone, EndsSettle
  <1> QED  BY <1>2, <1>3, <1>4 DEF CleanUp

-----------------------------------------------------------------------------
\* A packet is counted.
LEMMA PacketSettles ==
    ASSUME SInv, RInv', NEW eport, Packet(eport)
    PROVE  /\ Lands
           /\ \A e : Has(gw'.nat, e) <=> Has(gw.nat, e)
           /\ gw'.lease = gw.lease /\ \A e : Lines(gw', e) = Lines(gw, e)
  <1> DEFINE i == At(gw.nat, eport)
             x == [gw.nat[i] EXCEPT !.packets = @ + 1]
             w == [gw.nat EXCEPT ![i] = x]
  <1>1. gw \in Gate /\ gw.nat \in Seq(NatRule) /\ Ones(gw.nat)
    BY GateFields DEF SInv, RInv, Good
  <1>2. i # 0 /\ gw' = [gw EXCEPT !.nat[i].packets = @ + 1] /\ phase' = phase /\ boot' = boot
    BY Indices DEF Packet
  <1>3. i \in 1 .. Len(gw.nat)
    BY <1>1, <1>2, AtFinds
  <1> HIDE DEF i
  <1>4. gw' = [gw EXCEPT !.nat = w]
    BY <1>2
  <1>5. gw.nat[i] \in NatRule
    BY <1>1, <1>3
  <1>6. /\ x \in NatRule /\ Masq(x) = Masq(gw.nat[i]) /\ x.eport = gw.nat[i].eport
        /\ \A a, p : One(x, a, p) = One(gw.nat[i], a, p)
        /\ \A t : LineOf(x, t) = LineOf(gw.nat[i], t)
    BY <1>5 DEF NatRule, Masq, One, To, LineOf
  <1> HIDE DEF x
  <1>7. /\ w \in Seq(NatRule) /\ Len(w) = Len(gw.nat)
        /\ \A b \in 1 .. Len(gw.nat) : Masq(w[b]) = Masq(gw.nat[b])
    <2>1. /\ w \in Seq(NatRule) /\ Len(w) = Len(gw.nat) /\ w[i] = x
          /\ \A b \in 1 .. Len(gw.nat) : b # i => w[b] = gw.nat[b]
      BY <1>1, <1>3, <1>6
    <2> HIDE DEF w
    <2> QED  BY <1>6, <2>1
  <1>8. ASSUME NEW a, NEW p PROVE Count(w, a, p) = Count(gw.nat, a, p)
    <2>1. Count(w, a, p) = Count(gw.nat, a, p) - One(gw.nat[i], a, p) + One(x, a, p)
      BY <1>1, <1>3, <1>6, CountChange
    <2>2. Count(gw.nat, a, p) \in Nat /\ One(x, a, p) \in Nat
      BY <1>1, CountTyped DEF One
    <2> QED  BY <1>6, <2>1, <2>2
  <1>9. /\ Ones(gw.nat) => Ones(w)
        /\ \A e : Has(w, e) <=> Has(gw.nat, e)
    BY <1>1, <1>3, <1>6, ChangeOne DEF Masq
  <1>10. \A e : Of(w, e) = IF e = x.eport THEN {x} ELSE Of(gw.nat, e)
    <2>1. \A q \in Seq(NatRule) : Ones(q) =>
            \A b \in 1 .. Len(q) : x.eport = q[b].eport =>
              \A e : Of([q EXCEPT ![b] = x], e) = IF e = x.eport THEN {x} ELSE Of(q, e)
      BY <1>6, OfChange
    <2> QED  BY <1>1, <1>3, <1>6, <2>1, Zenon
  <1>11. Of(gw.nat, x.eport) = {gw.nat[i]}
    BY <1>1, <1>3, <1>6, OfIs
  <1> HIDE DEF w
  <1>12. Holds(gw', w, gw.filter, gw.post, gw.desc, gw.lease)
    BY <1>1, <1>4, <1>7, FieldsHold
  <1>13. /\ gw' \in Gate /\ gw'.nat = w /\ gw'.filter = gw.filter /\ gw'.post = gw.post
         /\ gw'.desc = gw.desc /\ gw'.lease = gw.lease
    BY <1>12 DEF Holds
  <1>14. ASSUME Agree(gw) PROVE Agree(gw')
    <2>1. Agreeing(gw.nat, gw.filter, gw.post) /\ Whole(gw)
      BY <1>14 DEF Agree
    <2>2. Agreeing(w, gw.filter, gw.post)
      BY <1>7, <1>8, <2>1 DEF Agreeing
    <2>3. Whole(gw')
      BY <1>9, <1>13, <2>1 DEF Whole, Good
    <2> QED  BY <1>13, <2>2, <2>3 DEF Agree
  <1>15. ASSUME NEW e PROVE Lines(gw', e) = Lines(gw, e)
    <2>1. CASE e = x.eport
      <3> DEFINE t == Stamp(Of(gw.desc, e))
      <3>1. Lines(gw, e) = {LineOf(gw.nat[i], t)}
        BY <1>11, <2>1 DEF Lines
      <3>2. Of(gw'.nat, e) = {x}
        BY <1>10, <1>13, <2>1
      <3>3. Lines(gw', e) = {LineOf(x, t)}
        BY <1>13, <3>2 DEF Lines
      <3>4. LineOf(x, t) = LineOf(gw.nat[i], t)
        BY <1>6
      <3> QED  BY <3>1, <3>3, <3>4
    <2>2. CASE e # x.eport
      <3>1. Of(gw'.nat, e) = Of(gw.nat, e)
        BY <1>10, <1>13, <2>2
      <3> QED  BY <1>13, <3>1 DEF Lines
    <2> QED  BY <2>1, <2>2
  <1>16. Settled(gw) => Settled(gw')
    BY <1>13, <1>14, <1>15 DEF Settled, Recorded
  <1>17. Rests(gw) => Rests(gw')
    BY <1>13, <1>14 DEF Rests, Lone
  <1> QED  BY <1>2, <1>9, <1>13, <1>15, <1>16, <1>17 DEF Lands, SInv

\* The daemon starts, in empty chains or in those it has left.
LEMMA StartSettles ==
    ASSUME SInv, NEW flushed \in BOOLEAN, NEW rebooted \in BOOLEAN, Start(flushed, rebooted),
           RInv'
    PROVE  Settled(gw)' /\ Awaited(pending, gw)'
  <1>1. /\ phase = "down" /\ phase' = "reload" /\ (~Keeps => flushed)
        /\ pending' = gw.lease
    BY DEF Start
  <1>2. Whole(gw') /\ gw \in Gate /\ Rests(gw)
    BY <1>1 DEF SInv, RInv, Good
  <1>3. gw'.lease = <<>>
    BY <1>2 DEF Start, Gate
  <1>4. ASSUME flushed PROVE gw'.nat = <<>> /\ gw'.filter = <<>> /\ gw'.post = <<>>
    BY <1>2, <1>4 DEF Start, Gate
  <1>5. Agree(gw')
    <2>1. CASE flushed
      <3>1. Agreeing(<<>>, <<>>, <<>>)
        BY DEF Agreeing
      <3> QED  BY <1>2, <1>4, <2>1, <3>1 DEF Agree
    <2>2. CASE ~flushed
      <3>1. gw'.nat = gw.nat /\ gw'.filter = gw.filter /\ gw'.post = gw.post
        BY <1>2, <2>2 DEF Start, Gate
      <3>2. Agree(gw)
        BY <1>1, <1>2, <2>2 DEF Rests
      <3> QED  BY <1>2, <3>1, <3>2 DEF Agree
    <2> QED  BY <2>1, <2>2
  <1>6. \A e : Of(<<>>, e) = {} /\ OneAt(<<>>, e) /\ ~Has(<<>>, e)
    BY OfIs DEF Has, OneAt
  <1>7. ASSUME ~Keeps, NEW e \in Plain PROVE Recorded(gw, e)'
    <2>1. gw'.nat = <<>>
      BY <1>1, <1>4, <1>7
    <2>2. Of(gw'.nat, e) = {} /\ Of(gw'.lease, e) = {} /\ OneAt(gw'.lease, e)
      BY <1>3, <1>6, <2>1
    <2>3. Lines(gw, e)' = {}
      BY <2>2 DEF Lines
    <2> QED  BY <2>2, <2>3 DEF Recorded
  <1>8. Settled(gw)'
    BY <1>5, <1>7 DEF Settled
  <1>9. Awaited(pending, gw)'
    <2> SUFFICES ASSUME ~Keeps, NEW e \in Plain
                 PROVE  OneAt(pending', e) /\ ~Has(gw'.nat, e)
      BY DEF Awaited
    <2>1. gw'.nat = <<>>
      BY <1>1, <1>4
    <2> QED  BY <1>1, <1>2, <1>6, <2>1 DEF Rests, Lone
  <1> QED  BY <1>8, <1>9

\* The first of the lines that are still to be reloaded
LEMMA LineTaken ==
    ASSUME NEW q \in Seq(FileLine), q # <<>>, NEW e, OneAt(q, e)
    PROVE  /\ OneAt(Tail(q), e)
           /\ Has(Tail(q), e) => Has(q, e) /\ Head(q).eport # e
           /\ Head(q).eport = e => Has(q, e)
  <1> DEFINE w == Tail(q)
  <1>1. PICK n \in Nat : n = Len(q)
    OBVIOUS
  <1>2. n # 0 /\ Len(w) = n - 1 /\ Head(q) = q[1] /\ \A j \in 1 .. n - 1 : w[j] = q[j + 1]
    BY <1>1
  <1> HIDE DEF w
  <1>3. \A i, j \in 1 .. n : q[i].eport = e /\ q[j].eport = e => i = j
    BY <1>1 DEF OneAt
  <1>4. OneAt(w, e)
    <2> SUFFICES ASSUME NEW i \in 1 .. n - 1, NEW j \in 1 .. n - 1, w[i].eport = e, w[j].eport = e
                 PROVE  i = j
      BY <1>2 DEF OneAt
    <2>1. i + 1 \in 1 .. n /\ j + 1 \in 1 .. n /\ q[i + 1].eport = e /\ q[j + 1].eport = e
      BY <1>2
    <2>2. i + 1 = j + 1
      BY <1>3, <2>1
    <2> QED  BY <2>2
  <1>5. 1 \in 1 .. n
    BY <1>2
  <1>6. ASSUME Has(w, e) PROVE Has(q, e) /\ Head(q).eport # e
    <2>1. PICK i \in 1 .. n - 1 : w[i].eport = e
      BY <1>2, <1>6 DEF Has
    <2>2. i + 1 \in 1 .. n /\ q[i + 1].eport = e /\ i + 1 # 1
      BY <1>2, <2>1
    <2> QED  BY <1>1, <1>2, <1>3, <1>5, <2>2 DEF Has
  <1>7. Head(q).eport = e => Has(q, e)
    BY <1>1, <1>2, <1>5 DEF Has
  <1> QED  BY <1>4, <1>6, <1>7 DEF w

\* A line of the lease file is a mapping again, or not.
LEMMA ReloadSettles ==
    ASSUME Sound, SInv, ReloadLine
    PROVE  Lands /\ Awaited(pending, gw)' /\ phase' = "reload"
  <1> DEFINE l == Head(pending)
             m == Reloaded(l)
             duration == IF l.timestamp = 0 THEN 0 ELSE l.timestamp - now
             ts == IF duration = 0 THEN 0 ELSE UpnpTime + duration
             out == UpnpRedirect(gw, m, duration, {})
             r == IF out.r = -2 THEN LeaseAdd(out.s, m, ts, {}) ELSE out.s
  <1>1. phase = "reload" /\ pending # <<>> /\ pending' = Tail(pending)
    BY DEF ReloadLine
  <1>2. Ends(gw, {}) \/ Ends(r, {})
    BY DEF ReloadLine, Sound
  <1>3. Settled(gw) /\ now \in Int /\ boot \in Int /\ pending \in Seq(FileLine)
        /\ Awaited(pending, gw)
    BY <1>1 DEF SInv, RInv
  <1>4. l \in FileLine
    BY <1>1, <1>3
  <1>5. ASSUME ~Keeps, NEW e \in Plain
        PROVE  /\ OneAt(pending', e)
               /\ Has(pending', e) => ~Has(gw.nat, e) /\ l.eport # e
               /\ l.eport = e => ~Has(gw.nat, e)
    BY <1>1, <1>3, <1>5, LineTaken DEF Awaited
  <1> HIDE DEF l
  <1>6. m \in NatRule /\ m.eport = l.eport /\ m.eport \in Eports
    BY <1>4, HostAssumption DEF Reloaded, FileLine, NatRule
  <1>7. duration \in Int
    BY <1>3, <1>4 DEF FileLine
  <1>8. ts \in Int
    <2> HIDE DEF duration
    <2> QED  BY <1>3, <1>7 DEF UpnpTime
  <1> HIDE DEF m, duration, ts
  <1>9. /\ Settled(out.s)
        /\ \/ out.s = gw /\ Has(gw.nat, m.eport)
           \/ out.r # -2 /\ Elsewhere(out.s, gw, m.eport)
    BY <1>3, <1>6, <1>7, RedirectSettles
  <1> HIDE DEF out
  <1> DEFINE add == LeaseAdd(out.s, m, ts, {})
  <1>10. /\ add.nat = out.s.nat
         /\ Keeps \/ m.eport \notin Plain => Settled(add)
    BY <1>3, <1>6, <1>8, <1>9, OtherLineSettles, LeaseAddHolds, SettledLone DEF Holds
  <1> HIDE DEF add
  <1>11. Settled(r) /\ (r.nat = gw.nat \/ Elsewhere(r, gw, m.eport))
    <2>1. CASE out.s = gw /\ Has(gw.nat, m.eport)
      <3>1. Keeps \/ m.eport \notin Plain
        BY <1>5, <1>6, <2>1
      <3>2. Settled(add) /\ add.nat = gw.nat
        BY <1>10, <2>1, <3>1
      <3> QED  BY <1>9, <2>1, <3>2 DEF add
    <2>2. CASE out.r # -2 /\ Elsewhere(out.s, gw, m.eport)
      BY <1>9, <2>2
    <2> QED  BY <1>9, <2>1, <2>2
  <1> HIDE DEF r
  <1>12. /\ phase' = phase
         /\ gw' = gw \/ gw' = r
    BY <1>2 DEF Ends, Dies
  <1>13. Lands
    <2>1. boot' = boot
      BY <1>2 DEF Ends
    <2> QED  BY <1>1, <1>3, <1>11, <1>12, <2>1 DEF Lands
  <1>14. ASSUME NEW e, e # m.eport PROVE Has(gw'.nat, e) => Has(gw.nat, e)
    <2>1. Elsewhere(r, gw, m.eport) => Of(r.nat, e) = Of(gw.nat, e)
      BY <1>14 DEF Elsewhere
    <2>2. (Of(r.nat, e) = {} <=> ~Has(r.nat, e)) /\ (Of(gw.nat, e) = {} <=> ~Has(gw.nat, e))
      BY OfIs
    <2> QED  BY <1>11, <1>12, <2>1, <2>2
  <1>15. Awaited(pending, gw)'
    <2> SUFFICES ASSUME ~Keeps, NEW e \in Plain
                 PROVE  OneAt(pending', e) /\ (Has(pending', e) => ~Has(gw'.nat, e))
      BY DEF Awaited
    <2>1. OneAt(pending', e) /\ (Has(pending', e) => ~Has(gw.nat, e) /\ l.eport # e)
      BY <1>5
    <2> QED  BY <1>6, <1>14, <2>1
  <1> QED  BY <1>1, <1>12, <1>13, <1>15

-----------------------------------------------------------------------------
\* Every step keeps the chains and the lease file right.
LEMMA NextSInv ==
    ASSUME Sound, SInv, [Next]_vars
    PROVE  SInv'
  <1>1. RInv'
    BY NextRInv DEF SInv
  <1>2. ASSUME Lands, phase' = "reload" => Awaited(pending, gw)' PROVE SInv'
    <2>1. boot' = boot /\ (phase' # "down" => Settled(gw')) /\ (phase' = "down" => Rests(gw)')
      BY <1>2 DEF Lands
    <2>2. phase' # "down" => Settled(gw)'
      BY <2>1, BootKept
    <2> QED  BY <1>1, <1>2, <2>1, <2>2 DEF SInv
  <1>4. ASSUME NEW e \in Eports, NEW a \in Iaddrs, NEW p \in Iports, NEW h \in Rhosts,
               NEW d \in Leases,
               AddPortMapping([eport |-> e, iaddr |-> a, iport |-> p, rhost |-> h,
                               packets |-> 0], d)
        PROVE  SInv'
    <2>1. [eport |-> e, iaddr |-> a, iport |-> p, rhost |-> h, packets |-> 0] \in NatRule
      BY DEF NatRule
    <2>2. d \in Int
      BY LeasesAssumption
    <2>3. Lands
      BY <1>4, <2>1, <2>2, AddSettles
    <2>4. phase' # "reload"
      BY <1>4 DEF AddPortMapping, Ends
    <2> QED  BY <1>2, <2>3, <2>4
  <1>5. CASE \/ \E e \in Eports : DeletePortMapping(e)
             \/ \E from, to \in Eports : from <= to /\ DeletePortMappingRange(from, to)
    <2>1. Lands
      BY <1>5, DeletionsSettle
    <2>2. phase' # "reload"
      BY <1>5 DEF DeletePortMapping, DeletePortMappingRange, Ends
    <2> QED  BY <1>2, <2>1, <2>2
  <1>6. CASE CleanUp
    <2>1. Lands
      BY <1>6, CleanUpSettles
    <2>2. phase' # "reload"
      BY <1>6 DEF CleanUp, CleanExpired, ListRules, RemoveUnusedRules, Ends
    <2> QED  BY <1>2, <2>1, <2>2
  <1>7. CASE \E e \in Eports : Packet(e)
    <2>1. Lands /\ \A e : Has(gw'.nat, e) <=> Has(gw.nat, e)
      BY <1>1, <1>7, PacketSettles
    <2>2. phase' = phase /\ pending' = pending
      BY <1>7 DEF Packet
    <2>3. phase' = "reload" => Awaited(pending, gw)'
      BY <2>1, <2>2 DEF SInv, Awaited
    <2> QED  BY <1>2, <2>1, <2>3
  <1>8. CASE Stop
    <2>1. phase # "down" /\ phase' = "down" /\ gw' = Forgotten(gw)
      BY <1>8 DEF Stop
    <2>2. Settled(gw)
      BY <2>1 DEF SInv
    <2>3. Rests(Forgotten(gw))
      BY <2>2, SettledLone, ForgottenLone DEF Rests, Settled
    <2>4. Rests(gw)'
      BY <2>1, <2>3
    <2> QED  BY <1>1, <2>1, <2>4 DEF SInv
  <1>9. CASE \E flushed, rebooted \in BOOLEAN : Start(flushed, rebooted)
    <2>1. Settled(gw)' /\ Awaited(pending, gw)'
      BY <1>1, <1>9, StartSettles
    <2>2. phase' = "reload"
      BY <1>9 DEF Start
    <2> QED  BY <1>1, <2>1, <2>2 DEF SInv
  <1>10. CASE ReloadLine
    BY <1>2, <1>10, ReloadSettles
  <1>11. CASE ReloadDone \/ Tick \/ UNCHANGED vars
    <2>1. /\ gw' = gw /\ boot' = boot /\ pending' = pending
          /\ phase' = phase \/ (phase = "reload" /\ phase' = "up")
      BY <1>11 DEF ReloadDone, Tick, vars
    <2>2. phase' # "down" => Settled(gw')
      BY <2>1 DEF SInv
    <2>3. phase' = "down" => Rests(gw')
      BY <2>1 DEF SInv
    <2>4. phase' = "reload" => Awaited(pending, gw)'
      BY <2>1 DEF SInv
    <2>5. Lands
      BY <2>1, <2>2, <2>3 DEF Lands
    <2> QED  BY <1>2, <2>4, <2>5
  <1> QED  BY <1>4, <1>5, <1>6, <1>7, <1>8, <1>9, <1>10, <1>11 DEF Next, Requests, Reload

\* It holds to begin with.
LEMMA InitSInv == Init => SInv
  <1> SUFFICES ASSUME Init PROVE SInv
    OBVIOUS
  <1>1. RInv /\ phase = "up"
    BY InitRInv DEF Init
  <1>2. gw.nat = <<>> /\ gw.filter = <<>> /\ gw.post = <<>> /\ gw.lease = <<>>
    BY DEF Init
  <1>3. Agreeing(<<>>, <<>>, <<>>)
    BY DEF Agreeing
  <1>4. Agree(gw)
    BY <1>1, <1>2, <1>3 DEF RInv, Agree
  <1>5. ASSUME NEW e PROVE Recorded(gw, e)
    <2>1. Of(<<>>, e) = {} /\ OneAt(<<>>, e)
      BY OfIs DEF Has, OneAt
    <2>2. Lines(gw, e) = {}
      BY <1>2, <2>1 DEF Lines
    <2> QED  BY <1>2, <2>1, <2>2 DEF Recorded
  <1> QED  BY <1>1, <1>4, <1>5 DEF SInv, Settled

\* A list without a port twice is not longer than one with all its ports.
LEMMA NotLonger ==
    ASSUME NEW T, NEW q \in Seq(T), Ones(q), NEW U, NEW r \in Seq(U), \A e : Has(q, e) => Has(r, e)
    PROVE  Len(q) <= Len(r)
  <1> DEFINE Q == 1 .. Len(q)
             R == 1 .. Len(r)
             f == [i \in Q |-> CHOOSE j \in R : r[j].eport = q[i].eport]
  <1>1. /\ IsFiniteSet(R) /\ Cardinality(Q) = Len(q) /\ Cardinality(R) = Len(r)
    BY PlacesCounted
  <1>2. \A i \in Q : \E j \in R : r[j].eport = q[i].eport
    BY DEF Has
  <1>3. \A i, j \in Q : q[i].eport = q[j].eport => i = j
    BY DEF Ones
  <1> HIDE DEF Q, R
  <1>4. \A i \in Q : f[i] \in R /\ r[f[i]].eport = q[i].eport
    BY <1>2
  <1>5. f = [i \in Q |-> f[i]]
    OBVIOUS
  <1> HIDE DEF f
  <1>6. f \in Injection(Q, R)
    <2>1. f \in [Q -> R] /\ \A i, j \in Q : f[i] = f[j] => i = j
      BY <1>3, <1>4, <1>5
    <2> QED  BY <2>1 DEF Injection, IsInjective
  <1>7. Cardinality(Q) <= Cardinality(R)
    BY <1>1, <1>6, FS_Injection
  <1> QED  BY <1>1, <1>7

\* What the run checks of chains that agree.
LEMMA AgreeShown ==
    ASSUME SInv
    PROVE  ChainsAgree
  <1> SUFFICES ASSUME phase = "up" PROVE ChainsAgree
    BY DEF ChainsAgree
  <1>1. Agree(gw)
    BY DEF SInv, Settled
  <1>2. /\ Whole(gw) /\ Agreeing(gw.nat, gw.filter, gw.post) /\ Ones(gw.nat) /\ Ones(gw.post)
        /\ gw.nat \in Seq(NatRule) /\ gw.post \in Seq(PostRule)
    BY <1>1, GateFields DEF Agree, Whole, Good
  <1>3. ASSUME NEW a \in Iaddrs, NEW p \in Iports
        PROVE  Cardinality(Positions(gw.nat, LAMBDA x : x.iaddr = a /\ x.iport = p))
                  = Cardinality(Positions(gw.filter, LAMBDA x : x.iaddr = a /\ x.iport = p))
    <2>1. Count(gw.nat, a, p) = Count(gw.filter, a, p)
      BY <1>2 DEF Agreeing
    <2> QED  BY <2>1 DEF Count, Leading, To, Positions
  <1>4. Len(gw.post) = Len(gw.nat)
    <2>1. ASSUME NEW e, Has(gw.nat, e) PROVE Has(gw.post, e)
      <3>1. PICK i \in 1 .. Len(gw.nat) : gw.nat[i].eport = e
        BY <2>1 DEF Has
      <3>2. PICK j \in 1 .. Len(gw.post) : gw.post[j] = Masq(gw.nat[i])
        BY <1>2 DEF Agreeing
      <3> QED  BY <3>1, <3>2 DEF Has, Masq
    <2>2. \A e : Has(gw.post, e) => Has(gw.nat, e)
      BY <1>2 DEF Whole
    <2>3. Len(gw.nat) <= Len(gw.post)
      BY <1>2, <2>1, NotLonger
    <2>4. Len(gw.post) <= Len(gw.nat)
      BY <1>2, <2>2, NotLonger
    <2>5. Len(gw.nat) \in Nat /\ Len(gw.post) \in Nat
      BY <1>2
    <2> QED  BY <2>3, <2>4, <2>5
  <1>5. ASSUME NEW i \in 1 .. Len(gw.nat)
        PROVE  \E j \in 1 .. Len(gw.post) : /\ gw.post[j].eport = gw.nat[i].eport
                                            /\ gw.post[j].iaddr = gw.nat[i].iaddr
                                            /\ gw.post[j].iport = gw.nat[i].iport
    <2>1. PICK j \in 1 .. Len(gw.post) : gw.post[j] = Masq(gw.nat[i])
      BY <1>2 DEF Agreeing
    <2> QED  BY <2>1 DEF Masq
  <1> QED  BY <1>3, <1>4, <1>5 DEF ChainsAgree

\* The DNAT, filter and MASQUERADE rules agree while the daemon runs (the three
\* functions of iptcrdr.c that touch all of them, each of which searches for
\* the filter rule by the internal port), under what OneRule is proved under.
THEOREM AllChainsAgree == Sound => (Spec => []ChainsAgree)
  <1> SUFFICES ASSUME Sound PROVE Spec => []ChainsAgree
    OBVIOUS
  <1>1. Init => SInv
    BY InitSInv
  <1>2. SInv /\ [Next]_vars => SInv'
    BY NextSInv
  <1>3. SInv => ChainsAgree
    BY AgreeShown
  <1> QED  BY <1>1, <1>2, <1>3, PTL DEF Spec

\* One line and no other
LEMMA OneLine ==
    ASSUME NEW q, NEW e, OneAt(q, e), NEW x, Of(q, e) = {x}
    PROVE  LET lines == {j \in 1 .. Len(q) : q[j].eport = e} IN
           Cardinality(lines) = 1 /\ \A j \in lines : q[j] = x
  <1> DEFINE lines == {j \in 1 .. Len(q) : q[j].eport = e}
  <1>1. PICK i \in 1 .. Len(q) : q[i] = x /\ q[i].eport = e
    BY OfIs
  <1>2. lines = {i}
    BY <1>1 DEF OneAt
  <1>3. Cardinality(lines) = 1
    BY <1>2, FS_Singleton
  <1> QED  BY <1>1, <1>2, <1>3

\* get_redirect_desc() on a list without a port twice
LEMMA TimestampIs ==
    ASSUME NEW s \in Gate, Ones(s.desc), NEW e
    PROVE  Stamp(Of(s.desc, e)) = Timestamp(s, e)
  <1> DEFINE d == DescIndex(s, e)
             t == Timestamp(s, e)
  <1>1. s.desc \in Seq(DescRule) /\ d = At(s.desc, e)
    BY GateFields, Indices
  <1>2. /\ d = 0 => ~Has(s.desc, e)
        /\ d # 0 => d \in 1 .. Len(s.desc) /\ s.desc[d].eport = e
    BY <1>1, AtFinds
  <1>3. t = IF d = 0 THEN 0 ELSE s.desc[d].timestamp
    BY DEF Timestamp
  <1> HIDE DEF d, t
  <1>4. CASE d = 0
    <2>1. Of(s.desc, e) = {}
      BY <1>2, <1>4, OfIs
    <2> QED  BY <1>3, <1>4, <2>1 DEF Stamp, t
  <1>5. CASE d # 0
    <2> DEFINE x == s.desc[d]
    <2>1. Of(s.desc, e) = {x}
      BY <1>2, <1>5, OfIs
    <2>2. t = x.timestamp
      BY <1>3, <1>5
    <2> HIDE DEF x
    <2>3. (CHOOSE c \in {x} : TRUE) = x
      OBVIOUS
    <2> HIDE DEF Of
    <2> QED  BY <2>1, <2>2, <2>3 DEF Stamp, t
  <1> QED  BY <1>4, <1>5

\* What the run checks of a lease file that is right.
LEMMA RecordedShown ==
    ASSUME SInv, ~Keeps
    PROVE  LeaseFileMatches
  <1> SUFFICES ASSUME phase = "up", NEW e \in Plain
               PROVE  LET lines == {j \in 1 .. Len(gw.lease) : gw.lease[j].eport = e}
                          i == NatIndex(gw, e)
                          t == Timestamp(gw, e)
                      IN  IF i = 0 THEN lines = {}
                          ELSE /\ Cardinality(lines) = 1
                               /\ \A j \in lines :
                                    gw.lease[j] = [eport |-> e, iaddr |-> gw.nat[i].iaddr,
                                                   iport |-> gw.nat[i].iport,
                                                   timestamp |-> IF t = 0 THEN 0 ELSE t + boot]
    BY DEF LeaseFileMatches, Positions, Plain
  <1> DEFINE lines == {j \in 1 .. Len(gw.lease) : gw.lease[j].eport = e}
             i == NatIndex(gw, e)
             t == Timestamp(gw, e)
  <1>1. Settled(gw) /\ Recorded(gw, e)
    BY DEF SInv, Settled
  <1>2. gw \in Gate /\ gw.nat \in Seq(NatRule) /\ Ones(gw.nat) /\ Ones(gw.desc)
    BY <1>1, GateFields DEF Settled, Agree, Whole, Good
  <1>3. i = At(gw.nat, e)
    BY Indices
  <1>4. /\ i = 0 => ~Has(gw.nat, e)
        /\ i # 0 => i \in 1 .. Len(gw.nat) /\ gw.nat[i].eport = e
    BY <1>2, <1>3, AtFinds
  <1>5. Stamp(Of(gw.desc, e)) = t
    BY <1>2, TimestampIs
  <1> HIDE DEF i, t
  <1>6. CASE i = 0
    <2>1. Of(gw.nat, e) = {}
      BY <1>4, <1>6, OfIs
    <2>2. Of(gw.lease, e) = {}
      BY <1>1, <2>1 DEF Recorded, Lines
    <2>3. lines = {}
      BY <2>2, OfIs DEF Has
    <2> QED  BY <1>6, <2>3 DEF i
  <1>7. CASE i # 0
    <2> DEFINE x == [eport |-> e, iaddr |-> gw.nat[i].iaddr, iport |-> gw.nat[i].iport,
                     timestamp |-> IF t = 0 THEN 0 ELSE t + boot]
    <2>1. Of(gw.nat, e) = {gw.nat[i]}
      BY <1>2, <1>4, <1>7, OfIs
    <2>2. LineOf(gw.nat[i], t) = x
      BY <1>4, <1>7 DEF LineOf
    <2> HIDE DEF x
    <2>3. Of(gw.lease, e) = {x} /\ OneAt(gw.lease, e)
      BY <1>1, <1>5, <2>1, <2>2 DEF Recorded, Lines
    <2>4. Cardinality(lines) = 1 /\ \A j \in lines : gw.lease[j] = x
      BY <2>3, OneLine
    <2> QED  BY <1>7, <2>4 DEF x, i, t
  <1> QED  BY <1>6, <1>7

\* The lease file has the line of each mapping and no other (lease_file_add()
\* and lease_file_remove() of upnpredirect.c, called by every operation on a
\* mapping), when no step fails by itself, a daemon may die anywhere in a
\* handler, and a daemon that starts finds empty chains.
THEOREM FileMatches == Faults # "any" /\ ~Keeps => (Spec => []LeaseFileMatches)
  <1> SUFFICES ASSUME Faults # "any", ~Keeps PROVE Spec => []LeaseFileMatches
    OBVIOUS
  <1>1. Sound
    BY SwitchAssumption DEF Sound
  <1>2. Init => SInv
    BY InitSInv
  <1>3. SInv /\ [Next]_vars => SInv'
    BY <1>1, NextSInv
  <1>4. SInv => LeaseFileMatches
    BY RecordedShown
  <1> QED  BY <1>2, <1>3, <1>4, PTL DEF Spec

-----------------------------------------------------------------------------
(***************************************************************************)
(* Grants: the mapping a client was told it has is in the chains and in    *)
(* the file while the daemon runs, in the file while it does not, and in    *)
(* what is left of the file while it is reloaded.                          *)
(***************************************************************************)
\* The grant g has not ended.
Live(g) == g # NoGrant /\ (g.until = 0 \/ g.until > now)

\* Its line in the file
Promised(e, g) == [eport |-> e, iaddr |-> g.iaddr, iport |-> g.iport, timestamp |-> g.until]

\* The gateway and the file have the line y, and no other for the port.
Kept(s, e, y) == Of(s.lease, e) = {y} /\ Lines(s, e) = {y}

\* The lines are still to be reloaded into chains that may have the mapping.
Due(s, lines, e, y) == Of(lines, e) = {y} /\ \A x \in Of(s.nat, e) : x.iaddr = y.iaddr

\* A plain port without a mapping has no line.
Fresh(s) == \A e \in Plain : Has(s.lease, e) => Has(s.nat, e)

\* What a gateway says of a port is the same in both states.
Untouched(r, s, e) ==
    Of(r.lease, e) = Of(s.lease, e) /\ Of(r.nat, e) = Of(s.nat, e) /\ Of(r.desc, e) = Of(s.desc, e)

Gone(r, e) == Of(r.lease, e) = {} /\ Of(r.nat, e) = {}

\* What is kept of a port that nothing was done to
LEMMA UntouchedKept ==
    ASSUME NEW r, NEW s, NEW e, Untouched(r, s, e)
    PROVE  /\ \A y : Kept(s, e, y) <=> Kept(r, e, y)
           /\ \A y, q : Due(s, q, e, y) <=> Due(r, q, e, y)
           /\ Has(r.nat, e) <=> Has(s.nat, e)
           /\ Has(r.lease, e) <=> Has(s.lease, e)
  <1>1. Lines(r, e) = Lines(s, e)
    BY DEF Untouched, Lines
  <1>2. \A q : Of(q, e) = {} <=> ~Has(q, e)
    BY OfIs
  <1>3. (Has(r.nat, e) <=> Has(s.nat, e)) /\ (Has(r.lease, e) <=> Has(s.lease, e))
    BY <1>2 DEF Untouched
  <1> QED  BY <1>1, <1>3 DEF Kept, Due, Untouched

\* A kept line is of a mapping with the same client.
LEMMA KeptIs ==
    ASSUME NEW s, NEW e, NEW y, Kept(s, e, y)
    PROVE  /\ \E x \in Of(s.nat, e) : y = LineOf(x, Stamp(Of(s.desc, e)))
           /\ \A x \in Of(s.nat, e) : y = LineOf(x, Stamp(Of(s.desc, e)))
                                      /\ x.iaddr = y.iaddr /\ x.iport = y.iport
           /\ Has(s.nat, e) /\ Has(s.lease, e)
  <1> DEFINE t == Stamp(Of(s.desc, e))
  <1>1. {LineOf(m, t) : m \in Of(s.nat, e)} = {y} /\ Of(s.lease, e) = {y}
    BY DEF Kept, Lines
  <1> HIDE DEF t
  <1>2. \A x \in Of(s.nat, e) : y = LineOf(x, t)
    BY <1>1
  <1>3. \E x \in Of(s.nat, e) : y = LineOf(x, t)
    BY <1>1
  <1>4. \A x \in Of(s.nat, e) : x.iaddr = y.iaddr /\ x.iport = y.iport
    BY <1>2 DEF LineOf
  <1>5. Has(s.nat, e) /\ Has(s.lease, e)
    BY <1>1, <1>3, OfIs
  <1> QED  BY <1>2, <1>3, <1>4, <1>5 DEF t

\* upnp_redirect() has mapped a port: what it does to that port and to plain ones
LEMMA MappedKeeps ==
    ASSUME NEW s, Agree(s), NEW r, NEW m \in NatRule, NEW t \in Int, boot \in Int,
           Mapped(r, s, m, t)
    PROVE  /\ \A e \in Plain : e # m.eport => Untouched(r, s, e)
           /\ Has(r.nat, m.eport)
           /\ (Has(s.lease, m.eport) => Has(s.nat, m.eport)) => Kept(r, m.eport, LineOf(m, t))
  <1> DEFINE x == LineOf(m, t)
             q == IF Has(s.nat, m.eport) THEN Spared(s.lease, m.eport) ELSE s.lease
  <1>1. s \in Gate /\ s.lease \in Seq(FileLine)
    BY GateFields DEF Agree, Whole, Good
  <1>2. q \in Seq(FileLine)
    BY <1>1, LeaseRemoveHolds
  <1>3. x \in FileLine /\ x.eport = m.eport /\ m.eport \in Eports
    BY ListsTyped DEF LineOf, NatRule
  <1>4. /\ Elsewhere(r, s, m.eport)
        /\ Of(r.desc, m.eport) = {Described(m.eport, t)}
        /\ r.lease = Append(q, x)
    BY DEF Mapped
  <1>5. PICK y : Of(r.nat, m.eport) = {y} /\ LineOf(y, t) = x
    BY DEF Mapped
  <1>6. \A e : Of(Spared(s.lease, m.eport), e) = IF TextPrefix(m.eport, e) THEN {} ELSE Of(s.lease, e)
    BY <1>1, OfSpared
  <1>7. ASSUME NEW e \in Plain, e # m.eport PROVE Untouched(r, s, e)
    <2>1. Of(q, e) = Of(s.lease, e)
      BY <1>3, <1>6, <1>7, Digits
    <2> HIDE DEF x, q
    <2>2. x.eport # e
      BY <1>3, <1>7
    <2>3. Of(r.lease, e) = Of(s.lease, e)
      BY <1>2, <1>3, <1>4, <2>1, <2>2, LineAdded
    <2> QED  BY <1>4, <1>7, <2>3 DEF Untouched, Elsewhere
  <1>8. ASSUME Has(s.lease, m.eport) => Has(s.nat, m.eport) PROVE Kept(r, m.eport, x)
    <2>1. Of(q, m.eport) = {}
      <3>1. CASE Has(s.nat, m.eport)
        BY <1>6, <3>1, Digits
      <3>2. CASE ~Has(s.nat, m.eport)
        BY <1>8, <3>2, OfIs
      <3> QED  BY <3>1, <3>2
    <2> HIDE DEF x, q
    <2>2. Of(r.lease, m.eport) = {x}
      BY <1>2, <1>3, <1>4, <2>1, LineAdded
    <2>3. Stamp(Of(r.desc, m.eport)) = t
      <3> DEFINE d == Described(m.eport, t)
      <3>1. d.timestamp = t
        BY DEF Described
      <3> HIDE DEF d
      <3>2. (CHOOSE c \in {d} : TRUE) = d
        OBVIOUS
      <3>3. Of(r.desc, m.eport) = {d}
        BY <1>4 DEF d
      <3> HIDE DEF Of
      <3> QED  BY <3>1, <3>2, <3>3 DEF Stamp
    <2>4. Lines(r, m.eport) = {x}
      BY <1>5, <2>3 DEF Lines
    <2> QED  BY <2>2, <2>4 DEF Kept
  <1>9. Has(r.nat, m.eport)
    BY <1>5, OfIs
  <1> QED  BY <1>7, <1>8, <1>9

\* _upnp_delete_redir() has cleared a port.
LEMMA ClearedKeeps ==
    ASSUME NEW s \in Gate, NEW r, NEW eport \in Eports, Cleared(r, s, eport)
    PROVE  /\ \A e \in Plain : e # eport => Untouched(r, s, e)
           /\ Gone(r, eport)
  <1>1. s.lease \in Seq(FileLine)
    BY GateFields
  <1>2. /\ Elsewhere(r, s, eport) /\ Of(r.nat, eport) = {}
        /\ r.lease = Spared(s.lease, eport)
    BY DEF Cleared
  <1>3. \A e : Of(r.lease, e) = IF TextPrefix(eport, e) THEN {} ELSE Of(s.lease, e)
    <2>1. \A e : Of(Spared(s.lease, eport), e) = IF TextPrefix(eport, e) THEN {} ELSE Of(s.lease, e)
      BY <1>1, OfSpared
    <2> QED  BY <1>2, <2>1
  <1>4. Gone(r, eport)
    BY <1>2, <1>3, Digits DEF Gone
  <1>5. ASSUME NEW e \in Plain, e # eport PROVE Untouched(r, s, e)
    <2>1. ~TextPrefix(eport, e)
      BY <1>5, Digits
    <2> QED  BY <1>2, <1>3, <1>5, <2>1 DEF Untouched, Elsewhere
  <1> QED  BY <1>4, <1>5

-----------------------------------------------------------------------------
\* Some of the ports D may have lost their mappings.
Fewer(r, s, D) == /\ Settled(r)
                  /\ \A e \in Plain : Untouched(r, s, e) \/ (e \in D /\ Gone(r, e))

\* One more of them does.
LEMMA OneFewer ==
    ASSUME NEW r, NEW s, NEW D, Fewer(r, s, D), NEW eport \in D, eport \in Eports
    PROVE  Fewer(UpnpDeleteRedir(r, eport, {}).s, s, D)
  <1> DEFINE z == UpnpDeleteRedir(r, eport, {}).s
  <1>1. Settled(r) /\ Agree(r) /\ r \in Gate
    BY SettledLone DEF Fewer, Settled
  <1>2. Settled(z)
    BY <1>1, DeleteSettles
  <1>3. Cleared(z, r, eport)
    BY <1>1, DeleteClears
  <1> HIDE DEF z
  <1>4. Gone(z, eport) /\ \A e \in Plain : e # eport => Untouched(z, r, e)
    BY <1>1, <1>3, ClearedKeeps
  <1>5. ASSUME NEW e \in Plain PROVE Untouched(z, s, e) \/ (e \in D /\ Gone(z, e))
    <2>1. CASE e = eport
      BY <1>4, <2>1
    <2>2. CASE e # eport
      <3>1. Untouched(z, r, e) /\ (Untouched(r, s, e) \/ (e \in D /\ Gone(r, e)))
        BY <1>4, <2>2 DEF Fewer
      <3> QED  BY <3>1 DEF Untouched, Gone
    <2> QED  BY <2>1, <2>2
  <1>6. Fewer(z, s, D)
    BY <1>2, <1>5 DEF Fewer
  <1> QED  BY <1>6 DEF z

\* nextruletoclean_timestamp and the list of unused rules do not matter.
LEMMA FieldsFewer ==
    ASSUME NEW r, NEW s, NEW D, Fewer(r, s, D)
    PROVE  /\ \A x \in Int : Fewer([r EXCEPT !.next = x], s, D)
           /\ \A x \in Seq(Entry) : Fewer([r EXCEPT !.list = x], s, D)
  <1>1. Settled(r) /\ r \in Gate
    BY SettledLone DEF Fewer
  <1>2. ASSUME NEW z, Settled(z), Holds(z, r.nat, r.filter, r.post, r.desc, r.lease)
        PROVE  Fewer(z, s, D)
    BY <1>2 DEF Fewer, Holds, Untouched, Gone
  <1>3. \A x \in Int : /\ Settled([r EXCEPT !.next = x])
                       /\ Holds([r EXCEPT !.next = x], r.nat, r.filter, r.post, r.desc, r.lease)
    BY <1>1, FieldsHold, FieldsSettle
  <1>4. \A x \in Seq(Entry) :
          /\ Settled([r EXCEPT !.list = x])
          /\ Holds([r EXCEPT !.list = x], r.nat, r.filter, r.post, r.desc, r.lease)
    BY <1>1, FieldsHold, FieldsSettle
  <1> QED  BY <1>2, <1>3, <1>4

\* One deletion after the other
LEMMA DeleteEachFewer ==
    ASSUME NEW r, NEW s, NEW D, Fewer(r, s, D), NEW eports, Len(eports) \in Nat,
           \A i \in 1 .. Len(eports) : eports[i] \in D /\ eports[i] \in Eports, NEW at
    PROVE  Fewer(DeleteEach(r, eports, at, {}), s, D)
  <1> DEFINE A == {z \in Gate : Fewer(z, s, D)}
  <1>1. \A z : Fewer(z, s, D) <=> z \in A
    BY SettledLone DEF Fewer
  <1>2. \A z \in A, i \in 1 .. Len(eports) : UpnpDeleteRedir(z, eports[i], {}).s \in A
    <2> SUFFICES ASSUME NEW z, Fewer(z, s, D), NEW i \in 1 .. Len(eports)
                 PROVE  Fewer(UpnpDeleteRedir(z, eports[i], {}).s, s, D)
      BY <1>1
    <2> QED  BY OneFewer
  <1> HIDE DEF A
  <1>3. DeleteEach(r, eports, at, {}) \in A
    BY <1>1, <1>2, DeleteEachKeeps
  <1> QED  BY <1>1, <1>3

\* get_upnp_rules_state_list() deletes expired ports only.
LEMMA SweptFewer ==
    ASSUME NEW s, Settled(s), NEW at, now \in Int, boot \in Int
    PROVE  Fewer(Swept(s, at, {}), s, {e \in Eports : Expired(s, e)})
  <1> DEFINE r == [s EXCEPT !.next = NextToClean(s)]
             dead == ExpiredPorts(s)
             D == {e \in Eports : Expired(s, e)}
  <1>1. s \in Gate
    BY SettledLone
  <1>2. /\ NextToClean(s) \in Int /\ Len(dead) \in Nat
        /\ \A i \in 1 .. Len(dead) : dead[i] \in D /\ dead[i] \in Eports
    BY <1>1, NextTyped, ExpiredTyped
  <1>3. Swept(s, at, {}) = On(dead, LAMBDA d : DeleteEach(r, d, at, {}))
    BY DEF Swept
  <1> HIDE DEF D
  <1>4. Fewer(r, s, D)
    <2>1. Fewer(s, s, D)
      BY DEF Fewer, Untouched
    <2> QED  BY <1>2, <2>1, FieldsFewer
  <1> HIDE DEF r, dead
  <1>5. Swept(s, at, {}) = DeleteEach(r, dead, at, {})
    BY <1>3 DEF On
  <1>6. Fewer(Swept(s, at, {}), s, D)
    BY <1>2, <1>4, <1>5, DeleteEachFewer
  <1> QED  BY <1>6 DEF D

Grant == [iaddr : Iaddrs \cup {AnyHost}, iport : Iports \cup {0}, until : Int]

\* What the gateway owes a client, while it runs, while it reloads and while it is down
Owed(e, y) ==
    /\ phase = "up" => Kept(gw, e, y)
    /\ phase = "reload" => \/ Due(gw, pending, e, y)
                           \/ Kept(gw, e, y) /\ Of(pending, e) \subseteq {y}
    /\ phase = "down" => Due(gw, gw.lease, e, y)

GInv ==
    /\ SInv
    /\ 0 <= boot /\ boot <= now
    /\ granted \in [Eports -> Grant]
    /\ phase \in {"up", "reload", "down"}
    /\ phase # "down" => Fresh(gw)
    /\ \A e \in Plain : Live(granted[e]) => Owed(e, Promised(e, granted[e]))

\* No step fails, and there is no remote host but any.
Simple == Faults = "none" /\ Rhosts = {AnyHost}

\* A grant does not come back to life.
LEMMA LiveBefore ==
    ASSUME NEW g \in Grant, now' \in {now, now + 1}, now \in Int, Live(g)'
    PROVE  Live(g)
  <1>1. g.until \in Int
    BY DEF Grant
  <1> QED  BY <1>1 DEF Live

\* The end of a handler when nothing goes wrong
LEMMA EndsWell ==
    ASSUME Simple, NEW steps, NEW fails \in FaultSets(steps), NEW s, Ends(s, fails)
    PROVE  fails = {} /\ gw' = s /\ phase' = phase /\ now' = now /\ boot' = boot
  <1>1. fails = {}
    BY DEF Simple, FaultSets
  <1> QED  BY <1>1 DEF Ends, Dies

\* A gateway that runs on keeps what it owes.
LEMMA UpKeeps ==
    ASSUME GInv, SInv', phase = "up", phase' = "up", now' = now, boot' = boot,
           granted' \in [Eports -> Grant], Fresh(gw'),
           \A e \in Plain : Live(granted'[e]) => Kept(gw', e, Promised(e, granted'[e]))
    PROVE  GInv'
  <1>1. 0 <= boot' /\ boot' <= now'
    BY DEF GInv
  <1>2. Fresh(gw)'
    BY DEF Fresh
  <1>3. ASSUME NEW e \in Plain, Live(granted[e])' PROVE Owed(e, Promised(e, granted[e]))'
    <2>1. Live(granted'[e])
      BY <1>3 DEF Live
    <2>2. Kept(gw', e, Promised(e, granted'[e]))
      BY <2>1
    <2>3. Kept(gw, e, Promised(e, granted[e]))'
      BY <2>2 DEF Kept, Lines, LineOf, Promised
    <2> QED  BY <2>3 DEF Owed
  <1> QED  BY <1>1, <1>2, <1>3 DEF GInv

\* Deletions keep what is owed to the others.
LEMMA FewerKeeps ==
    ASSUME GInv, SInv', phase = "up", phase' = "up", now' = now, boot' = boot,
           granted' \in [Eports -> Grant], NEW D, Fewer(gw', gw, D),
           \A e \in Plain : Live(granted'[e]) =>
              granted'[e] = granted[e] /\ (e \in D => Has(gw'.nat, e))
    PROVE  GInv'
  <1>1. ASSUME NEW e \in Plain, Has(gw'.nat, e) \/ e \notin D PROVE Untouched(gw', gw, e)
    <2>1. Gone(gw', e) => ~Has(gw'.nat, e)
      BY OfIs DEF Gone
    <2> QED  BY <1>1, <2>1 DEF Fewer
  <1>2. Fresh(gw')
    <2> SUFFICES ASSUME NEW e \in Plain, Has(gw'.lease, e) PROVE Has(gw'.nat, e)
      BY DEF Fresh
    <2>1. ~Gone(gw', e)
      BY OfIs DEF Gone
    <2>2. Untouched(gw', gw, e)
      BY <2>1 DEF Fewer
    <2> QED  BY <2>2, UntouchedKept DEF GInv, Fresh
  <1>3. ASSUME NEW e \in Plain, Live(granted'[e]) PROVE Kept(gw', e, Promised(e, granted'[e]))
    <2>1. granted'[e] = granted[e] /\ Untouched(gw', gw, e)
      BY <1>1, <1>3
    <2>2. Kept(gw, e, Promised(e, granted[e]))
      BY <1>3, <2>1 DEF GInv, Owed
    <2> QED  BY <2>1, <2>2, UntouchedKept
  <1> QED  BY <1>2, <1>3, UpKeeps

\* A mapping whose grant has not ended has not expired.
LEMMA LiveNotExpired ==
    ASSUME GInv, phase = "up", NEW e \in Plain, Live(granted[e])
    PROVE  ~Expired(gw, e)
  <1> DEFINE t == Stamp(Of(gw.desc, e))
             g == granted[e]
  <1>1. Kept(gw, e, Promised(e, g))
    BY DEF GInv, Owed
  <1>2. PICK x \in Of(gw.nat, e) : Promised(e, g) = LineOf(x, t)
    BY <1>1, KeptIs
  <1>3. g.until = IF t = 0 THEN 0 ELSE t + boot
    BY <1>2 DEF Promised, LineOf
  <1>4. Settled(gw) /\ gw \in Gate /\ Ones(gw.desc) /\ now \in Int /\ boot \in Int
    BY SettledLone DEF GInv, SInv, RInv, Good
  <1>5. Timestamp(gw, e) = t /\ Timestamp(gw, e) \in Int
    BY <1>4, TimestampIs, TimestampTyped
  <1> HIDE DEF t, g
  <1>6. g.until = 0 \/ g.until > now
    BY DEF Live, g
  <1>7. ~(t > 0 /\ t <= now - boot)
    <2>1. t \in Int /\ now \in Int /\ boot \in Int
      BY <1>4, <1>5
    <2>2. CASE t = 0
      BY <2>2
    <2>3. CASE t # 0
      <3>1. g.until = t + boot
        BY <1>3, <2>3
      <3>2. t + boot = 0 \/ t + boot > now
        BY <1>6, <3>1
      <3>3. 0 <= boot
        BY DEF GInv
      <3> QED  BY <2>1, <3>2, <3>3
    <2> QED  BY <2>2, <2>3
  <1> QED  BY <1>5, <1>7 DEF Expired, UpnpTime

\* AddPortMapping.
LEMMA AddGrants ==
    ASSUME Sound, Simple, GInv, SInv', NEW m \in NatRule, NEW duration \in Nat,
           AddPortMapping(m, duration)
    PROVE  GInv'
  <1> DEFINE out == UpnpRedirect(gw, m, duration, {})
             t == EndOf(duration)
             g == [iaddr |-> m.iaddr, iport |-> m.iport, until |-> Until(duration)]
  <1>1. /\ phase = "up" /\ phase' = "up" /\ now' = now /\ boot' = boot /\ gw' = out.s
        /\ granted' = IF out.r # 0 THEN granted ELSE [granted EXCEPT ![m.eport] = g]
    <2>1. PICK fails \in FaultSets(RedirectSteps(gw, m)) :
            \E o \in {UpnpRedirect(gw, m, duration, fails)} :
                /\ Ends(o.s, fails)
                /\ granted' = IF o.r # 0 \/ Dies(fails) THEN granted
                              ELSE [granted EXCEPT ![m.eport] = g]
      BY DEF AddPortMapping
    <2>2. fails = {}
      BY <2>1, EndsWell
    <2>3. /\ Ends(out.s, {})
          /\ granted' = IF out.r # 0 \/ Dies({}) THEN granted
                        ELSE [granted EXCEPT ![m.eport] = g]
      BY <2>1, <2>2
    <2> HIDE DEF out, g
    <2>4. phase = "up"
      BY DEF AddPortMapping
    <2> QED  BY <2>3, <2>4 DEF Ends, Dies
  <1>2. /\ Settled(gw) /\ Agree(gw) /\ now \in Int /\ boot \in Int /\ Fresh(gw)
        /\ granted \in [Eports -> Grant] /\ 0 <= boot /\ boot <= now
    BY <1>1 DEF GInv, SInv, RInv, Settled
  <1>3. m.eport \in Eports /\ m.iaddr \in Iaddrs /\ m.iport \in Iports
    BY DEF NatRule
  <1>4. t \in Int /\ g \in Grant /\ Promised(m.eport, g) = LineOf(m, t)
    <2>1. Until(duration) \in Int /\ t \in Int
      BY <1>2 DEF Until, EndOf, UpnpTime
    <2>2. Until(duration) = IF t = 0 THEN 0 ELSE t + boot
      BY <1>2 DEF Until, EndOf, UpnpTime
    <2>3. g \in Grant
      BY <1>3, <2>1 DEF Grant
    <2>4. Promised(m.eport, g) = LineOf(m, t)
      BY <2>2 DEF Promised, LineOf
    <2> QED  BY <2>1, <2>3, <2>4
  <1>5. \/ out.r = -2 /\ out.s = gw
        \/ out.r = 0 /\ Mapped(out.s, gw, m, t)
    BY <1>2, RedirectMaps
  <1> HIDE DEF out, t, g
  <1>6. CASE out.r = -2 /\ out.s = gw
    <2>1. gw' = gw /\ granted' = granted
      BY <1>1, <1>6
    <2> QED  BY <1>1, <1>2, <2>1, UpKeeps DEF GInv, Owed
  <1>7. CASE out.r = 0 /\ Mapped(out.s, gw, m, t)
    <2>1. granted' = [granted EXCEPT ![m.eport] = g]
      BY <1>1, <1>7
    <2>2. /\ \A e \in Plain : e # m.eport => Untouched(gw', gw, e)
          /\ Has(gw'.nat, m.eport)
          /\ (Has(gw.lease, m.eport) => Has(gw.nat, m.eport)) => Kept(gw', m.eport, LineOf(m, t))
      BY <1>1, <1>2, <1>4, <1>7, MappedKeeps
    <2>3. granted' \in [Eports -> Grant]
      BY <1>2, <1>3, <1>4, <2>1
    <2>4. Fresh(gw')
      <3> SUFFICES ASSUME NEW e \in Plain, Has(gw'.lease, e) PROVE Has(gw'.nat, e)
        BY DEF Fresh
      <3>1. CASE e = m.eport
        BY <2>2, <3>1
      <3>2. CASE e # m.eport
        BY <1>2, <2>2, <3>2, UntouchedKept DEF Fresh
      <3> QED  BY <3>1, <3>2
    <2>5. ASSUME NEW e \in Plain, Live(granted'[e]) PROVE Kept(gw', e, Promised(e, granted'[e]))
      <3>1. CASE e = m.eport
        <4>1. granted'[e] = g
          BY <1>2, <1>3, <2>1, <3>1
        <4>2. Has(gw.lease, m.eport) => Has(gw.nat, m.eport)
          BY <1>2, <3>1 DEF Fresh
        <4> QED  BY <1>4, <2>2, <3>1, <4>1, <4>2
      <3>2. CASE e # m.eport
        <4>1. granted'[e] = granted[e]
          BY <1>2, <2>1, <3>2 DEF Plain
        <4>2. Kept(gw, e, Promised(e, granted[e]))
          BY <1>1, <2>5, <4>1 DEF GInv, Owed
        <4> QED  BY <2>2, <3>2, <4>1, <4>2, UntouchedKept
      <3> QED  BY <3>1, <3>2
    <2> QED  BY <1>1, <2>3, <2>4, <2>5, UpKeeps
  <1> QED  BY <1>5, <1>6, <1>7

\* A grant that was taken back
LEMMA NoneLives ==
    /\ ~Live(NoGrant)
    /\ NoGrant \in Grant
  BY HostAssumption DEF Live, NoGrant, Grant

\* DeletePortMapping and DeletePortMappingRange.
LEMMA DeletionsGrant ==
    ASSUME Simple, GInv, SInv', \/ \E e \in Eports : DeletePortMapping(e)
                                \/ \E from, to : DeletePortMappingRange(from, to)
    PROVE  GInv'
  <1>1. phase = "up" /\ Settled(gw) /\ gw \in Gate /\ granted \in [Eports -> Grant]
    BY SettledLone DEF DeletePortMapping, DeletePortMappingRange, GInv, SInv
  <1>2. \A D : Fewer(gw, gw, D)
    BY <1>1 DEF Fewer, Untouched
  <1>3. ASSUME NEW p \in Eports, DeletePortMapping(p) PROVE GInv'
    <2> DEFINE r == UpnpDeleteRedir(gw, p, {}).s
    <2>1. PICK fails \in FaultSets(DeleteSteps) : Ends(UpnpDeleteRedir(gw, p, fails).s, fails)
      BY <1>3 DEF DeletePortMapping
    <2>2. fails = {}
      BY <2>1, EndsWell
    <2>3. Ends(r, {})
      BY <2>1, <2>2
    <2>4. Fewer(r, gw, {p})
      BY <1>2, OneFewer
    <2> HIDE DEF r
    <2>5. gw' = r /\ phase' = phase /\ now' = now /\ boot' = boot
      BY <2>3 DEF Ends, Dies
    <2>6. granted' = [granted EXCEPT ![p] = NoGrant]
      BY <1>3 DEF DeletePortMapping
    <2>7. granted' \in [Eports -> Grant]
      BY <1>1, <2>6, NoneLives
    <2>8. ASSUME NEW e \in Plain, Live(granted'[e]) PROVE granted'[e] = granted[e] /\ e \notin {p}
      BY <1>1, <2>6, <2>8, NoneLives DEF Plain
    <2> QED  BY <1>1, <2>4, <2>5, <2>7, <2>8, FewerKeeps
  <1>4. ASSUME NEW from, NEW to, DeletePortMappingRange(from, to) PROVE GInv'
    <2> DEFINE q == gw.nat
               seqs == [i \in DOMAIN q |-> IF q[i].eport \in from .. to THEN <<q[i]>> ELSE <<>>]
               inRange == FlattenSeq(seqs)
               eports == [i \in 1 .. Len(inRange) |-> inRange[i].eport]
    <2>1. Those(gw.nat, LAMBDA e : e.eport \in from .. to) = inRange
      BY DEF Those
    <2>2. PICK at \in 1 .. Len(eports), fails \in FaultSets(DeleteSteps) :
              Ends(DeleteEach(gw, eports, at, fails), fails)
      BY <1>4, <2>1 DEF DeletePortMappingRange
    <2>3. q \in Seq(NatRule)
      BY <1>1, GateFields
    <2> HIDE DEF q
    <2>4. inRange \in Seq(NatRule) /\ \A j \in 1 .. Len(inRange) : inRange[j].eport \in from .. to
      <3> DEFINE Others == {i \in 1 .. Len(q) : q[i].eport \notin from .. to}
      <3>1. Picks(seqs, q) /\ \A i \in 1 .. Len(q) : seqs[i] = <<>> <=> i \in Others
        BY DEF Picks
      <3> HIDE DEF seqs, Others
      <3>2. inRange \in Seq(NatRule) /\ \E f : Thinned(inRange, q, f, Others)
        BY <2>3, <3>1, PicksThinned
      <3> HIDE DEF inRange
      <3>3. PICK f : Thinned(inRange, q, f, Others)
        BY <3>2
      <3>4. \A j \in 1 .. Len(inRange) :
              f[j] \in 1 .. Len(q) /\ inRange[j] = q[f[j]] /\ f[j] \notin Others
        BY <3>3 DEF Thinned
      <3>5. \A j \in 1 .. Len(inRange) : inRange[j].eport \in from .. to
        BY <3>4 DEF Others
      <3> QED  BY <3>2, <3>5
    <2> HIDE DEF inRange
    <2>5. Len(eports) \in Nat
          /\ \A i \in 1 .. Len(eports) : eports[i] \in from .. to /\ eports[i] \in Eports
      <3>1. Len(inRange) \in Nat /\ \A i \in 1 .. Len(inRange) : inRange[i] \in NatRule
        BY <2>4
      <3> QED  BY <2>4, <3>1 DEF NatRule
    <2> HIDE DEF eports
    <2> DEFINE r == DeleteEach(gw, eports, at, {})
    <2>6. Fewer(r, gw, from .. to)
      BY <1>2, <2>5, DeleteEachFewer
    <2>7. fails = {} /\ Ends(r, {})
      BY <2>2, EndsWell
    <2> HIDE DEF r
    <2>8. gw' = r /\ phase' = phase /\ now' = now /\ boot' = boot
      BY <2>7 DEF Ends, Dies
    <2>9. granted' = [e \in Eports |-> IF e \in from .. to THEN NoGrant ELSE granted[e]]
      BY <1>4 DEF DeletePortMappingRange
    <2>10. granted' \in [Eports -> Grant]
      BY <1>1, <2>9, NoneLives
    <2>11. ASSUME NEW e \in Plain, Live(granted'[e])
           PROVE  granted'[e] = granted[e] /\ e \notin from .. to
      BY <2>9, <2>11, NoneLives DEF Plain
    <2> QED  BY <1>1, <2>6, <2>8, <2>10, <2>11, FewerKeeps
  <1> QED  BY <1>3, <1>4

\* The clean-up of expired and of unused rules.
LEMMA CleanUpGrants ==
    ASSUME Simple, GInv, SInv', CleanUp
    PROVE  GInv'
  <1>1. /\ phase = "up" /\ Settled(gw) /\ gw \in Gate /\ now \in Int /\ boot \in Int
        /\ granted \in [Eports -> Grant]
    BY SettledLone DEF CleanUp, CleanExpired, ListRules, RemoveUnusedRules, GInv, SInv, RInv
  <1> DEFINE D == {e \in Eports : Expired(gw, e)}
  <1>2. ASSUME NEW s, Fewer(s, gw, D), Ends(s, {}), granted' = granted PROVE GInv'
    <2>1. gw' = s /\ phase' = phase /\ now' = now /\ boot' = boot
      BY <1>2 DEF Ends, Dies
    <2>2. ASSUME NEW e \in Plain, Live(granted'[e]) PROVE e \notin D
      BY <1>1, <1>2, <2>2, LiveNotExpired
    <2> HIDE DEF D
    <2> QED  BY <1>1, <1>2, <2>1, <2>2, FewerKeeps
  <1>3. \A at : Fewer(Swept(gw, at, {}), gw, D)
    BY <1>1, SweptFewer
  <1> HIDE DEF D
  <1>4. ASSUME CleanExpired PROVE GInv'
    <2>1. PICK at \in Places(gw), fails \in FaultSets(DeleteSteps) : Ends(Swept(gw, at, fails), fails)
      BY <1>4 DEF CleanExpired
    <2>2. fails = {}
      BY <2>1, EndsWell
    <2>3. Ends(Swept(gw, at, {}), {}) /\ granted' = granted
      BY <1>4, <2>1, <2>2 DEF CleanExpired
    <2> QED  BY <1>2, <1>3, <2>3
  <1>5. ASSUME ListRules PROVE GInv'
    <2> DEFINE l == StateList(gw, Threshold)
    <2>1. PICK at \in Places(gw), fails \in FaultSets(DeleteSteps) :
              Ends([Swept(gw, at, fails) EXCEPT !.list = l], fails)
      BY <1>5 DEF ListRules
    <2>2. fails = {}
      BY <2>1, EndsWell
    <2> DEFINE r == Swept(gw, at, {})
               x == [r EXCEPT !.list = l]
    <2>3. Ends(x, {}) /\ granted' = granted
      BY <1>5, <2>1, <2>2 DEF ListRules
    <2>4. l \in Seq(Entry) /\ Fewer(r, gw, D)
      BY <1>1, <1>3, StateListTyped
    <2> HIDE DEF l, r
    <2>5. Fewer(x, gw, D)
      BY <2>4, FieldsFewer
    <2> HIDE DEF x
    <2> QED  BY <1>2, <2>3, <2>5
  <1>6. ASSUME NEW victim \in [1 .. Len(gw.list) -> Eports], RemoveUnusedRules(victim)
        PROVE  GInv'
    <2> DEFINE s == (CHOOSE f : RemovesUnused(f, victim))[Len(gw.list)]
               A == {r \in Gate : Fewer(r, gw, Eports)}
    <2>1. Ends([s EXCEPT !.list = <<>>], {})
      BY <1>6 DEF RemoveUnusedRules, RemovesUnused
    <2>2. \A r : r \in A <=> Fewer(r, gw, Eports)
      BY SettledLone DEF Fewer
    <2>3. \A r \in A, i \in 1 .. Len(gw.list) : UpnpDeleteRedir(r, victim[i], {}).s \in A
      <3> SUFFICES ASSUME NEW r, Fewer(r, gw, Eports), NEW i \in 1 .. Len(gw.list)
                   PROVE  Fewer(UpnpDeleteRedir(r, victim[i], {}).s, gw, Eports)
        BY <2>2
      <3>1. victim[i] \in Eports
        OBVIOUS
      <3> QED  BY <3>1, OneFewer
    <2>4. gw \in A
      BY <1>1, <2>2 DEF Fewer, Untouched
    <2> HIDE DEF A
    <2>5. s \in A
      BY <1>1, <2>3, <2>4, RemovesKeeps
    <2> HIDE DEF s
    <2>6. <<>> \in Seq(Entry)
      OBVIOUS
    <2>7. PICK l \in Seq(Entry) : l = <<>>
      BY <2>6, Zenon
    <2> DEFINE x == [s EXCEPT !.list = l]
    <2>8. Fewer(x, gw, Eports)
      BY <2>2, <2>5, FieldsFewer
    <2>9. Ends(x, {})
      BY <2>1, <2>7
    <2> HIDE DEF x
    <2>10. gw' = x /\ phase' = phase /\ now' = now /\ boot' = boot
      BY <2>9 DEF Ends, Dies
    <2>11. granted' = [e \in Eports |-> IF NatIndex(gw, e) # 0 /\ NatIndex(gw', e) = 0
                                        THEN NoGrant ELSE granted[e]]
      BY <1>6 DEF RemoveUnusedRules
    <2>12. granted' \in [Eports -> Grant]
      BY <1>1, <2>11, NoneLives
    <2>13. x \in Gate
      BY <2>8, SettledLone DEF Fewer
    <2>14. ASSUME NEW e \in Plain, Live(granted'[e])
           PROVE  granted'[e] = granted[e] /\ Has(gw'.nat, e)
      <3>1. granted'[e] = granted[e] /\ (NatIndex(gw, e) = 0 \/ NatIndex(gw', e) # 0)
        BY <2>11, <2>14, NoneLives DEF Plain
      <3>2. Kept(gw, e, Promised(e, granted[e]))
        BY <1>1, <2>14, <3>1 DEF GInv, Owed
      <3>3. Has(gw.nat, e)
        BY <3>2, KeptIs
      <3>4. /\ gw.nat \in Seq(NatRule) /\ x.nat \in Seq(NatRule)
            /\ NatIndex(gw, e) = At(gw.nat, e) /\ NatIndex(x, e) = At(x.nat, e)
        BY <1>1, <2>13, GateFields, Indices
      <3>5. (NatIndex(gw, e) = 0 => ~Has(gw.nat, e)) /\ (NatIndex(x, e) # 0 => Has(x.nat, e))
        BY <3>4, AtFinds
      <3> QED  BY <2>10, <3>1, <3>3, <3>5
    <2> QED  BY <1>1, <2>8, <2>10, <2>12, <2>14, FewerKeeps
  <1> QED  BY <1>4, <1>5, <1>6 DEF CleanUp

\* A packet is counted.
LEMMA PacketGrants ==
    ASSUME GInv, SInv', NEW eport, Packet(eport)
    PROVE  GInv'
  <1>1. /\ phase' = phase /\ pending' = pending /\ now' = now /\ boot' = boot
        /\ granted' = granted
    BY DEF Packet
  <1>2. /\ \A e : Has(gw'.nat, e) <=> Has(gw.nat, e)
        /\ gw'.lease = gw.lease /\ \A e : Lines(gw', e) = Lines(gw, e)
    BY PacketSettles DEF GInv, SInv
  <1>3. ASSUME NEW e, NEW y PROVE Kept(gw, e, y) => Kept(gw', e, y)
    BY <1>2 DEF Kept
  <1>4. ASSUME NEW e, NEW y, NEW q PROVE Due(gw, q, e, y) => Due(gw', q, e, y)
    <2> SUFFICES ASSUME Due(gw, q, e, y), NEW x \in Of(gw'.nat, e) PROVE x.iaddr = y.iaddr
      BY DEF Due
    <2> DEFINE t == Stamp(Of(gw.desc, e))
               u == Stamp(Of(gw'.desc, e))
    <2>1. LineOf(x, u) \in Lines(gw', e)
      BY DEF Lines
    <2>2. LineOf(x, u) \in Lines(gw, e)
      BY <1>2, <2>1
    <2> HIDE DEF u
    <2>3. PICK z \in Of(gw.nat, e) : LineOf(x, u) = LineOf(z, t)
      BY <2>2 DEF Lines
    <2> HIDE DEF t
    <2>4. x.iaddr = z.iaddr
      BY <2>3 DEF LineOf
    <2> QED  BY <2>4 DEF Due
  <1>5. ASSUME NEW e, NEW y, Kept(gw', e, y) PROVE Kept(gw, e, y)'
    BY <1>1, <1>5 DEF Kept, Lines, LineOf
  <1>6. ASSUME NEW e, NEW y, Owed(e, y) PROVE Owed(e, y)'
    <2>1. Kept(gw, e, y) => Kept(gw, e, y)'
      BY <1>3, <1>5
    <2>2. Due(gw, pending, e, y) => Due(gw, pending, e, y)'
      BY <1>1, <1>4 DEF Due
    <2>3. Due(gw, gw.lease, e, y) => Due(gw, gw.lease, e, y)'
      BY <1>2, <1>4 DEF Due
    <2>4. (phase = "up" => Kept(gw, e, y)') /\ (phase = "down" => Due(gw, gw.lease, e, y)')
      BY <1>6, <2>1, <2>3 DEF Owed
    <2>5. phase = "reload" => \/ Due(gw, pending, e, y)'
                              \/ Kept(gw, e, y)' /\ Of(pending', e) \subseteq {y}
      BY <1>1, <1>6, <2>1, <2>2 DEF Owed
    <2> QED  BY <1>1, <2>4, <2>5 DEF Owed
  <1>7. phase # "down" => Fresh(gw)'
    BY <1>2 DEF GInv, Fresh
  <1>8. ASSUME NEW e \in Plain, Live(granted[e])' PROVE Owed(e, Promised(e, granted[e]))'
    <2>1. Live(granted[e]) /\ granted'[e] = granted[e]
      BY <1>1, <1>8 DEF Live
    <2>2. Owed(e, Promised(e, granted[e]))
      BY <2>1 DEF GInv
    <2> DEFINE y == Promised(e, granted[e])
    <2>3. y' = y
      BY <2>1 DEF Promised
    <2> QED  BY <1>6, <2>2, <2>3
  <1> QED  BY <1>1, <1>7, <1>8 DEF GInv

\* The daemon stops.
LEMMA StopGrants ==
    ASSUME Simple, GInv, SInv', Stop
    PROVE  GInv'
  <1>1. /\ phase = "up" /\ phase' = "down" /\ gw' = Forgotten(gw)
        /\ now' = now /\ boot' = boot /\ granted' = granted
    BY DEF Stop, Simple
  <1>2. gw \in Gate
    BY <1>1, SettledLone DEF GInv, SInv
  <1>3. gw'.lease = gw.lease /\ gw'.nat = gw.nat
    BY <1>1, <1>2 DEF Forgotten, Gate
  <1>4. ASSUME NEW e \in Plain, Live(granted[e])' PROVE Owed(e, Promised(e, granted[e]))'
    <2>1. Live(granted[e]) /\ granted'[e] = granted[e]
      BY <1>1, <1>4 DEF Live
    <2> DEFINE y == Promised(e, granted[e])
    <2>2. Kept(gw, e, y)
      BY <1>1, <2>1 DEF GInv, Owed
    <2>3. y' = y
      BY <2>1 DEF Promised
    <2> HIDE DEF y
    <2>4. Of(gw.lease, e) = {y} /\ \A x \in Of(gw.nat, e) : x.iaddr = y.iaddr
      BY <2>2, KeptIs DEF Kept
    <2>5. Due(gw', gw'.lease, e, y)
      BY <1>3, <2>4 DEF Due
    <2>6. Due(gw, gw.lease, e, y)'
      BY <2>3, <2>5 DEF Due
    <2> QED  BY <1>1, <2>6 DEF Owed, y
  <1> QED  BY <1>1, <1>4 DEF GInv

\* The daemon starts.
LEMMA StartGrants ==
    ASSUME GInv, SInv', NEW flushed \in BOOLEAN, NEW rebooted \in BOOLEAN, Start(flushed, rebooted)
    PROVE  GInv'
  <1>1. /\ phase = "down" /\ phase' = "reload" /\ pending' = gw.lease
        /\ now' = now /\ granted' = granted /\ boot' \in {now, boot}
    BY DEF Start
  <1>2. gw \in Gate /\ now \in Int /\ boot \in Int
    BY <1>1 DEF GInv, SInv, RInv, Good
  <1>3. gw'.lease = <<>> /\ (gw'.nat = <<>> \/ gw'.nat = gw.nat)
    BY <1>2 DEF Start, Gate
  <1>4. Fresh(gw)'
    BY <1>3 DEF Fresh, Has
  <1>5. 0 <= boot' /\ boot' <= now'
    BY <1>1, <1>2 DEF GInv
  <1>6. ASSUME NEW e \in Plain, Live(granted[e])' PROVE Owed(e, Promised(e, granted[e]))'
    <2>1. Live(granted[e]) /\ granted'[e] = granted[e]
      BY <1>1, <1>6 DEF Live
    <2> DEFINE y == Promised(e, granted[e])
    <2>2. Due(gw, gw.lease, e, y)
      BY <1>1, <2>1 DEF GInv, Owed
    <2>3. y' = y
      BY <2>1 DEF Promised
    <2> HIDE DEF y
    <2>4. Of(<<>>, e) = {}
      BY OfIs DEF Has
    <2>5. Due(gw', pending', e, y)
      BY <1>1, <1>3, <2>2, <2>4 DEF Due
    <2>6. Due(gw, pending, e, y)'
      BY <2>3, <2>5 DEF Due
    <2> QED  BY <1>1, <2>6 DEF Owed, y
  <1> QED  BY <1>1, <1>4, <1>5, <1>6 DEF GInv

\* The lines for a port in what is left to be reloaded
LEMMA OfTail ==
    ASSUME NEW q \in Seq(FileLine), q # <<>>, NEW e
    PROVE  /\ Of(Tail(q), e) \subseteq Of(q, e)
           /\ Head(q).eport # e => Of(Tail(q), e) = Of(q, e)
           /\ Head(q).eport = e => Head(q) \in Of(q, e)
  <1> DEFINE w == Tail(q)
  <1>1. PICK n \in Nat : n = Len(q)
    OBVIOUS
  <1>2. n # 0 /\ Len(w) = n - 1 /\ Head(q) = q[1] /\ \A j \in 1 .. n - 1 : w[j] = q[j + 1]
    BY <1>1
  <1> HIDE DEF w
  <1>3. \A x : x \in Of(w, e) <=> \E i \in 1 .. n - 1 : w[i] = x /\ w[i].eport = e
    BY <1>2, OfIs
  <1>4. \A x : x \in Of(q, e) <=> \E i \in 1 .. n : q[i] = x /\ q[i].eport = e
    BY <1>1, OfIs
  <1>5. ASSUME NEW x \in Of(w, e) PROVE x \in Of(q, e)
    <2>1. PICK i \in 1 .. n - 1 : w[i] = x /\ w[i].eport = e
      BY <1>3
    <2>2. i + 1 \in 1 .. n /\ q[i + 1] = x /\ q[i + 1].eport = e
      BY <1>2, <2>1
    <2> QED  BY <1>4, <2>2
  <1>6. ASSUME Head(q).eport # e, NEW x \in Of(q, e) PROVE x \in Of(w, e)
    <2>1. PICK i \in 1 .. n : q[i] = x /\ q[i].eport = e
      BY <1>4
    <2>2. i # 1
      BY <1>2, <1>6, <2>1
    <2>3. i - 1 \in 1 .. n - 1 /\ i = (i - 1) + 1
      BY <2>2
    <2>4. w[i - 1] = x /\ w[i - 1].eport = e
      BY <1>2, <2>1, <2>3
    <2> QED  BY <1>3, <2>3, <2>4
  <1>7. Head(q).eport = e => Head(q) \in Of(q, e)
    <2>1. 1 \in 1 .. n
      BY <1>2
    <2> QED  BY <1>2, <1>4, <2>1
  <1> QED  BY <1>5, <1>6, <1>7 DEF w

\* A line that has not expired, of a client that has the port or finds it free,
\* is a mapping again; a line of another is written back.
LEMMA LineReloads ==
    ASSUME Simple, NEW s, Agree(s), Fresh(s), NEW l \in FileLine, now \in Int, boot \in Int,
           boot <= now, l.timestamp = 0 \/ l.timestamp > now, NEW ts \in Int
    PROVE  LET m == Reloaded(l)
               duration == IF l.timestamp = 0 THEN 0 ELSE l.timestamp - now
               out == UpnpRedirect(s, m, duration, {})
               r == IF out.r = -2 THEN LeaseAdd(out.s, m, ts, {}) ELSE out.s
           IN  /\ \A e \in Plain : e # l.eport => Untouched(r, s, e)
               /\ Has(r.nat, l.eport)
               /\ l.eport \in Plain /\ (\A x \in Of(s.nat, l.eport) : x.iaddr = l.iaddr) =>
                    Kept(r, l.eport, l)
  <1> DEFINE m == Reloaded(l)
             duration == IF l.timestamp = 0 THEN 0 ELSE l.timestamp - now
             t == EndOf(duration)
             out == UpnpRedirect(s, m, duration, {})
             add == LeaseAdd(out.s, m, ts, {})
             r == IF out.r = -2 THEN add ELSE out.s
  <1>1. l.timestamp \in Int /\ duration \in Int
    BY DEF FileLine
  <1>2. t \in Int /\ l.timestamp = IF t = 0 THEN 0 ELSE t + boot
    BY <1>1 DEF EndOf, UpnpTime
  <1>3. m \in NatRule /\ m.eport = l.eport /\ m.iaddr = l.iaddr /\ m.rhost = AnyHost
        /\ m.iport = l.iport
    BY HostAssumption DEF Reloaded, FileLine, NatRule
  <1>4. LineOf(m, t) = l
    <2>1. l = [eport |-> l.eport, iaddr |-> l.iaddr, iport |-> l.iport, timestamp |-> l.timestamp]
      BY DEF FileLine
    <2> HIDE DEF m, t
    <2> QED  BY <1>2, <1>3, <2>1 DEF LineOf
  <1>5. s \in Gate /\ s.nat \in Seq(NatRule) /\ s.lease \in Seq(FileLine)
    BY GateFields DEF Agree, Whole, Good
  <1> HIDE DEF m, duration
  <1>6. \/ /\ out.r = -2 /\ out.s = s /\ Has(s.nat, m.eport)
           /\ \E x \in Of(s.nat, m.eport) : m.iaddr # x.iaddr \/ m.rhost # x.rhost
        \/ out.r = 0 /\ Mapped(out.s, s, m, t)
    BY <1>1, <1>3, RedirectMaps
  <1> HIDE DEF out, t
  <1> DEFINE Goal == /\ \A e \in Plain : e # l.eport => Untouched(r, s, e)
                     /\ Has(r.nat, l.eport)
                     /\ l.eport \in Plain /\ (\A x \in Of(s.nat, l.eport) : x.iaddr = l.iaddr) =>
                          Kept(r, l.eport, l)
  <1>7. CASE /\ out.r = -2 /\ out.s = s /\ Has(s.nat, m.eport)
             /\ \E x \in Of(s.nat, m.eport) : m.iaddr # x.iaddr \/ m.rhost # x.rhost
    <2> DEFINE x == LineOf(m, ts)
    <2>1. r = add /\ out.s = s
      BY <1>7
    <2>2. x \in FileLine /\ x.eport = l.eport
      BY <1>3, ListsTyped DEF LineOf
    <2>3. Holds(add, s.nat, s.filter, s.post, s.desc, Append(s.lease, x))
      BY <1>3, <1>5, <2>1, LeaseAddHolds
    <2> HIDE DEF x, add
    <2>4. add.nat = s.nat /\ add.desc = s.desc /\ add.lease = Append(s.lease, x)
      BY <2>3 DEF Holds
    <2>5. ASSUME NEW e \in Plain, e # l.eport PROVE Untouched(add, s, e)
      <3>1. x.eport # e
        BY <2>2, <2>5
      <3>2. Of(Append(s.lease, x), e) = Of(s.lease, e)
        BY <1>5, <2>2, <3>1, LineAdded
      <3> QED  BY <2>4, <3>2 DEF Untouched
    <2>6. \E z \in Of(s.nat, l.eport) : z.iaddr # l.iaddr
      <3>1. PICK z \in Of(s.nat, l.eport) : l.iaddr # z.iaddr \/ AnyHost # z.rhost
        BY <1>3, <1>7
      <3>2. z \in NatRule
        BY <1>5 DEF Of
      <3>3. z.rhost = AnyHost
        BY <3>2 DEF NatRule, Simple
      <3> QED  BY <3>1, <3>3
    <2>7. Has(add.nat, l.eport)
      BY <1>3, <1>7, <2>4
    <2> HIDE DEF r
    <2>8. Goal
      BY <2>1, <2>5, <2>6, <2>7
    <2> QED  BY <2>8 DEF r, out, add, m, duration
  <1>8. CASE out.r = 0 /\ Mapped(out.s, s, m, t)
    <2>1. r = out.s
      BY <1>8
    <2> HIDE DEF r
    <2>2. /\ \A e \in Plain : e # m.eport => Untouched(r, s, e)
          /\ Has(r.nat, m.eport)
          /\ (Has(s.lease, m.eport) => Has(s.nat, m.eport)) => Kept(r, m.eport, LineOf(m, t))
      BY <1>2, <1>3, <1>8, <2>1, MappedKeeps
    <2>3. Goal
      BY <1>3, <1>4, <2>2 DEF Fresh
    <2> QED  BY <2>3 DEF r, out, add, m, duration
  <1> QED  BY <1>6, <1>7, <1>8

\* A line of the lease file is a mapping again, or not.
LEMMA ReloadGrants ==
    ASSUME Sound, Simple, GInv, SInv', ReloadLine
    PROVE  GInv'
  <1> DEFINE l == Head(pending)
             m == Reloaded(l)
             duration == IF l.timestamp = 0 THEN 0 ELSE l.timestamp - now
             ts == IF duration = 0 THEN 0 ELSE UpnpTime + duration
             out == UpnpRedirect(gw, m, duration, {})
             r == IF out.r = -2 THEN LeaseAdd(out.s, m, ts, {}) ELSE out.s
  <1>1. /\ phase = "reload" /\ pending # <<>> /\ pending' = Tail(pending) /\ granted' = granted
    BY DEF ReloadLine
  <1>2. \/ l.timestamp # 0 /\ l.timestamp <= now /\ Ends(gw, {})
        \/ ~(l.timestamp # 0 /\ l.timestamp <= now) /\ Ends(r, {})
    BY DEF ReloadLine, Simple
  <1>3. /\ Agree(gw) /\ now \in Int /\ boot \in Int /\ pending \in Seq(FileLine)
        /\ boot <= now /\ Fresh(gw)
    BY <1>1 DEF GInv, SInv, RInv, Settled
  <1>4. l \in FileLine
    BY <1>1, <1>3
  <1>5. \A e : /\ Of(pending', e) \subseteq Of(pending, e)
               /\ l.eport # e => Of(pending', e) = Of(pending, e)
               /\ l.eport = e => l \in Of(pending, e)
    BY <1>1, <1>3, OfTail
  <1> HIDE DEF l
  <1>6. l.timestamp \in Int /\ duration \in Int
    BY <1>3, <1>4 DEF FileLine
  <1>7. ts \in Int
    <2> HIDE DEF duration
    <2> QED  BY <1>3, <1>6 DEF UpnpTime
  <1> HIDE DEF ts
  <1>8. ASSUME l.timestamp = 0 \/ l.timestamp > now
        PROVE  /\ \A e \in Plain : e # l.eport => Untouched(r, gw, e)
               /\ Has(r.nat, l.eport)
               /\ l.eport \in Plain /\ (\A x \in Of(gw.nat, l.eport) : x.iaddr = l.iaddr) =>
                    Kept(r, l.eport, l)
    BY <1>3, <1>4, <1>7, <1>8, LineReloads
  <1> HIDE DEF r
  <1>9. /\ phase' = phase /\ now' = now /\ boot' = boot
        /\ \/ l.timestamp # 0 /\ l.timestamp <= now /\ gw' = gw
           \/ (l.timestamp = 0 \/ l.timestamp > now) /\ gw' = r
    <2>1. \A s : Ends(s, {}) => gw' = s /\ phase' = phase /\ now' = now /\ boot' = boot
      BY DEF Ends, Dies
    <2>2. ~(l.timestamp # 0 /\ l.timestamp <= now) => l.timestamp = 0 \/ l.timestamp > now
      BY <1>3, <1>6
    <2> QED  BY <1>2, <2>1, <2>2
  <1>10. /\ \A e \in Plain : e # l.eport => Untouched(gw', gw, e)
         /\ Has(gw'.lease, l.eport) /\ l.eport \in Plain => Has(gw'.nat, l.eport)
    <2>1. \A e : Untouched(gw, gw, e)
      BY DEF Untouched
    <2>2. CASE gw' = gw
      BY <1>3, <2>1, <2>2 DEF Fresh
    <2>3. CASE (l.timestamp = 0 \/ l.timestamp > now) /\ gw' = r
      BY <1>8, <2>3
    <2> QED  BY <1>9, <2>2, <2>3
  <1>11. Fresh(gw)'
    <2> SUFFICES ASSUME NEW e \in Plain, Has(gw'.lease, e) PROVE Has(gw'.nat, e)
      BY DEF Fresh
    <2>1. CASE e = l.eport
      BY <1>10, <2>1
    <2>2. CASE e # l.eport
      BY <1>3, <1>10, <2>2, UntouchedKept DEF Fresh
    <2> QED  BY <2>1, <2>2
  <1>13. ASSUME NEW e \in Plain, Live(granted[e])' PROVE Owed(e, Promised(e, granted[e]))'
    <2> DEFINE y == Promised(e, granted[e])
    <2>1. Live(granted[e]) /\ granted'[e] = granted[e]
      BY <1>1, <1>9, <1>13 DEF Live
    <2>2. y' = y /\ (y.timestamp = 0 \/ y.timestamp > now)
      BY <2>1 DEF Promised, Live
    <2>3. Due(gw, pending, e, y) \/ (Kept(gw, e, y) /\ Of(pending, e) \subseteq {y})
      BY <1>1, <2>1 DEF GInv, Owed
    <2>6. (Due(gw, pending, e, y)' \/ (Kept(gw, e, y)' /\ Of(pending', e) \subseteq {y'}))
          => Owed(e, Promised(e, granted[e]))'
      BY <1>1, <1>9 DEF Owed
    <2> HIDE DEF y
    <2>7. Kept(gw', e, y) => Kept(gw, e, y)'
      BY <1>9, <2>2 DEF Kept, Lines, LineOf
    <2>8. Due(gw', pending', e, y) => Due(gw, pending, e, y)'
      BY <2>2 DEF Due
    <2>4. CASE e = l.eport
      <3>1. l = y
        BY <1>5, <2>3, <2>4 DEF Due
      <3>2. gw' = r /\ (l.timestamp = 0 \/ l.timestamp > now)
        <4>1. ~(l.timestamp # 0 /\ l.timestamp <= now)
          BY <1>3, <1>6, <2>2, <3>1
        <4> QED  BY <1>9, <4>1
      <3>3. \A x \in Of(gw.nat, e) : x.iaddr = l.iaddr
        BY <2>3, <3>1, KeptIs DEF Due
      <3>4. Kept(gw', e, y)
        BY <1>8, <2>4, <3>1, <3>2, <3>3
      <3>5. Of(pending', e) \subseteq {y}
        BY <1>5, <2>3 DEF Due
      <3> QED  BY <2>2, <2>6, <2>7, <3>4, <3>5
    <2>5. CASE e # l.eport
      <3>1. Untouched(gw', gw, e) /\ Of(pending', e) = Of(pending, e)
        BY <1>5, <1>10, <2>5
      <3>2. \A q : Due(gw, q, e, y) <=> Due(gw', q, e, y)
        BY <3>1, UntouchedKept
      <3>3. Due(gw', pending, e, y) => Due(gw', pending', e, y)
        BY <3>1 DEF Due
      <3>4. Kept(gw, e, y) => Kept(gw', e, y)
        BY <3>1, UntouchedKept
      <3> QED  BY <2>2, <2>3, <2>6, <2>7, <2>8, <3>1, <3>2, <3>3, <3>4
    <2> QED  BY <2>4, <2>5
  <1> QED  BY <1>1, <1>9, <1>11, <1>13 DEF GInv

\* The file has been read, or time passes.
LEMMA IdleGrants ==
    ASSUME GInv, SInv', ReloadDone \/ Tick \/ UNCHANGED vars
    PROVE  GInv'
  <1>1. /\ gw' = gw /\ boot' = boot /\ granted' = granted /\ pending' = pending
        /\ now' \in {now, now + 1} /\ now \in Int /\ boot \in Int
        /\ \/ phase' = phase /\ (phase = "reload" => now' = now)
           \/ phase = "reload" /\ pending = <<>> /\ phase' = "up" /\ now' = now
    BY DEF ReloadDone, Tick, vars, GInv, SInv, RInv
  <1>2. /\ 0 <= boot /\ boot <= now /\ granted \in [Eports -> Grant]
        /\ phase \in {"up", "reload", "down"} /\ (phase # "down" => Fresh(gw))
    BY DEF GInv
  <1>3. 0 <= boot' /\ boot' <= now'
    BY <1>1, <1>2
  <1>4. phase' # "down" => Fresh(gw)'
    BY <1>1, <1>2 DEF Fresh
  <1>5. phase' \in {"up", "reload", "down"} /\ granted' \in [Eports -> Grant]
    BY <1>1, <1>2
  <1>6. ASSUME NEW e \in Plain, Live(granted[e])' PROVE Owed(e, Promised(e, granted[e]))'
    <2> DEFINE y == Promised(e, granted[e])
    <2>1. granted[e] \in Grant /\ granted'[e] = granted[e]
      BY <1>1, <1>2 DEF Plain
    <2>2. Live(granted[e])
      <3> DEFINE g == granted[e]
      <3>1. g \in Grant /\ Live(g)'
        BY <1>1, <1>6, <2>1 DEF Live
      <3> HIDE DEF g
      <3>2. g.until \in Int
        BY <3>1 DEF Grant
      <3>3. granted'[e] = granted[e] /\ granted'[e] # NoGrant
            /\ (granted'[e].until = 0 \/ granted'[e].until > now')
        BY <1>6, <2>1 DEF Live
      <3>4. g # NoGrant /\ (g.until = 0 \/ g.until > now')
        BY <3>3 DEF g
      <3>5. g.until = 0 \/ g.until > now
        BY <1>1, <3>2, <3>4
      <3> QED  BY <3>4, <3>5 DEF Live, g
    <2>3. Owed(e, y)
      BY <2>2 DEF GInv
    <2>4. y' = y
      BY <2>1 DEF Promised
    <2>5. phase = "reload" /\ pending = <<>> => Kept(gw, e, y)
      <3>1. Of(<<>>, e) = {}
        BY OfIs DEF Has
      <3> QED  BY <2>3, <3>1 DEF Owed, Due
    <2> HIDE DEF y
    <2>6. Kept(gw, e, y) => Kept(gw, e, y)'
      BY <1>1, <2>4 DEF Kept, Lines, LineOf
    <2>7. /\ Due(gw, pending, e, y) => Due(gw, pending, e, y)'
          /\ Due(gw, gw.lease, e, y) => Due(gw, gw.lease, e, y)'
      BY <1>1, <2>4 DEF Due
    <2>8. Owed(e, y)'
      BY <1>1, <2>3, <2>4, <2>5, <2>6, <2>7 DEF Owed
    <2> QED  BY <2>8 DEF y
  <1> QED  BY <1>3, <1>4, <1>5, <1>6 DEF GInv

\* No step loses a mapping that was granted.
LEMMA NextGInv ==
    ASSUME Simple, GInv, [Next]_vars
    PROVE  GInv'
  <1>1. Sound
    BY DEF Simple, Sound
  <1>2. SInv'
    BY <1>1, NextSInv DEF GInv
  <1>3. ASSUME NEW e \in Eports, NEW a \in Iaddrs, NEW p \in Iports, NEW h \in Rhosts,
               NEW d \in Leases,
               AddPortMapping([eport |-> e, iaddr |-> a, iport |-> p, rhost |-> h,
                               packets |-> 0], d)
        PROVE  GInv'
    <2>1. [eport |-> e, iaddr |-> a, iport |-> p, rhost |-> h, packets |-> 0] \in NatRule
      BY DEF NatRule
    <2>2. d \in Nat
      BY LeasesAssumption
    <2> QED  BY <1>1, <1>2, <1>3, <2>1, <2>2, AddGrants
  <1>4. CASE \/ \E e \in Eports : DeletePortMapping(e)
             \/ \E from, to \in Eports : from <= to /\ DeletePortMappingRange(from, to)
    <2>1. \/ \E e \in Eports : DeletePortMapping(e)
          \/ \E from, to : DeletePortMappingRange(from, to)
      BY <1>4
    <2> QED  BY <1>2, <2>1, DeletionsGrant
  <1>5. CASE CleanUp
    BY <1>2, <1>5, CleanUpGrants
  <1>6. CASE \E e \in Eports : Packet(e)
    BY <1>2, <1>6, PacketGrants
  <1>7. CASE Stop
    BY <1>2, <1>7, StopGrants
  <1>8. CASE \E flushed, rebooted \in BOOLEAN : Start(flushed, rebooted)
    BY <1>2, <1>8, StartGrants
  <1>9. CASE ReloadLine
    BY <1>1, <1>2, <1>9, ReloadGrants
  <1>10. CASE ReloadDone \/ Tick \/ UNCHANGED vars
    BY <1>2, <1>10, IdleGrants
  <1> QED  BY <1>3, <1>4, <1>5, <1>6, <1>7, <1>8, <1>9, <1>10 DEF Next, Requests, Reload

\* Nothing was granted before the first request.
LEMMA InitGInv == Init => GInv
  <1> SUFFICES ASSUME Init PROVE GInv
    OBVIOUS
  <1>1. SInv
    BY InitSInv
  <1>2. gw.lease = <<>> /\ phase = "up" /\ now = 0 /\ boot = 0
    BY DEF Init
  <1>3. granted = [e \in Eports |-> NoGrant]
    BY DEF Init
  <1>4. granted \in [Eports -> Grant]
    BY <1>3, NoneLives
  <1>5. \A e \in Plain : ~Live(granted[e])
    BY <1>3, NoneLives DEF Plain
  <1>6. Fresh(gw)
    BY <1>2 DEF Fresh, Has
  <1> QED  BY <1>1, <1>2, <1>4, <1>5, <1>6 DEF GInv

\* Chains that agree let in a mapping for any host.
LEMMA AgreeOpens ==
    ASSUME NEW s, Agree(s), Rhosts = {AnyHost}
    PROVE  \A i \in 1 .. Len(s.nat) : \E j \in 1 .. Len(s.filter) : LetIn(s.nat[i], s.filter[j])
  <1> SUFFICES ASSUME NEW i \in 1 .. Len(s.nat)
               PROVE  \E j \in 1 .. Len(s.filter) : LetIn(s.nat[i], s.filter[j])
    OBVIOUS
  <1>1. s \in Gate /\ Agreeing(s.nat, s.filter, s.post)
    BY DEF Agree, Whole, Good
  <1>2. s.nat \in Seq(NatRule) /\ s.filter \in Seq(FilterRule)
    BY <1>1, GateFields
  <1> DEFINE nat == s.nat
             filter == s.filter
  <1>3. Count(filter, nat[i].iaddr, nat[i].iport) = Count(nat, nat[i].iaddr, nat[i].iport)
    BY <1>1 DEF Agreeing
  <1>4. PICK j \in 1 .. Len(filter) : To(filter[j], nat[i].iaddr, nat[i].iport)
    BY <1>2, <1>3, Counted
  <1>5. filter[j].rhost = AnyHost
    <2>1. filter[j] \in FilterRule
      BY <1>2, <1>4
    <2> QED  BY <2>1 DEF FilterRule
  <1> QED  BY <1>4, <1>5 DEF LetIn, To

\* What is owed is there.
LEMMA GrantsShown ==
    ASSUME Simple, GInv
    PROVE  GrantKept
  <1> SUFFICES ASSUME phase = "up", NEW e \in Plain, Live(granted[e])
               PROVE  \E i \in 1 .. Len(gw.nat) :
                         /\ gw.nat[i].eport = e
                         /\ gw.nat[i].iaddr = granted[e].iaddr
                         /\ gw.nat[i].iport = granted[e].iport
                         /\ Open(gw.nat[i])
    BY DEF GrantKept, Plain, Live
  <1> DEFINE y == Promised(e, granted[e])
  <1>1. Kept(gw, e, y)
    BY DEF GInv, Owed
  <1>2. y.iaddr = granted[e].iaddr /\ y.iport = granted[e].iport
    BY DEF Promised
  <1> HIDE DEF y
  <1>3. PICK x \in Of(gw.nat, e) : x.iaddr = y.iaddr /\ x.iport = y.iport
    BY <1>1, KeptIs
  <1>4. PICK i \in 1 .. Len(gw.nat) : gw.nat[i] = x /\ gw.nat[i].eport = e
    BY <1>3, OfIs
  <1>5. Agree(gw)
    BY DEF GInv, SInv, Settled
  <1>6. Open(gw.nat[i])
    BY <1>4, <1>5, AgreeOpens DEF Open, Simple
  <1> QED  BY <1>2, <1>3, <1>4, <1>6

\* As long as no step fails and no mapping is for one remote host only, a client
\* that was told of success has its mapping, open, until it deletes it, the lease
\* ends or the clean-up of unused rules takes it: through later additions,
\* deletions of other ports and any number of stops, flushes, reboots and reloads
\* of the lease file.
THEOREM GrantsKept == Faults = "none" /\ Rhosts = {AnyHost} => (Spec => []GrantKept)
  <1> SUFFICES ASSUME Simple PROVE Spec => []GrantKept
    BY DEF Simple
  <1>1. Init => GInv
    BY InitGInv
  <1>2. GInv /\ [Next]_vars => GInv'
    BY NextGInv
  <1>3. GInv => GrantKept
    BY GrantsShown
  <1> QED  BY <1>1, <1>2, <1>3, PTL DEF Spec

\* A port of which more is granted than before is open.
Opened == \A e \in Eports :
              granted'[e] \notin {granted[e], NoGrant} =>
                  \E i \in 1 .. Len(gw'.nat) : gw'.nat[i].eport = e /\ Open(gw.nat[i])'

\* AddPortMapping answers success when the mapping is open.
LEMMA AddOpened ==
    ASSUME Sound, Rhosts = {AnyHost}, SInv, SInv', granted = [e \in Eports |-> granted[e]],
           NEW m \in NatRule, NEW duration \in Int, AddPortMapping(m, duration)
    PROVE  Opened
  <1>1. PICK fails \in FaultSets(RedirectSteps(gw, m)) :
            /\ Ends(UpnpRedirect(gw, m, duration, fails).s, fails)
            /\ granted' = IF UpnpRedirect(gw, m, duration, fails).r # 0 \/ Dies(fails) THEN granted
                          ELSE [granted EXCEPT ![m.eport] =
                                  [iaddr |-> m.iaddr, iport |-> m.iport, until |-> Until(duration)]]
    BY DEF AddPortMapping
  <1>2. Agree(gw) /\ now \in Int /\ boot \in Int /\ phase = "up"
    BY DEF AddPortMapping, SInv, RInv, Settled
  <1>3. fails = {} \/ Dies(fails)
    BY AllOrDies
  <1> SUFFICES ASSUME NEW e \in Eports, granted'[e] \notin {granted[e], NoGrant}
               PROVE  \E i \in 1 .. Len(gw'.nat) : gw'.nat[i].eport = e /\ Open(gw.nat[i])'
    BY DEF Opened
  <1> DEFINE out == UpnpRedirect(gw, m, duration, {})
  <1>4. out.r = 0 /\ ~Dies(fails) /\ fails = {} /\ e = m.eport
    <2>1. granted' # granted
      OBVIOUS
    <2>2. ~Dies(fails) /\ fails = {}
      BY <1>1, <1>3, <2>1
    <2>3. out.r = 0
      BY <1>1, <2>1, <2>2
    <2>4. ASSUME e # m.eport PROVE FALSE
      <3>1. granted' = [granted EXCEPT ![m.eport] =
                          [iaddr |-> m.iaddr, iport |-> m.iport, until |-> Until(duration)]]
        BY <1>1, <2>1
      <3>2. granted'[e] = granted[e]
        BY <2>4, <3>1
      <3> QED  BY <3>2
    <2> QED  BY <2>2, <2>3, <2>4
  <1>5. \/ out.r = -2
        \/ out.r = 0 /\ Mapped(out.s, gw, m, EndOf(duration))
    BY <1>2, RedirectMaps
  <1>6. gw' = out.s /\ phase' = "up"
    BY <1>1, <1>2, <1>4 DEF Ends
  <1>7. Mapped(gw', gw, m, EndOf(duration))
    BY <1>4, <1>5, <1>6
  <1>8. PICK x : Of(gw'.nat, m.eport) = {x}
    BY <1>7 DEF Mapped
  <1>9. PICK i \in 1 .. Len(gw'.nat) : gw'.nat[i] = x /\ gw'.nat[i].eport = m.eport
    BY <1>8, OfIs
  <1>10. Open(gw.nat[i])'
    <2>1. Agree(gw')
      BY <1>7 DEF Mapped
    <2>2. PICK j \in 1 .. Len(gw'.filter) : LetIn(gw'.nat[i], gw'.filter[j])
      BY <1>9, <2>1, AgreeOpens
    <2> QED  BY <2>2 DEF Open, LetIn
  <1> QED  BY <1>4, <1>9, <1>10

\* No other step grants a port.
LEMMA StepOpened ==
    ASSUME Sound, Rhosts = {AnyHost}, SInv, granted = [e \in Eports |-> granted[e]], [Next]_vars
    PROVE  Opened /\ granted' = [e \in Eports |-> granted'[e]]
  <1>1. SInv'
    BY NextSInv
  <1>2. granted' = granted => Opened /\ granted' = [e \in Eports |-> granted'[e]]
    BY DEF Opened
  <1>3. ASSUME NEW e \in Eports, NEW a \in Iaddrs, NEW p \in Iports, NEW h \in Rhosts,
               NEW d \in Leases,
               AddPortMapping([eport |-> e, iaddr |-> a, iport |-> p, rhost |-> h,
                               packets |-> 0], d)
        PROVE  Opened /\ granted' = [x \in Eports |-> granted'[x]]
    <2> DEFINE m == [eport |-> e, iaddr |-> a, iport |-> p, rhost |-> h, packets |-> 0]
    <2>1. m \in NatRule
      BY DEF NatRule
    <2>2. d \in Int
      BY LeasesAssumption
    <2>3. AddPortMapping(m, d)
      BY <1>3
    <2> HIDE DEF m
    <2>4. Opened
      BY <1>1, <2>1, <2>2, <2>3, AddOpened
    <2>5. \E g : granted' = granted \/ granted' = [granted EXCEPT ![m.eport] = g]
      BY <2>3 DEF AddPortMapping
    <2> QED  BY <2>4, <2>5
  <1>4. CASE \E e \in Eports : DeletePortMapping(e)
    BY <1>4 DEF DeletePortMapping, Opened
  <1>5. CASE \E from, to \in Eports : from <= to /\ DeletePortMappingRange(from, to)
    <2>1. PICK from, to \in Eports : DeletePortMappingRange(from, to)
      BY <1>5
    <2>2. granted' = [e \in Eports |-> IF e \in from .. to THEN NoGrant ELSE granted[e]]
      BY <2>1 DEF DeletePortMappingRange
    <2> QED  BY <2>2 DEF Opened
  <1>6. CASE \E victim \in [1 .. Len(gw.list) -> Eports] : RemoveUnusedRules(victim)
    <2>1. granted' = [e \in Eports |-> IF NatIndex(gw, e) # 0 /\ NatIndex(gw', e) = 0
                                       THEN NoGrant ELSE granted[e]]
      BY <1>6 DEF RemoveUnusedRules
    <2> QED  BY <2>1 DEF Opened
  <1>7. CASE CleanExpired \/ ListRules \/ (\E e \in Eports : Packet(e)) \/ Stop
             \/ (\E flushed, rebooted \in BOOLEAN : Start(flushed, rebooted))
             \/ ReloadLine \/ ReloadDone \/ Tick \/ UNCHANGED vars
    <2>1. granted' = granted
      BY <1>7 DEF CleanExpired, ListRules, Packet, Stop, Start, ReloadLine, ReloadDone, Tick, vars
    <2> QED  BY <1>2, <2>1
  <1> QED  BY <1>3, <1>4, <1>5, <1>6, <1>7 DEF Next, Requests, CleanUp, Reload

\* What upnpredirect.h says of upnp_redirect(), 0 on success: the mapping is there
\* and the filter lets it in, as long as no step fails on its own and no mapping is
\* for one remote host only.
THEOREM AddsOpen == Sound /\ Rhosts = {AnyHost} => (Spec => AddOpens)
  <1> SUFFICES ASSUME Sound, Rhosts = {AnyHost} PROVE Spec => AddOpens
    OBVIOUS
  <1> DEFINE OInv == SInv /\ granted = [e \in Eports |-> granted[e]]
  <1>1. Init => OInv
    BY InitSInv DEF Init
  <1>2. OInv /\ [Next]_vars => OInv'
    BY NextSInv, StepOpened
  <1>3. OInv /\ [Next]_vars => Opened
    BY StepOpened
  <1>4. Opened <=> \A e \in Eports :
            granted'[e] \notin {granted[e], NoGrant} =>
                \E i \in 1 .. Len(gw'.nat) : gw'.nat[i].eport = e /\ Open(gw.nat[i])'
    BY DEF Opened
  <1> QED  BY <1>1, <1>2, <1>3, <1>4, PTL DEF Spec, AddOpens

=============================================================================
