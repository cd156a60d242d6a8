--------------------------- MODULE PinholesProofs ---------------------------
(***************************************************************************)
(* Proofs about the pinholes, for any pinholes, control points and lease   *)
(* times and any number of pinholes that leaves a number free: the list    *)
(* and the chain of ip6tables, and then the clean-up of all back ends.     *)
(*                                                                         *)
(* The list and the chain are changed by searches of two kinds, by number  *)
(* and by what the pinhole lets in. They find the same pinhole only while  *)
(* neither is there twice, so the invariant says that no two entries have  *)
(* the same number or let in the same, and no two rules are equal.         *)
(*                                                                         *)
(* That no two entries have the same number is also why removing those of  *)
(* the ended leases by their numbers removes no other. The rules of pf and *)
(* nftables say themselves when their leases end; a list is compared there *)
(* by its members only, for equal rules end at the same time.              *)
(***************************************************************************)
EXTENDS Pinholes, CallsProofs

Entries == {Labelled(h, uid, ts) : h \in Holes, uid \in 1 .. UidTop, ts \in Int}

UidsDiffer(q) == \A i, j \in 1 .. Len(q) : q[i].uid = q[j].uid => i = j

HolesDiffer(q) == \A i, j \in 1 .. Len(q) : Hole(q[i]) = Hole(q[j]) => i = j

RulesDiffer(q) == \A i, j \in 1 .. Len(q) : q[i] = q[j] => i = j

InList(q, h) == \E i \in 1 .. Len(q) : Hole(q[i]) = h

InChain(q, h) == \E i \in 1 .. Len(q) : q[i] = h

\* The list and the chain have the same pinholes, each of them once
Paired(l, r, next) ==
    /\ l \in Seq(Entries) /\ r \in Seq(Holes) /\ next \in 1 .. UidTop
    /\ UidsDiffer(l) /\ HolesDiffer(l) /\ RulesDiffer(r)
    /\ \A h : InList(l, h) <=> InChain(r, h)

PhInv == now \in Int /\ (phKind = "ipt" => Paired(list, rules, next_uid))

\* An entry is a pinhole with a number.
LEMMA EntryFields ==
    /\ \A e \in Entries : Hole(e) \in Holes /\ e.uid \in 1 .. UidTop
    /\ \A h \in Holes, uid \in 1 .. UidTop, ts \in Int :
           /\ Labelled(h, uid, ts) \in Entries /\ Labelled(h, uid, ts).uid = uid
           /\ Hole(Labelled(h, uid, ts)) = h
  <1>1. ASSUME NEW h \in Holes, NEW uid \in 1 .. UidTop, NEW ts \in Int
        PROVE  /\ Labelled(h, uid, ts) \in Entries /\ Labelled(h, uid, ts).uid = uid
               /\ Hole(Labelled(h, uid, ts)) = h
    <2>1. Labelled(h, uid, ts) \in Entries
      BY DEF Entries
    <2>2. Labelled(h, uid, ts).uid = uid /\ Hole(Labelled(h, uid, ts)) = Hole(h)
      BY DEF Labelled, Hole
    <2>3. Hole(h) = h
      BY HolesAssumption
    <2> QED  BY <2>1, <2>2, <2>3
  <1>2. ASSUME NEW e \in Entries PROVE Hole(e) \in Holes /\ e.uid \in 1 .. UidTop
    <2>1. PICK h \in Holes, uid \in 1 .. UidTop, ts \in Int : e = Labelled(h, uid, ts)
      BY DEF Entries
    <2> QED  BY <1>1, <2>1
  <1> QED  BY <1>1, <1>2

-----------------------------------------------------------------------------
(***************************************************************************)
(* Lists.                                                                  *)
(***************************************************************************)
\* A search finds what there is.
LEMMA FoundFirst ==
    ASSUME NEW I, I \subseteq Nat \ {0}, NEW i, i = IF I # {} THEN Min(I) ELSE 0
    PROVE  (i = 0 <=> I = {}) /\ (i # 0 => i \in I)
  <1>1. CASE I = {}
    BY <1>1
  <1>2. CASE I # {}
    <2>1. \E m \in I : \A k \in I : m <= k
      BY <1>2, LeastNatural
    <2>2. Min(I) \in I
      BY <2>1 DEF Min
    <2> QED  BY <1>2, <2>2
  <1> QED  BY <1>1, <1>2

\* By the number,
LEMMA ByUidFinds ==
    ASSUME NEW T, NEW q \in Seq(T), NEW uid
    PROVE  /\ ByUid(q, uid) = 0 => \A i \in 1 .. Len(q) : q[i].uid # uid
           /\ ByUid(q, uid) # 0 => ByUid(q, uid) \in 1 .. Len(q) /\ q[ByUid(q, uid)].uid = uid
  <1> DEFINE I == {i \in 1 .. Len(q) : q[i].uid = uid}
  <1>1. ByUid(q, uid) = IF I # {} THEN Min(I) ELSE 0
    BY DEF ByUid, SelectInSeq
  <1>2. I \subseteq Nat \ {0}
    OBVIOUS
  <1>3. (ByUid(q, uid) = 0 <=> I = {}) /\ (ByUid(q, uid) # 0 => ByUid(q, uid) \in I)
    <2> HIDE DEF I
    <2> QED  BY <1>1, <1>2, FoundFirst
  <1> QED  BY <1>3

\* by what is let in,
LEMMA ByHoleFinds ==
    ASSUME NEW T, NEW q \in Seq(T), NEW h
    PROVE  /\ ByHole(q, h) = 0 => ~InList(q, h)
           /\ ByHole(q, h) # 0 => ByHole(q, h) \in 1 .. Len(q) /\ Hole(q[ByHole(q, h)]) = h
  <1> DEFINE I == {i \in 1 .. Len(q) : Hole(q[i]) = h}
  <1>1. ByHole(q, h) = IF I # {} THEN Min(I) ELSE 0
    BY DEF ByHole, SelectInSeq
  <1>2. I \subseteq Nat \ {0}
    OBVIOUS
  <1>3. (ByHole(q, h) = 0 <=> I = {}) /\ (ByHole(q, h) # 0 => ByHole(q, h) \in I)
    <2> HIDE DEF I
    <2> QED  BY <1>1, <1>2, FoundFirst
  <1> QED  BY <1>3 DEF InList

\* and in the chain.
LEMMA RuleFinds ==
    ASSUME NEW T, NEW q \in Seq(T), NEW h
    PROVE  LET j == SelectInSeq(q, LAMBDA e : e = h) IN
           /\ j = 0 => ~InChain(q, h)
           /\ j # 0 => j \in 1 .. Len(q) /\ q[j] = h
  <1> DEFINE I == {i \in 1 .. Len(q) : q[i] = h}
             j == SelectInSeq(q, LAMBDA e : e = h)
  <1>1. j = IF I # {} THEN Min(I) ELSE 0
    BY DEF SelectInSeq
  <1>2. I \subseteq Nat \ {0}
    OBVIOUS
  <1>3. (j = 0 <=> I = {}) /\ (j # 0 => j \in I)
    <2> HIDE DEF I, j
    <2> QED  BY <1>1, <1>2, FoundFirst
  <1> QED  BY <1>3 DEF InChain

\* A thinner list has nothing twice either.
LEMMA ThinnedDiffer ==
    ASSUME NEW r, NEW q, NEW f, NEW Gone, Thinned(r, q, f, Gone)
    PROVE  /\ UidsDiffer(q) => UidsDiffer(r)
           /\ HolesDiffer(q) => HolesDiffer(r)
           /\ RulesDiffer(q) => RulesDiffer(r)
           /\ \A h : InList(r, h) <=> \E i \in 1 .. Len(q) : i \notin Gone /\ Hole(q[i]) = h
           /\ \A h : InChain(r, h) <=> \E i \in 1 .. Len(q) : i \notin Gone /\ q[i] = h
  <1>1. \A i \in 1 .. Len(r) : f[i] \in 1 .. Len(q) /\ r[i] = q[f[i]] /\ f[i] \notin Gone
    BY DEF Thinned
  <1>2. \A i, j \in 1 .. Len(r) : f[i] = f[j] => i = j
    BY DEF Thinned
  <1>3. \A m \in 1 .. Len(q) : m \notin Gone => \E i \in 1 .. Len(r) : f[i] = m
    BY DEF Thinned
  <1>4. UidsDiffer(q) => UidsDiffer(r)
    BY <1>1, <1>2 DEF UidsDiffer
  <1>5. HolesDiffer(q) => HolesDiffer(r)
    BY <1>1, <1>2 DEF HolesDiffer
  <1>6. RulesDiffer(q) => RulesDiffer(r)
    BY <1>1, <1>2 DEF RulesDiffer
  <1>7. ASSUME NEW h PROVE InList(r, h) <=> \E i \in 1 .. Len(q) : i \notin Gone /\ Hole(q[i]) = h
    BY <1>1, <1>3 DEF InList
  <1>8. ASSUME NEW h PROVE InChain(r, h) <=> \E i \in 1 .. Len(q) : i \notin Gone /\ q[i] = h
    BY <1>1, <1>3 DEF InChain
  <1> QED  BY <1>4, <1>5, <1>6, <1>7, <1>8

\* The list and the chain are equally long.
LEMMA SameLength ==
    ASSUME NEW l, NEW r, NEW next, Paired(l, r, next)
    PROVE  Len(l) = Len(r) /\ Len(l) \in Nat
  <1> DEFINE L == 1 .. Len(l)
             R == 1 .. Len(r)
  <1>1. Len(l) \in Nat /\ Len(r) \in Nat
    BY DEF Paired
  <1>2. /\ IsFiniteSet(L) /\ Cardinality(L) = Len(l)
        /\ IsFiniteSet(R) /\ Cardinality(R) = Len(r)
    BY <1>1, PlacesCounted
  <1>3. \A i \in L : \E j \in R : r[j] = Hole(l[i])
    BY DEF Paired, InList, InChain
  <1>4. \A j \in R : \E i \in L : r[j] = Hole(l[i])
    BY DEF Paired, InList, InChain
  <1>5. \A i, j \in L : Hole(l[i]) = Hole(l[j]) => i = j
    BY DEF Paired, HolesDiffer
  <1>6. \A i, j \in R : r[i] = r[j] => i = j
    BY DEF Paired, RulesDiffer
  <1> HIDE DEF L, R
  <1> DEFINE f == [i \in L |-> CHOOSE j \in R : r[j] = Hole(l[i])]
             g == [j \in R |-> CHOOSE i \in L : r[j] = Hole(l[i])]
  <1>7. f \in Injection(L, R)
    <2>1. \A i \in L : f[i] \in R /\ r[f[i]] = Hole(l[i])
      BY <1>3
    <2>2. f = [i \in L |-> f[i]]
      OBVIOUS
    <2> HIDE DEF f
    <2>3. f \in [L -> R] /\ \A i, j \in L : f[i] = f[j] => i = j
      BY <1>5, <2>1, <2>2
    <2> QED  BY <2>3 DEF Injection, IsInjective
  <1>8. g \in Injection(R, L)
    <2>1. \A j \in R : g[j] \in L /\ r[j] = Hole(l[g[j]])
      BY <1>4
    <2>2. g = [j \in R |-> g[j]]
      OBVIOUS
    <2> HIDE DEF g
    <2>3. g \in [R -> L] /\ \A i, j \in R : g[i] = g[j] => i = j
      BY <1>6, <2>1, <2>2
    <2> QED  BY <2>3 DEF Injection, IsInjective
  <1> HIDE DEF f, g
  <1>9. Cardinality(L) <= Cardinality(R) /\ Cardinality(R) <= Cardinality(L)
    BY <1>2, <1>7, <1>8, FS_Injection
  <1> QED  BY <1>1, <1>2, <1>9

-----------------------------------------------------------------------------
(***************************************************************************)
(* The operations of iptpinhole.c.                                         *)
(***************************************************************************)
\* Turning on from a number, as often as there are pinholes, goes through so many
\* different numbers.
LEMMA TurnsDiffer ==
    ASSUME NEW next \in 1 .. UidTop, NEW n \in Nat, n < UidTop, NEW turn,
           turn = CHOOSE f : f = [i \in 0 .. n |-> IF i = 0 THEN next ELSE NextUid(f[i - 1])]
    PROVE  /\ \A i \in 0 .. n : turn[i] \in 1 .. UidTop
           /\ \A i, j \in 0 .. n : turn[i] = turn[j] => i = j
  <1> DEFINE Fits(f) == f = [i \in 0 .. n |-> IF i = 0 THEN next ELSE NextUid(f[i - 1])]
             c == [i \in 0 .. n |-> IF next + i <= UidTop THEN next + i ELSE (next + i) - UidTop]
  <1>1. UidTop \in Nat /\ UidTop >= 1 /\ next \in Int /\ 1 <= next /\ next <= UidTop
    BY PinholesAssumption
  <1>2. Fits(c)
    <2>1. ASSUME NEW i \in 0 .. n PROVE c[i] = IF i = 0 THEN next ELSE NextUid(c[i - 1])
      <3>1. CASE i = 0
        BY <1>1, <3>1
      <3>2. CASE i # 0
        <4>1. i - 1 \in 0 .. n /\ i \in Int
          BY <3>2
        <4> QED  BY <1>1, <3>2, <4>1 DEF NextUid
      <3> QED  BY <3>1, <3>2
    <2>2. c = [i \in 0 .. n |-> c[i]]
      OBVIOUS
    <2> HIDE DEF c
    <2> QED  BY <2>1, <2>2
  <1>3. Fits(turn)
    BY <1>2
  <1>4. \A i \in 0 .. n : turn[i] = IF i = 0 THEN next ELSE NextUid(turn[i - 1])
    BY <1>3
  <1>5. \A i \in 0 .. n : c[i] = IF i = 0 THEN next ELSE NextUid(c[i - 1])
    <2> HIDE DEF c
    <2> QED  BY <1>2
  <1> DEFINE S == {i \in Nat : i <= n => turn[i] = c[i]}
  <1>6. 0 \in S
    <2>1. 0 \in 0 .. n
      OBVIOUS
    <2> HIDE DEF c
    <2> QED  BY <1>4, <1>5, <2>1
  <1>7. ASSUME NEW i \in Nat, i \in S PROVE i + 1 \in S
    <2> SUFFICES ASSUME i + 1 <= n PROVE turn[i + 1] = c[i + 1]
      BY <1>7
    <2>1. PICK k \in 0 .. n : k = i + 1
      OBVIOUS
    <2>2. k # 0 /\ k - 1 = i /\ i <= n
      BY <2>1
    <2> HIDE DEF c
    <2>3. turn[k - 1] = c[k - 1]
      BY <1>7, <2>2
    <2> QED  BY <1>4, <1>5, <2>1, <2>2, <2>3
  <1> HIDE DEF S
  <1>8. \A i \in 0 .. n : turn[i] = c[i]
    <2>1. Nat \subseteq S
      BY <1>6, <1>7, AllNaturals
    <2> HIDE DEF c
    <2> QED  BY <2>1 DEF S
  <1>9. \A i \in 0 .. n : c[i] \in 1 .. UidTop
    BY <1>1
  <1>10. \A i, j \in 0 .. n : c[i] = c[j] => i = j
    BY <1>1
  <1> HIDE DEF c
  <1> QED  BY <1>8, <1>9, <1>10

\* A new number is one that no pinhole has, while there are fewer than numbers.
LEMMA FreeUid ==
    ASSUME NEW s, s.list \in Seq(Entries), s.next \in 1 .. UidTop, Len(s.list) < UidTop
    PROVE  /\ IptUid(s) \in 1 .. UidTop
           /\ \A i \in 1 .. Len(s.list) : s.list[i].uid # IptUid(s)
  <1> DEFINE q == s.list
             n == Len(q)
             turn == CHOOSE f : f = [i \in 0 .. n |-> IF i = 0 THEN s.next ELSE NextUid(f[i - 1])]
             Free == {i \in 0 .. n : ByUid(q, turn[i]) = 0}
  <1>1. n \in Nat
    OBVIOUS
  <1>2. IptUid(s) = turn[Min(Free)]
    BY DEF IptUid
  <1>3. /\ \A i \in 0 .. n : turn[i] \in 1 .. UidTop
        /\ \A i, j \in 0 .. n : turn[i] = turn[j] => i = j
    BY <1>1, TurnsDiffer
  <1> HIDE DEF turn, n, q
  <1>4. ASSUME Free = {} PROVE FALSE
    <2> DEFINE f == [i \in 0 .. n |-> ByUid(q, turn[i])]
    <2>1. \A i \in 0 .. n : f[i] \in 1 .. n /\ q[f[i]].uid = turn[i]
      <3>1. \A uid : ByUid(q, uid) # 0 => ByUid(q, uid) \in 1 .. n /\ q[ByUid(q, uid)].uid = uid
        BY ByUidFinds DEF n, q
      <3> QED  BY <1>4, <3>1
    <2>2. f = [i \in 0 .. n |-> f[i]]
      OBVIOUS
    <2> HIDE DEF f
    <2>3. f \in [0 .. n -> 1 .. n]
      BY <2>1, <2>2
    <2>4. IsFiniteSet(1 .. n) /\ Cardinality(1 .. n) = n
      BY <1>1, PlacesCounted
    <2>5. IsFiniteSet(0 .. n) /\ Cardinality(0 .. n) = n + 1
      <3>1. IsFiniteSet(0 .. n) /\ Cardinality(0 .. n) = IF 0 > n THEN 0 ELSE n - 0 + 1
        BY <1>1, FS_Interval
      <3> QED  BY <1>1, <3>1
    <2>6. Cardinality(1 .. n) < Cardinality(0 .. n)
      BY <1>1, <2>4, <2>5
    <2>7. PICK x \in 0 .. n, y \in 0 .. n : x # y /\ f[x] = f[y]
      BY <2>3, <2>4, <2>5, <2>6, FS_PigeonHole
    <2>8. turn[x] = turn[y]
      BY <2>1, <2>7
    <2> QED  BY <1>3, <2>7, <2>8
  <1>5. Min(Free) \in Free
    <2>1. Free \subseteq Nat
      OBVIOUS
    <2> HIDE DEF Free
    <2>2. \E m \in Free : \A k \in Free : m <= k
      BY <1>4, <2>1, LeastNatural
    <2> QED  BY <2>2 DEF Min
  <1>6. PICK i \in 0 .. n : IptUid(s) = turn[i] /\ ByUid(q, turn[i]) = 0
    BY <1>2, <1>5
  <1>7. \A j \in 1 .. n : q[j].uid # turn[i]
    BY <1>6, ByUidFinds DEF n, q
  <1> QED  BY <1>3, <1>6, <1>7 DEF n, q

\* add_pinhole() for a pinhole that is not there.
LEMMA IptAddPaired ==
    ASSUME NEW s, Paired(s.list, s.rules, s.next), Len(s.list) < UidTop, NEW h \in Holes,
           ~InList(s.list, h), NEW ts \in Int, NEW fails, NEW out, out = IptAdd(s, h, ts, fails).s
    PROVE  Paired(out.list, out.rules, out.next)
  <1> DEFINE uid == IptUid(s)
             x == Labelled(h, uid, ts)
             l == <<x>> \o s.list
             r == Append(s.rules, h)
             n == Len(s.list)
             m == Len(s.rules)
  <1>1. /\ s.list \in Seq(Entries) /\ s.rules \in Seq(Holes) /\ s.next \in 1 .. UidTop
        /\ UidsDiffer(s.list) /\ HolesDiffer(s.list) /\ RulesDiffer(s.rules)
        /\ \A k : InList(s.list, k) <=> InChain(s.rules, k)
    BY DEF Paired
  <1>2. uid \in 1 .. UidTop /\ \A i \in 1 .. n : s.list[i].uid # uid
    BY <1>1, FreeUid
  <1>3. out = IF "add" \in fails THEN s
              ELSE [rules |-> r, list |-> l, next |-> NextUid(uid)]
    <2>1. IptAdd(s, h, ts, fails) =
            IF "add" \in fails THEN Out(s, -1)
            ELSE On(uid, LAMBDA u : Out([rules |-> Append(s.rules, h),
                                         list  |-> <<Labelled(h, u, ts)>> \o s.list,
                                         next  |-> NextUid(u)], u))
      BY DEF IptAdd
    <2> HIDE DEF uid
    <2>2. On(uid, LAMBDA u : Out([rules |-> Append(s.rules, h),
                                  list  |-> <<Labelled(h, u, ts)>> \o s.list,
                                  next  |-> NextUid(u)], u))
            = Out([rules |-> r, list |-> l, next |-> NextUid(uid)], uid)
      BY DEF On
    <2>3. \A a, b : Out(a, b).s = a
      BY DEF Out
    <2> HIDE DEF l, r
    <2>4. IptAdd(s, h, ts, fails) =
            IF "add" \in fails THEN Out(s, -1)
            ELSE Out([rules |-> r, list |-> l, next |-> NextUid(uid)], uid)
      BY <2>1, <2>2
    <2> QED  BY <2>3, <2>4
  <1> HIDE DEF uid
  <1>4. x \in Entries /\ x.uid = uid /\ Hole(x) = h
    BY <1>2, EntryFields
  <1> HIDE DEF x
  <1>5. n \in Nat /\ m \in Nat
    BY <1>1
  <1>6. /\ l \in Seq(Entries) /\ Len(l) = n + 1
        /\ \A i \in 1 .. n + 1 : l[i] = IF i = 1 THEN x ELSE s.list[i - 1]
    <2>1. <<x>> \in Seq(Entries) /\ Len(<<x>>) = 1 /\ <<x>>[1] = x
      BY <1>4
    <2>2. l \in Seq(Entries) /\ Len(l) = Len(<<x>>) + n
      BY <1>1, <2>1, ConcatProperties
    <2>3. ASSUME NEW i \in 1 .. n + 1 PROVE l[i] = IF i = 1 THEN x ELSE s.list[i - 1]
      BY <1>1, <1>5, <2>1
    <2> QED  BY <1>5, <2>1, <2>2, <2>3
  <1>7. /\ r \in Seq(Holes) /\ Len(r) = m + 1
        /\ \A i \in 1 .. m + 1 : r[i] = IF i = m + 1 THEN h ELSE s.rules[i]
    BY <1>1
  <1> HIDE DEF l, r, n, m
  <1>8. \A i \in 1 .. n + 1 : i # 1 => i - 1 \in 1 .. n
    BY <1>5
  <1>9. \A i \in 1 .. m + 1 : i # m + 1 => i \in 1 .. m
    BY <1>5
  <1>10. \A i \in 1 .. n : Hole(s.list[i]) # h
    BY DEF InList, n
  <1>11. \A i \in 1 .. m : s.rules[i] # h
    BY <1>1 DEF InChain, m
  <1>12. UidsDiffer(l)
    <2>1. \A i, j \in 1 .. n : s.list[i].uid = s.list[j].uid => i = j
      BY <1>1 DEF UidsDiffer, n
    <2>2. ASSUME NEW i \in 1 .. n + 1, NEW j \in 1 .. n + 1, l[i].uid = l[j].uid PROVE i = j
      <3>1. CASE i = 1
        BY <1>2, <1>4, <1>6, <1>8, <2>2, <3>1
      <3>2. CASE j = 1
        BY <1>2, <1>4, <1>6, <1>8, <2>2, <3>2
      <3>3. CASE i # 1 /\ j # 1
        <4>1. i - 1 = j - 1
          BY <1>6, <1>8, <2>1, <2>2, <3>3
        <4> QED  BY <1>5, <4>1
      <3> QED  BY <3>1, <3>2, <3>3
    <2> QED  BY <1>6, <2>2 DEF UidsDiffer
  <1>13. HolesDiffer(l)
    <2>1. \A i, j \in 1 .. n : Hole(s.list[i]) = Hole(s.list[j]) => i = j
      BY <1>1 DEF HolesDiffer, n
    <2>2. ASSUME NEW i \in 1 .. n + 1, NEW j \in 1 .. n + 1, Hole(l[i]) = Hole(l[j]) PROVE i = j
      <3>1. CASE i = 1
        BY <1>4, <1>6, <1>8, <1>10, <2>2, <3>1
      <3>2. CASE j = 1
        BY <1>4, <1>6, <1>8, <1>10, <2>2, <3>2
      <3>3. CASE i # 1 /\ j # 1
        <4>1. l[i] = s.list[i - 1] /\ l[j] = s.list[j - 1]
          BY <1>6, <3>3
        <4>2. i - 1 \in 1 .. n /\ j - 1 \in 1 .. n
          BY <1>8, <3>3
        <4>3. i - 1 = j - 1
          BY <2>1, <2>2, <4>1, <4>2
        <4> QED  BY <1>5, <4>3
      <3> QED  BY <3>1, <3>2, <3>3
    <2> QED  BY <1>6, <2>2 DEF HolesDiffer
  <1>14. RulesDiffer(r)
    <2>1. \A i, j \in 1 .. m : s.rules[i] = s.rules[j] => i = j
      BY <1>1 DEF RulesDiffer, m
    <2> QED  BY <1>7, <1>9, <1>11, <2>1 DEF RulesDiffer
  <1>15. ASSUME NEW k PROVE InList(l, k) <=> InList(s.list, k) \/ k = h
    <2>1. ASSUME InList(l, k) PROVE InList(s.list, k) \/ k = h
      <3>1. PICK i \in 1 .. n + 1 : Hole(l[i]) = k
        BY <1>6, <2>1 DEF InList
      <3>2. CASE i = 1
        BY <1>4, <1>6, <3>1, <3>2
      <3>3. CASE i # 1
        BY <1>6, <1>8, <3>1, <3>3 DEF InList, n
      <3> QED  BY <3>2, <3>3
    <2>2. ASSUME InList(s.list, k) PROVE InList(l, k)
      <3>1. PICK i \in 1 .. n : Hole(s.list[i]) = k
        BY <2>2 DEF InList, n
      <3>2. i + 1 \in 1 .. n + 1 /\ i + 1 # 1 /\ (i + 1) - 1 = i
        BY <1>5
      <3>3. Hole(l[i + 1]) = k
        BY <1>6, <3>1, <3>2
      <3> QED  BY <1>6, <3>2, <3>3 DEF InList
    <2>3. ASSUME k = h PROVE InList(l, k)
      <3>1. 1 \in 1 .. n + 1
        BY <1>5
      <3> QED  BY <1>4, <1>6, <2>3, <3>1 DEF InList
    <2> QED  BY <2>1, <2>2, <2>3
  <1>16. ASSUME NEW k PROVE InChain(r, k) <=> InChain(s.rules, k) \/ k = h
    <2>1. ASSUME InChain(r, k) PROVE InChain(s.rules, k) \/ k = h
      BY <1>7, <1>9, <2>1 DEF InChain, m
    <2>2. ASSUME InChain(s.rules, k) PROVE InChain(r, k)
      <3>1. PICK i \in 1 .. m : s.rules[i] = k
        BY <2>2 DEF InChain, m
      <3>2. i \in 1 .. m + 1 /\ i # m + 1
        BY <1>5
      <3> QED  BY <1>7, <3>1, <3>2 DEF InChain
    <2>3. ASSUME k = h PROVE InChain(r, k)
      <3>1. m + 1 \in 1 .. m + 1
        BY <1>5
      <3> QED  BY <1>7, <2>3, <3>1 DEF InChain
    <2> QED  BY <2>1, <2>2, <2>3
  <1>17. NextUid(uid) \in 1 .. UidTop
    BY <1>2, PinholesAssumption DEF NextUid
  <1>18. Paired(l, r, NextUid(uid))
    BY <1>1, <1>6, <1>7, <1>12, <1>13, <1>14, <1>15, <1>16, <1>17 DEF Paired
  <1> QED  BY <1>3, <1>18

\* What the operators work on is a record
Formed(s) == s = [rules |-> s.rules, list |-> s.list, next |-> s.next]

\* update_pinhole() changes the end of a lease.
LEMMA IptUpdatePaired ==
    ASSUME NEW s, Formed(s), Paired(s.list, s.rules, s.next), NEW uid, NEW ts \in Int,
           NEW out, out = IptUpdate(s, uid, ts).s
    PROVE  Paired(out.list, out.rules, out.next)
  <1> DEFINE i == ByUid(s.list, uid)
             x == [s.list[i] EXCEPT !.ts = ts]
             l == [s.list EXCEPT ![i] = x]
  <1>1. /\ s.list \in Seq(Entries) /\ UidsDiffer(s.list) /\ HolesDiffer(s.list)
        /\ \A h : InList(s.list, h) <=> InChain(s.rules, h)
    BY DEF Paired
  <1>2. i = 0 \/ i \in 1 .. Len(s.list)
    BY <1>1, ByUidFinds
  <1>3. out = IF i = 0 THEN s ELSE [s EXCEPT !.list = l]
    BY DEF IptUpdate, Out
  <1> HIDE DEF i
  <1>4. CASE i = 0
    BY <1>3, <1>4
  <1>5. CASE i \in 1 .. Len(s.list)
    <2>1. x \in Entries /\ x.uid = s.list[i].uid /\ Hole(x) = Hole(s.list[i])
      <3>1. s.list[i] \in Entries
        BY <1>1, <1>5
      <3>2. PICK h \in Holes, u \in 1 .. UidTop, t \in Int : s.list[i] = Labelled(h, u, t)
        BY <3>1 DEF Entries
      <3>3. x = Labelled(h, u, ts)
        BY <3>2 DEF Labelled
      <3> HIDE DEF x
      <3> QED  BY <3>2, <3>3, EntryFields
    <2> HIDE DEF x
    <2>2. /\ l \in Seq(Entries) /\ Len(l) = Len(s.list)
          /\ \A j \in 1 .. Len(s.list) : l[j].uid = s.list[j].uid /\ Hole(l[j]) = Hole(s.list[j])
      BY <1>1, <1>5, <2>1
    <2> HIDE DEF l
    <2>3. UidsDiffer(l) /\ HolesDiffer(l)
      BY <1>1, <2>2 DEF UidsDiffer, HolesDiffer
    <2>4. \A h : InList(l, h) <=> InList(s.list, h)
      BY <2>2 DEF InList
    <2>5. Paired(l, s.rules, s.next)
      BY <1>1, <2>2, <2>3, <2>4 DEF Paired
    <2>6. i # 0
      BY <1>5
    <2>7. out.list = l /\ out.rules = s.rules /\ out.next = s.next
      BY <1>3, <2>6 DEF Formed
    <2> QED  BY <2>5, <2>7
  <1> QED  BY <1>2, <1>4, <1>5

\* The list and the chain lose the same pinholes.
LEMMA BothThinned ==
    ASSUME NEW l, NEW r, NEW next, Paired(l, r, next), NEW Gone, NEW Cut,
           NEW a \in Seq(Entries), NEW f, Thinned(a, l, f, Gone),
           NEW b \in Seq(Holes), NEW g, Thinned(b, r, g, Cut),
           \A i \in 1 .. Len(l), j \in 1 .. Len(r) : Hole(l[i]) = r[j] => (i \in Gone <=> j \in Cut)
    PROVE  Paired(a, b, next)
  <1>1. /\ UidsDiffer(l) /\ HolesDiffer(l) /\ RulesDiffer(r) /\ next \in 1 .. UidTop
        /\ \A h : InList(l, h) <=> InChain(r, h)
    BY DEF Paired
  <1>2. /\ UidsDiffer(a) /\ HolesDiffer(a)
        /\ \A h : InList(a, h) <=> \E i \in 1 .. Len(l) : i \notin Gone /\ Hole(l[i]) = h
    BY <1>1, ThinnedDiffer
  <1>3. /\ RulesDiffer(b)
        /\ \A h : InChain(b, h) <=> \E j \in 1 .. Len(r) : j \notin Cut /\ r[j] = h
    BY <1>1, ThinnedDiffer
  <1>4. ASSUME NEW h, InList(a, h) PROVE InChain(b, h)
    <2>1. PICK i \in 1 .. Len(l) : i \notin Gone /\ Hole(l[i]) = h
      BY <1>2, <1>4
    <2>2. InList(l, h)
      BY <2>1 DEF InList
    <2>3. PICK j \in 1 .. Len(r) : r[j] = h
      BY <1>1, <2>2 DEF InChain
    <2>4. j \notin Cut
      BY <2>1, <2>3
    <2> QED  BY <1>3, <2>3, <2>4
  <1>5. ASSUME NEW h, InChain(b, h) PROVE InList(a, h)
    <2>1. PICK j \in 1 .. Len(r) : j \notin Cut /\ r[j] = h
      BY <1>3, <1>5
    <2>2. InChain(r, h)
      BY <2>1 DEF InChain
    <2>3. PICK i \in 1 .. Len(l) : Hole(l[i]) = h
      BY <1>1, <2>2 DEF InList
    <2>4. i \notin Gone
      BY <2>1, <2>3
    <2> QED  BY <1>2, <2>3, <2>4
  <1> QED  BY <1>1, <1>2, <1>3, <1>4, <1>5 DEF Paired

\* delete_pinhole() takes the pinhole out of both, or out of neither.
LEMMA IptDeletePaired ==
    ASSUME NEW s, Formed(s), Paired(s.list, s.rules, s.next), NEW uid, NEW fails,
           NEW out, out = IptDelete(s, uid, fails).s
    PROVE  Paired(out.list, out.rules, out.next)
  <1> DEFINE i == ByUid(s.list, uid)
             j == SelectInSeq(s.rules, LAMBDA e : e = Hole(s.list[i]))
             a == Drop(s.list, i)
             b == Drop(s.rules, j)
  <1>1. /\ s.list \in Seq(Entries) /\ s.rules \in Seq(Holes)
        /\ HolesDiffer(s.list) /\ RulesDiffer(s.rules)
        /\ \A h : InList(s.list, h) <=> InChain(s.rules, h)
    BY DEF Paired
  <1>2. i = 0 \/ i \in 1 .. Len(s.list)
    BY <1>1, ByUidFinds
  <1>3. (j = 0 => ~InChain(s.rules, Hole(s.list[i])))
        /\ (j # 0 => j \in 1 .. Len(s.rules) /\ s.rules[j] = Hole(s.list[i]))
    BY <1>1, RuleFinds
  <1>4. out = IF i = 0 \/ "del" \in fails THEN s ELSE [s EXCEPT !.list = a, !.rules = b]
    BY DEF IptDelete, Out
  <1> HIDE DEF i, j
  <1>5. CASE i = 0 \/ "del" \in fails
    BY <1>4, <1>5
  <1>6. CASE i # 0 /\ "del" \notin fails
    <2>1. i \in 1 .. Len(s.list)
      BY <1>2, <1>6
    <2>2. j \in 1 .. Len(s.rules) /\ s.rules[j] = Hole(s.list[i])
      <3>1. InList(s.list, Hole(s.list[i]))
        BY <2>1 DEF InList
      <3> QED  BY <1>1, <1>3, <3>1
    <2>3. a \in Seq(Entries) /\ \E f : Thinned(a, s.list, f, {i})
      <3>1. a = RemoveAt(s.list, i)
        BY <1>6 DEF Drop
      <3> QED  BY <1>1, <2>1, <3>1, CutThinned
    <2>4. b \in Seq(Holes) /\ \E f : Thinned(b, s.rules, f, {j})
      <3>1. b = RemoveAt(s.rules, j)
        BY <2>2 DEF Drop
      <3> QED  BY <1>1, <2>2, <3>1, CutThinned
    <2> HIDE DEF a, b
    <2>5. \A k \in 1 .. Len(s.list), m \in 1 .. Len(s.rules) :
              Hole(s.list[k]) = s.rules[m] => (k \in {i} <=> m \in {j})
      BY <1>1, <2>1, <2>2 DEF HolesDiffer, RulesDiffer
    <2>6. Paired(a, b, s.next)
      BY <2>3, <2>4, <2>5, BothThinned
    <2>7. out.list = a /\ out.rules = b /\ out.next = s.next
      BY <1>4, <1>6 DEF Formed
    <2> QED  BY <2>6, <2>7
  <1> QED  BY <1>5, <1>6

\* clean_pinhole_list() takes the same pinholes out of both, wherever it stops.
LEMMA IptCleanPaired ==
    ASSUME NEW s, Formed(s), Paired(s.list, s.rules, s.next), NEW n,
           NEW out, out = IptClean(s, n).s
    PROVE  Paired(out.list, out.rules, out.next)
  <1>1. /\ s.list \in Seq(Entries) /\ s.rules \in Seq(Holes)
        /\ HolesDiffer(s.list) /\ RulesDiffer(s.rules)
    BY DEF Paired
  <1> DEFINE expired == Those(s.list, LAMBDA e : e.ts <= now)
             stop == n \in 1 .. Len(expired)
             gone == {e.uid : e \in Range(IF stop THEN SubSeq(expired, 1, n - 1) ELSE expired)}
             holes == {Hole(s.list[i]) : i \in {j \in 1 .. Len(s.list) : s.list[j].uid \in gone}}
  <1>2. /\ holes = {Hole(s.list[i]) : i \in {j \in 1 .. Len(s.list) : s.list[j].uid \in gone}}
        /\ out = [s EXCEPT !.list = Those(s.list, LAMBDA e : e.uid \notin gone),
                           !.rules = Those(s.rules, LAMBDA e : e \notin holes)]
    BY DEF IptClean
  <1> HIDE DEF gone, holes
  <1> DEFINE L == [i \in DOMAIN s.list |-> IF s.list[i].uid \notin gone THEN <<s.list[i]>> ELSE <<>>]
             R == [i \in DOMAIN s.rules |-> IF s.rules[i] \notin holes THEN <<s.rules[i]>> ELSE <<>>]
             a == FlattenSeq(L)
             b == FlattenSeq(R)
             Gone == {i \in 1 .. Len(s.list) : s.list[i].uid \in gone}
             Cut == {i \in 1 .. Len(s.rules) : s.rules[i] \in holes}
  <1>3. out.list = a /\ out.rules = b /\ out.next = s.next
    BY <1>2 DEF Those, Formed
  <1>4. Picks(L, s.list) /\ \A i \in 1 .. Len(s.list) : L[i] = <<>> <=> i \in Gone
    <2>1. DOMAIN s.list = 1 .. Len(s.list)
      BY <1>1
    <2>2. \A x : <<x>> # <<>>
      OBVIOUS
    <2> QED  BY <2>1, <2>2 DEF Picks
  <1>5. Picks(R, s.rules) /\ \A i \in 1 .. Len(s.rules) : R[i] = <<>> <=> i \in Cut
    <2>1. DOMAIN s.rules = 1 .. Len(s.rules)
      BY <1>1
    <2>2. \A x : <<x>> # <<>>
      OBVIOUS
    <2> QED  BY <2>1, <2>2 DEF Picks
  <1>6. ASSUME NEW i \in 1 .. Len(s.list), NEW j \in 1 .. Len(s.rules), Hole(s.list[i]) = s.rules[j]
        PROVE  i \in Gone <=> j \in Cut
    <2>1. ASSUME i \in Gone PROVE j \in Cut
      BY <1>2, <1>6, <2>1
    <2>2. ASSUME j \in Cut PROVE i \in Gone
      <3>1. PICK k \in Gone : s.rules[j] = Hole(s.list[k])
        BY <1>2, <2>2
      <3>2. k = i
        BY <1>1, <1>6, <3>1 DEF HolesDiffer
      <3> QED  BY <3>1, <3>2
    <2> QED  BY <2>1, <2>2
  <1> HIDE DEF L, R, Gone, Cut
  <1>7. a \in Seq(Entries) /\ \E f : Thinned(a, s.list, f, Gone)
    BY <1>1, <1>4, PicksThinned
  <1>8. b \in Seq(Holes) /\ \E f : Thinned(b, s.rules, f, Cut)
    BY <1>1, <1>5, PicksThinned
  <1> HIDE DEF a, b
  <1>9. Paired(a, b, s.next)
    BY <1>6, <1>7, <1>8, BothThinned
  <1> QED  BY <1>3, <1>9

-----------------------------------------------------------------------------
(***************************************************************************)
(* The layer above it, and the requests.                                   *)
(***************************************************************************)
\* upnp_add_inboundpinhole() adds a pinhole only when it found none.
LEMMA AddInboundPaired ==
    ASSUME phKind = "ipt", now \in Int, NEW s, Formed(s), Paired(s.list, s.rules, s.next),
           Len(s.list) < UidTop, NEW h \in Holes, NEW leasetime \in Nat, NEW fails,
           NEW out, out = AddInbound(s, h, leasetime, fails).s
    PROVE  Paired(out.list, out.rules, out.next)
  <1> DEFINE uid == FindInbound(s, h)
             ts == now + leasetime
             up == IptUpdate(s, uid, now + ts)
             add == IptAdd(s, h, ts, fails)
  <1>1. UpdateInbound(s, uid, ts, fails) = up
    BY DEF UpdateInbound
  <1>2. uid = IptFind(s, h)
    BY DEF FindInbound
  <1>3. out = IF uid >= 0 THEN up.s ELSE add.s
    <2> HIDE DEF uid, ts, up, add
    <2>1. AddInbound(s, h, leasetime, fails) =
            IF uid >= 0 THEN On(up, LAMBDA u : Out(u.s, IF u.r >= 0 THEN 1 ELSE u.r))
            ELSE Out(add.s, IF add.r >= 0 THEN 1 ELSE -1)
      <3>1. UpdateInbound(s, FindInbound(s, h), now + leasetime, fails) = up
        BY <1>1 DEF uid, ts
      <3> QED  BY <3>1 DEF AddInbound, uid, ts, add
    <2>2. On(up, LAMBDA u : Out(u.s, IF u.r >= 0 THEN 1 ELSE u.r))
            = Out(up.s, IF up.r >= 0 THEN 1 ELSE up.r)
      BY DEF On
    <2>3. \A a, b : Out(a, b).s = a
      BY DEF Out
    <2> QED  BY <2>1, <2>2, <2>3
  <1>4. CASE uid >= 0
    <2>1. now + ts \in Int
      OBVIOUS
    <2> HIDE DEF uid, ts
    <2> QED  BY <1>3, <1>4, <2>1, IptUpdatePaired
  <1>5. CASE ~(uid >= 0)
    <2>1. s.list \in Seq(Entries)
      BY DEF Paired
    <2>2. ByHole(s.list, h) = 0
      <3> SUFFICES ASSUME ByHole(s.list, h) # 0 PROVE FALSE
        OBVIOUS
      <3>1. uid = s.list[ByHole(s.list, h)].uid
        BY <1>2 DEF IptFind
      <3>2. ByHole(s.list, h) \in 1 .. Len(s.list)
        BY <2>1, ByHoleFinds
      <3>3. s.list[ByHole(s.list, h)].uid \in 1 .. UidTop
        BY <2>1, <3>2, EntryFields
      <3> HIDE DEF uid
      <3>4. uid \in 1 .. UidTop
        BY <3>1, <3>3
      <3> QED  BY <1>5, <3>4
    <2>3. ~InList(s.list, h)
      BY <2>1, <2>2, ByHoleFinds
    <2>4. ts \in Int
      OBVIOUS
    <2> HIDE DEF uid, ts
    <2> QED  BY <1>3, <1>5, <2>3, <2>4, IptAddPaired
  <1> QED  BY <1>4, <1>5

\* A call that leaves the list and the chain paired keeps the invariant.
LEMMA DoneKeeps ==
    ASSUME PhInv, NEW s, phKind = "ipt" => Paired(s.list, s.rules, s.next),
           NEW code, PhDone(s, code)
    PROVE  PhInv'
  <1>1. /\ rules' = s.rules /\ list' = s.list /\ next_uid' = s.next
        /\ phKind' = phKind /\ now' = now
    BY DEF PhDone
  <1> QED  BY <1>1 DEF PhInv, Paired, UidsDiffer, HolesDiffer, RulesDiffer, InList, InChain

\* The state the operators are given.
LEMMA StateFormed ==
    /\ Formed(PhState) /\ PhState.list = list /\ PhState.rules = rules
    /\ PhState.next = next_uid
  BY DEF Formed, PhState

\* The invariant holds at the start
LEMMA InitPhInv == PhInit => PhInv
  <1> SUFFICES ASSUME PhInit PROVE PhInv
    OBVIOUS
  <1>1. list = <<>> /\ rules = <<>> /\ next_uid = 1 /\ now = 1
    BY DEF PhInit
  <1>2. list \in Seq(Entries) /\ rules \in Seq(Holes) /\ Len(list) = 0 /\ Len(rules) = 0
    BY <1>1
  <1>3. next_uid \in 1 .. UidTop
    BY <1>1, PinholesAssumption
  <1>4. Paired(list, rules, next_uid)
    BY <1>2, <1>3 DEF Paired, UidsDiffer, HolesDiffer, RulesDiffer, InList, InChain
  <1> QED  BY <1>1, <1>4 DEF PhInv

\* and every step keeps it.
LEMMA NextPhInv == PhInv /\ [PhNext]_phvars => PhInv'
  <1> SUFFICES ASSUME PhInv, [PhNext]_phvars PROVE PhInv'
    OBVIOUS
  <1>1. now \in Int
    BY DEF PhInv
  <1>2. phKind = "ipt" => Paired(PhState.list, PhState.rules, PhState.next)
    BY StateFormed DEF PhInv
  <1>3. ASSUME phKind = "ipt", Len(rules) < MaxHoles PROVE Len(PhState.list) < UidTop
    <2>1. Len(PhState.list) = Len(PhState.rules) /\ Len(PhState.list) \in Nat
      BY <1>2, <1>3, SameLength
    <2> QED  BY <1>3, <2>1, StateFormed, PinholesAssumption
  <1>4. ASSUME NEW c \in Senders, NEW h \in Holes, NEW t \in Leases \cup {0}, NEW f \in PhFails,
               AddPinhole(c, h, t, f)
        PROVE  PhInv'
    <2> DEFINE out == AddInbound(PhState, h, t, f)
               check == AddPinholeCheck(c, h, t)
               code == CASE out.r = 1 -> 200 [] out.r = -1 -> 701 [] OTHER -> 501
    <2>1. t \in Nat
      BY PinholesAssumption
    <2>2. Len(rules) < MaxHoles /\ (PhDone(PhState, check) \/ PhDone(out.s, code))
      BY <1>4 DEF AddPinhole
    <2>3. phKind = "ipt" => Paired(out.s.list, out.s.rules, out.s.next)
      BY <1>1, <1>2, <1>3, <2>1, <2>2, AddInboundPaired, StateFormed
    <2> HIDE DEF out, check, code
    <2> QED  BY <1>2, <2>2, <2>3, DoneKeeps
  <1>5. ASSUME NEW uid, NEW t \in Nat, NEW f, phKind = "ipt"
        PROVE  LET out == UpdateInbound(PhState, uid, t, f).s
               IN  Paired(out.list, out.rules, out.next)
    <2>1. UpdateInbound(PhState, uid, t, f) = IptUpdate(PhState, uid, now + t)
      BY <1>5 DEF UpdateInbound
    <2>2. now + t \in Int
      BY <1>1
    <2> QED  BY <1>2, <1>5, <2>1, <2>2, IptUpdatePaired, StateFormed
  <1>6. ASSUME NEW c \in Senders, NEW u \in 1 .. UidTop, NEW t \in Leases \cup {0},
               NEW f \in PhFails, UpdatePinhole(c, u, t, f)
        PROVE  PhInv'
    <2> DEFINE out == UpdateInbound(PhState, u, t, f)
               code == CASE out.r = -1 -> 704 [] out.r < -1 -> 501 [] OTHER -> 200
    <2>1. t \in Nat
      BY PinholesAssumption
    <2>2. (\E any : PhDone(PhState, any)) \/ PhDone(out.s, code)
      BY <1>6 DEF UpdatePinhole
    <2>3. phKind = "ipt" => Paired(out.s.list, out.s.rules, out.s.next)
      BY <1>5, <2>1
    <2> HIDE DEF out, code
    <2> QED  BY <1>2, <2>2, <2>3, DoneKeeps
  <1>7. ASSUME NEW c \in Senders, NEW u \in 1 .. UidTop, NEW f \in PhFails,
               DeletePinhole(c, u, f)
        PROVE  PhInv'
    <2> DEFINE out == DeleteInbound(PhState, u, f)
               code == IF out.r < 0 THEN 501 ELSE 200
    <2>1. (\E any : PhDone(PhState, any)) \/ PhDone(out.s, code)
      BY <1>7 DEF DeletePinhole
    <2>2. ASSUME phKind = "ipt" PROVE Paired(out.s.list, out.s.rules, out.s.next)
      <3>1. out = IptDelete(PhState, u, f)
        BY <2>2 DEF DeleteInbound
      <3> QED  BY <1>2, <2>2, <3>1, IptDeletePaired, StateFormed
    <2> HIDE DEF out, code
    <2> QED  BY <1>2, <2>1, <2>2, DoneKeeps
  <1>8. ASSUME NEW c \in Senders, NEW u \in 1 .. UidTop, CheckPinholeWorking(c, u) PROVE PhInv'
    <2>1. \E any : PhDone(PhState, any)
      BY <1>8 DEF CheckPinholeWorking
    <2> QED  BY <1>2, <2>1, DoneKeeps
  <1>9. ASSUME NEW c \in Senders, NEW u \in 1 .. UidTop, GetPinholePackets(c, u) PROVE PhInv'
    <2>1. \E any : PhDone(PhState, any)
      BY <1>9 DEF GetPinholePackets
    <2> QED  BY <1>2, <2>1, DoneKeeps
  <1>10. ASSUME NEW h \in Holes, NEW t \in Leases, NEW f \in PhFails, CreatePCPMap_FW(h, t, f)
         PROVE  PhInv'
    <2> DEFINE uid == FindInbound(PhState, h)
               up == UpdateInbound(PhState, uid, t, f)
               add == AddInbound(PhState, h, t, f)
               out == IF uid >= 0 THEN up ELSE add
               code == IF out.r >= 0 THEN 200 ELSE 501
    <2>1. t \in Nat
      BY PinholesAssumption
    <2>2. Len(rules) < MaxHoles /\ PhDone(out.s, code)
      BY <1>10 DEF CreatePCPMap_FW
    <2>3. phKind = "ipt" => Paired(up.s.list, up.s.rules, up.s.next)
      BY <1>5, <2>1
    <2>4. phKind = "ipt" => Paired(add.s.list, add.s.rules, add.s.next)
      BY <1>1, <1>2, <1>3, <2>1, <2>2, AddInboundPaired, StateFormed
    <2> HIDE DEF up, add, uid, code
    <2>5. phKind = "ipt" => Paired(out.s.list, out.s.rules, out.s.next)
      BY <2>3, <2>4
    <2> HIDE DEF out
    <2> QED  BY <2>2, <2>5, DoneKeeps
  <1>11. ASSUME NEW n \in 0 .. MaxHoles, CleanPinholes(n) PROVE PhInv'
    <2> DEFINE out == CleanExpired(PhState, n)
    <2>1. /\ rules' = out.s.rules /\ list' = out.s.list /\ next_uid' = out.s.next
          /\ phKind' = phKind /\ now' = now
      BY <1>11 DEF CleanPinholes
    <2>2. ASSUME phKind = "ipt" PROVE Paired(out.s.list, out.s.rules, out.s.next)
      <3>1. out = IptClean(PhState, n)
        BY <2>2 DEF CleanExpired
      <3> QED  BY <1>2, <2>2, <3>1, IptCleanPaired, StateFormed
    <2> HIDE DEF out
    <2> QED  BY <1>1, <2>1, <2>2
             DEF PhInv, Paired, UidsDiffer, HolesDiffer, RulesDiffer, InList, InChain
  <1>12. CASE PhTick
    <2>1. /\ now' = now + 1 /\ rules' = rules /\ list' = list /\ next_uid' = next_uid
          /\ phKind' = phKind
      BY <1>12 DEF PhTick
    <2>2. now' \in Int
      BY <1>1, <2>1
    <2> QED  BY <2>1, <2>2
             DEF PhInv, Paired, UidsDiffer, HolesDiffer, RulesDiffer, InList, InChain
  <1>13. CASE UNCHANGED phvars
    BY <1>13 DEF phvars, PhInv, Paired, UidsDiffer, HolesDiffer, RulesDiffer, InList, InChain
  <1> QED  BY <1>4, <1>6, <1>7, <1>8, <1>9, <1>10, <1>11, <1>12, <1>13 DEF PhNext

\* Behind the ip6tables back end the daemon's list and the kernel's chain hold the
\* same pinholes, each of them once, and no two pinholes have the same number:
\* whichever calls of the kernel are refused, wherever the clean-up of expired
\* pinholes stops and however often the numbers went round.
THEOREM ChainIsListed == PhSpec => []ListMatchesChain
  <1>1. PhInv => ListMatchesChain
    <2> SUFFICES ASSUME PhInv, phKind = "ipt"
                 PROVE  /\ Len(list) = Len(rules)
                        /\ {Hole(list[i]) : i \in 1 .. Len(list)} = Range(rules)
                        /\ \A i, j \in 1 .. Len(list) : list[i].uid = list[j].uid => i = j
      BY DEF ListMatchesChain
    <2>1. Paired(list, rules, next_uid)
      BY DEF PhInv
    <2>2. Len(list) = Len(rules)
      BY <2>1, SameLength
    <2>3. \A i, j \in 1 .. Len(list) : list[i].uid = list[j].uid => i = j
      BY <2>1 DEF Paired, UidsDiffer
    <2>4. {Hole(list[i]) : i \in 1 .. Len(list)} = Range(rules)
      <3>1. DOMAIN rules = 1 .. Len(rules)
        BY <2>1 DEF Paired
      <3>2. \A h : h \in Range(rules) <=> InChain(rules, h)
        BY <3>1 DEF Range, InChain
      <3>3. \A h : h \in {Hole(list[i]) : i \in 1 .. Len(list)} <=> InList(list, h)
        BY DEF InList
      <3>4. \A h : InList(list, h) <=> InChain(rules, h)
        BY <2>1 DEF Paired
      <3> QED  BY <3>2, <3>3, <3>4
    <2> QED  BY <2>2, <2>3, <2>4
  <1> QED  BY <1>1, InitPhInv, NextPhInv, PTL DEF PhSpec

-----------------------------------------------------------------------------
(***************************************************************************)
(* The clean-up of all three back ends.                                    *)
(***************************************************************************)
Members(q) == {q[i] : i \in 1 .. Len(q)}

\* r has the members of q that are not at the places Gone.
Left(r, q, Gone) ==
    \A x : x \in Members(r) <=> \E i \in 1 .. Len(q) : i \notin Gone /\ x = q[i]

\* A list of rules with ends of leases
Timed(q) == \E T : q \in Seq(T) /\ \A x \in T : x.ts \in Int

\* What is picked out of a list are those of its members that it was to be.
LEMMA PickedMembers ==
    ASSUME NEW T, NEW q \in Seq(T), NEW seqs, Picks(seqs, q), NEW Gone,
           \A i \in 1 .. Len(q) : seqs[i] = <<>> <=> i \in Gone
    PROVE  /\ FlattenSeq(seqs) \in Seq(T)
           /\ Left(FlattenSeq(seqs), q, Gone)
  <1> DEFINE r == FlattenSeq(seqs)
  <1>1. r \in Seq(T) /\ \E f : Thinned(r, q, f, Gone)
    BY PicksThinned
  <1> HIDE DEF r
  <1>2. PICK f : Thinned(r, q, f, Gone)
    BY <1>1
  <1>3. /\ \A i \in 1 .. Len(r) : f[i] \in 1 .. Len(q) /\ r[i] = q[f[i]] /\ f[i] \notin Gone
        /\ \A m \in 1 .. Len(q) : m \notin Gone => \E i \in 1 .. Len(r) : f[i] = m
    BY <1>2 DEF Thinned
  <1>4. ASSUME NEW x \in Members(r) PROVE \E i \in 1 .. Len(q) : i \notin Gone /\ x = q[i]
    BY <1>3, <1>4 DEF Members
  <1>5. ASSUME NEW i \in 1 .. Len(q), i \notin Gone PROVE q[i] \in Members(r)
    <2>1. PICK j \in 1 .. Len(r) : f[j] = i
      BY <1>3, <1>5
    <2>2. r[j] = q[i]
      BY <1>3, <2>1
    <2> QED  BY <2>2 DEF Members
  <1> QED  BY <1>1, <1>4, <1>5 DEF r, Left

\* The end of the next lease depends on the members only.
LEMMA EarliestIs ==
    ASSUME NEW T, NEW q \in Seq(T)
    PROVE  Earliest(q) = LET left == {x.ts : x \in Members(q)} IN
                         IF left = {} THEN 0 ELSE Min(left)
  <1> DEFINE left == {x.ts : x \in Members(q)}
  <1>1. left = {q[i].ts : i \in 1 .. Len(q)}
    BY DEF Members
  <1>2. Len(q) \in Nat /\ (q = <<>> <=> Len(q) = 0)
    OBVIOUS
  <1>3. q = <<>> <=> left = {}
    <2>1. ASSUME Len(q) # 0 PROVE q[1].ts \in left
      <3>1. 1 \in 1 .. Len(q)
        BY <1>2, <2>1
      <3> HIDE DEF left
      <3> QED  BY <1>1, <3>1
    <2>2. ASSUME Len(q) = 0 PROVE left = {}
      BY <1>1, <2>2
    <2> HIDE DEF left
    <2> QED  BY <1>2, <2>1, <2>2
  <1> HIDE DEF left
  <1> QED  BY <1>1, <1>3 DEF Earliest, left

\* The last place that fits
LEMMA LastPlace ==
    ASSUME NEW s, NEW T, s.rules \in Seq(T), NEW uid
    PROVE  NftPlace(s, uid) # 0 => NftPlace(s, uid) \in 1 .. Len(s.rules)
  <1> DEFINE I == {i \in 1 .. Len(s.rules) : s.rules[i].uid = uid}
             J == {Len(s.rules) - i : i \in I}
  <1>1. NftPlace(s, uid) = IF I # {} THEN Max(I) ELSE 0
    BY DEF NftPlace, SelectLastInSeq
  <1>2. ASSUME I # {} PROVE Max(I) \in I
    <2>1. J \subseteq Nat /\ J # {} /\ \A i \in I : i \in Int /\ Len(s.rules) \in Int
      <3>1. PICK n \in Nat : n = Len(s.rules)
        OBVIOUS
      <3>2. \A i \in I : i \in Int /\ n - i \in Nat
        BY <3>1
      <3> HIDE DEF I
      <3> QED  BY <1>2, <3>1, <3>2
    <2>2. PICK m \in J : \A k \in J : m <= k
      BY <2>1, LeastNatural
    <2>3. PICK i \in I : m = Len(s.rules) - i
      BY <2>2
    <2>4. \A k \in I : i >= k
      <3>1. \A k \in I : m <= Len(s.rules) - k
        BY <2>2
      <3> HIDE DEF I, J
      <3> QED  BY <2>1, <2>3, <3>1
    <2> HIDE DEF I, J
    <2> QED  BY <2>3, <2>4 DEF Max
  <1> QED  BY <1>1, <1>2

\* One more rule, one less, and some of them
LEMMA TimedStays ==
    ASSUME NEW q, Timed(q)
    PROVE  /\ \A x : x.ts \in Int => Timed(Append(q, x))
           /\ \A i \in 1 .. Len(q) : Timed(RemoveAt(q, i))
           /\ \A seqs : Picks(seqs, q) => Timed(FlattenSeq(seqs))
  <1>1. PICK T : q \in Seq(T) /\ \A x \in T : x.ts \in Int
    BY DEF Timed
  <1>2. ASSUME NEW x, x.ts \in Int PROVE Timed(Append(q, x))
    <2> DEFINE U == T \cup {x}
    <2>1. q \in Seq(U) /\ x \in U /\ \A y \in U : y.ts \in Int
      BY <1>1, <1>2
    <2> HIDE DEF U
    <2>2. Append(q, x) \in Seq(U)
      BY <2>1
    <2> QED  BY <2>1, <2>2 DEF Timed
  <1>3. ASSUME NEW i \in 1 .. Len(q) PROVE Timed(RemoveAt(q, i))
    <2>1. RemoveAt(q, i) \in Seq(T)
      BY <1>1, CutThinned
    <2> QED  BY <1>1, <2>1 DEF Timed
  <1>4. ASSUME NEW seqs, Picks(seqs, q) PROVE Timed(FlattenSeq(seqs))
    <2>1. FlattenSeq(seqs) \in Seq(T)
      BY <1>1, <1>4, PickedOnes
    <2> QED  BY <1>1, <2>1 DEF Timed
  <1> QED  BY <1>2, <1>3, <1>4

\* A rule gets the end it is given.
LEMMA LabelTimed == \A h, uid, ts : Labelled(h, uid, ts).ts = ts
  BY DEF Labelled

\* The operations of pf and nftables keep rules with ends.
LEMMA AddTimed ==
    ASSUME NEW s, Formed(s), Timed(s.rules), NEW h, NEW ts \in Int, NEW fails
    PROVE  Timed(PfHoleAdd(s, h, ts, fails).s.rules)
  <1> DEFINE x == Labelled(h, s.next, ts)
             r == [s EXCEPT !.rules = Append(@, x), !.next = LabelUid(@)]
  <1>1. x.ts \in Int
    BY LabelTimed
  <1> HIDE DEF x
  <1>2. Timed(Append(s.rules, x))
    BY <1>1, TimedStays
  <1>3. r.rules = Append(s.rules, x)
    BY DEF Formed
  <1> HIDE DEF r
  <1>4. PfHoleAdd(s, h, ts, fails).s \in {s, r}
    BY DEF PfHoleAdd, Out, r, x
  <1> QED  BY <1>2, <1>3, <1>4

\* An update takes a rule out and puts it back with its new end.
LEMMA NftUpdateTimed ==
    ASSUME NEW s, Formed(s), Timed(s.rules), NEW uid, NEW ts \in Int, NEW fails
    PROVE  Timed(NftHoleUpdate(s, uid, ts, fails).s.rules)
  <1> DEFINE i == NftPlace(s, uid)
             x == Labelled(NftSeen(Hole(s.rules[i])), uid, ts)
             without == [s EXCEPT !.rules = RemoveAt(@, i)]
             r == [without EXCEPT !.rules = Append(@, x)]
  <1>1. x.ts \in Int
    BY LabelTimed
  <1> HIDE DEF x
  <1>2. without.rules = RemoveAt(s.rules, i) /\ r.rules = Append(RemoveAt(s.rules, i), x)
    BY DEF Formed
  <1>3. i # 0 => i \in 1 .. Len(s.rules)
    BY LastPlace DEF Timed
  <1> HIDE DEF i, without, r
  <1>4. i # 0 => Timed(RemoveAt(s.rules, i))
    BY <1>3, TimedStays
  <1>5. i # 0 => Timed(Append(RemoveAt(s.rules, i), x))
    BY <1>1, <1>4, TimedStays
  <1>6. \/ NftHoleUpdate(s, uid, ts, fails).s = s
        \/ i # 0 /\ NftHoleUpdate(s, uid, ts, fails).s \in {s, without, r}
    BY DEF NftHoleUpdate, Out, i, without, r, x
  <1> QED  BY <1>2, <1>4, <1>5, <1>6

\* A deletion takes one rule out.
LEMMA DeleteTimed ==
    ASSUME NEW s, Formed(s), Timed(s.rules), NEW uid, NEW fails
    PROVE  /\ Timed(NftHoleDelete(s, uid, fails).s.rules)
           /\ Timed(PfHoleDelete(s, uid, fails).s.rules)
  <1>1. \A i : [s EXCEPT !.rules = RemoveAt(@, i)].rules = RemoveAt(s.rules, i)
    BY DEF Formed
  <1>2. \A i \in 1 .. Len(s.rules) : Timed(RemoveAt(s.rules, i))
    BY TimedStays
  <1>3. NftPlace(s, uid) # 0 => NftPlace(s, uid) \in 1 .. Len(s.rules)
    BY LastPlace DEF Timed
  <1>4. ByUid(s.rules, uid) # 0 => ByUid(s.rules, uid) \in 1 .. Len(s.rules)
    BY ByUidFinds DEF Timed
  <1> QED  BY <1>1, <1>2, <1>3, <1>4 DEF NftHoleDelete, PfHoleDelete, Out

\* What a clean-up is to leave: leases that have not ended, and the time of the next
Complete(open, ts) ==
    LET left == {x.ts : x \in Members(open)} IN
    /\ \A t \in left : t > now
    /\ ts = IF left = {} THEN 0 ELSE Min(left)

\* The rules whose leases have not ended
LEMMA AliveMembers ==
    ASSUME NEW q, Timed(q), now \in Int
    PROVE  LET r == Those(q, LAMBDA e : e.ts > now) IN
           /\ \E T : r \in Seq(T)
           /\ Members(r) = {x \in Members(q) : x.ts > now}
  <1> DEFINE L == [i \in DOMAIN q |-> IF q[i].ts > now THEN <<q[i]>> ELSE <<>>]
             Gone == {i \in 1 .. Len(q) : ~(q[i].ts > now)}
  <1>1. PICK T : q \in Seq(T)
    BY DEF Timed
  <1>2. Those(q, LAMBDA e : e.ts > now) = FlattenSeq(L)
    BY DEF Those
  <1>3. Picks(L, q) /\ \A i \in 1 .. Len(q) : L[i] = <<>> <=> i \in Gone
    <2>1. DOMAIN q = 1 .. Len(q) /\ \A x : <<x>> # <<>>
      BY <1>1
    <2> QED  BY <2>1 DEF Picks
  <1>4. \A x : (\E i \in 1 .. Len(q) : i \notin Gone /\ x = q[i]) <=> x \in Members(q) /\ x.ts > now
    BY DEF Members
  <1> HIDE DEF L, Gone
  <1>5. /\ FlattenSeq(L) \in Seq(T)
        /\ Left(FlattenSeq(L), q, Gone)
    BY <1>1, <1>3, PickedMembers
  <1>6. Members(FlattenSeq(L)) = {x \in Members(q) : x.ts > now}
    BY <1>4, <1>5 DEF Left
  <1> QED  BY <1>2, <1>5, <1>6

\* ip6tables: entries go by their numbers, which differ.
LEMMA IptCleans ==
    ASSUME NEW s, Formed(s), Paired(s.list, s.rules, s.next), now \in Int
    PROVE  Complete(IptClean(s, 0).s.list, IptClean(s, 0).ts)
  <1> DEFINE q == s.list
             expired == Those(q, LAMBDA e : e.ts <= now)
             gone == {e.uid : e \in Range(IF 0 \in 1 .. Len(expired)
                                         THEN SubSeq(expired, 1, 0 - 1) ELSE expired)}
             holes == {Hole(q[i]) : i \in {j \in 1 .. Len(q) : q[j].uid \in gone}}
             all == SubSeq(q, 1, Len(q))
             visited == Those(all, LAMBDA e : e.ts > now)
             list2 == Those(q, LAMBDA e : e.uid \notin gone)
  <1>1. q \in Seq(Entries) /\ UidsDiffer(q)
    BY DEF Paired
  <1>2. \A i \in 1 .. Len(q) : q[i].ts \in Int
    <2>1. \A e \in Entries : e.ts \in Int
      BY LabelTimed DEF Entries
    <2> QED  BY <1>1, <2>1
  <1>3. all = q /\ Timed(q)
    <2>1. all = q
      BY <1>1
    <2>2. \A e \in Entries : e.ts \in Int
      BY LabelTimed DEF Entries
    <2> QED  BY <1>1, <2>1, <2>2 DEF Timed
  <1>4. IptClean(s, 0).s.list = list2 /\ IptClean(s, 0).ts = Earliest(visited)
    <2> HIDE DEF expired
    <2>1. ~(0 \in 1 .. Len(expired))
      OBVIOUS
    <2>2. IptClean(s, 0).ts = Earliest(visited)
      BY <2>1 DEF IptClean, expired
    <2>3. IptClean(s, 0).s = [s EXCEPT !.list = list2, !.rules = Those(@, LAMBDA e : e \notin holes)]
      BY DEF IptClean, expired
    <2> HIDE DEF list2, holes
    <2>4. IptClean(s, 0).s.list = list2
      BY <2>3 DEF Formed
    <2> QED  BY <2>2, <2>4
  <1> HIDE DEF all
  <1>5. /\ \E T : visited \in Seq(T)
        /\ Members(visited) = {x \in Members(q) : x.ts > now}
    BY <1>3, AliveMembers
  <1>6. Members(expired) = {x \in Members(q) : x.ts <= now} /\ expired \in Seq(Entries)
    <2> DEFINE L == [i \in DOMAIN q |-> IF q[i].ts <= now THEN <<q[i]>> ELSE <<>>]
               Gone == {i \in 1 .. Len(q) : ~(q[i].ts <= now)}
    <2>1. expired = FlattenSeq(L)
      BY DEF Those
    <2>2. Picks(L, q) /\ \A i \in 1 .. Len(q) : L[i] = <<>> <=> i \in Gone
      <3>1. DOMAIN q = 1 .. Len(q) /\ \A x : <<x>> # <<>>
        BY <1>1
      <3> QED  BY <3>1 DEF Picks
    <2>3. \A x : (\E i \in 1 .. Len(q) : i \notin Gone /\ x = q[i]) <=> x \in Members(q) /\ x.ts <= now
      BY DEF Members
    <2> HIDE DEF L, Gone, q, expired
    <2>4. /\ FlattenSeq(L) \in Seq(Entries)
          /\ Left(FlattenSeq(L), q, Gone)
      BY <1>1, <2>2, PickedMembers
    <2>5. Members(expired) = {x \in Members(q) : x.ts <= now}
      BY <2>1, <2>3, <2>4 DEF Left
    <2> QED  BY <2>1, <2>4, <2>5
  <1>7. gone = {e.uid : e \in {x \in Members(q) : x.ts <= now}}
    <2> HIDE DEF expired, q
    <2>1. Range(expired) = Members(expired)
      BY <1>6 DEF Range, Members
    <2>2. ~(0 \in 1 .. Len(expired))
      OBVIOUS
    <2> QED  BY <1>6, <2>1, <2>2
  <1> HIDE DEF gone
  <1>8. Members(list2) = {x \in Members(q) : x.ts > now}
    <2> DEFINE L == [i \in DOMAIN q |-> IF q[i].uid \notin gone THEN <<q[i]>> ELSE <<>>]
               Gone == {i \in 1 .. Len(q) : q[i].uid \in gone}
    <2>1. list2 = FlattenSeq(L)
      BY DEF Those
    <2>2. Picks(L, q) /\ \A i \in 1 .. Len(q) : L[i] = <<>> <=> i \in Gone
      <3>1. DOMAIN q = 1 .. Len(q) /\ \A x : <<x>> # <<>>
        BY <1>1
      <3> QED  BY <3>1 DEF Picks
    <2>3. \A i \in 1 .. Len(q) : i \in Gone <=> q[i].ts <= now
      <3> SUFFICES ASSUME NEW i \in 1 .. Len(q) PROVE q[i].uid \in gone <=> q[i].ts <= now
        OBVIOUS
      <3>1. q[i].ts <= now => q[i].uid \in gone
        BY <1>7 DEF Members
      <3>2. ASSUME q[i].uid \in gone PROVE q[i].ts <= now
        <4>1. PICK j \in 1 .. Len(q) : q[j].ts <= now /\ q[i].uid = q[j].uid
          BY <1>7, <3>2 DEF Members
        <4>2. i = j
          BY <1>1, <4>1 DEF UidsDiffer
        <4> QED  BY <4>1, <4>2
      <3> QED  BY <3>1, <3>2
    <2>4. \A i \in 1 .. Len(q) : q[i].ts <= now <=> ~(q[i].ts > now)
      BY <1>2
    <2> HIDE DEF L, Gone, q, list2
    <2>5. \A x : (\E i \in 1 .. Len(q) : i \notin Gone /\ x = q[i]) <=> x \in Members(q) /\ x.ts > now
      BY <2>3, <2>4 DEF Members
    <2>6. Left(FlattenSeq(L), q, Gone)
      BY <1>1, <2>2, PickedMembers
    <2> QED  BY <2>1, <2>5, <2>6 DEF Left
  <1> HIDE DEF q, expired, visited, list2
  <1>9. Earliest(visited) = LET left == {x.ts : x \in Members(visited)} IN
                            IF left = {} THEN 0 ELSE Min(left)
    BY <1>5, EarliestIs
  <1> QED  BY <1>4, <1>5, <1>8, <1>9 DEF Complete

\* pf: the rules that did not stay are equal to none of those that did.
LEMMA PfCleans ==
    ASSUME NEW s, Formed(s), Timed(s.rules), now \in Int, NEW n
    PROVE  /\ Timed(PfHoleClean(s, n).s.rules)
           /\ n = 0 => Complete(PfHoleClean(s, n).s.rules, PfHoleClean(s, n).ts)
  <1> DEFINE q == s.rules
             down == Reverse(q)
             expired == Those(down, LAMBDA e : e.ts <= now)
             gone == {expired[i] : i \in 1 .. IF n \in 1 .. Len(expired) THEN n - 1 ELSE Len(expired)}
             L == [i \in DOMAIN q |-> IF q[i] \notin gone THEN <<q[i]>> ELSE <<>>]
             left == FlattenSeq(L)
             Gone == {i \in 1 .. Len(q) : q[i] \in gone}
  <1>1. PICK T : q \in Seq(T) /\ \A x \in T : x.ts \in Int
    BY DEF Timed
  <1>2. left = Those(q, LAMBDA e : e \notin gone)
    BY DEF Those
  <1>3. /\ PfHoleClean(s, n).s.rules = left
        /\ n = 0 => PfHoleClean(s, n).ts = Earliest(left)
    <2> HIDE DEF left, gone
    <2>1. ~(0 \in 1 .. Len(expired))
      OBVIOUS
    <2> QED  BY <1>2, <2>1 DEF PfHoleClean, Formed, gone
  <1>4. Picks(L, q) /\ \A i \in 1 .. Len(q) : L[i] = <<>> <=> i \in Gone
    <2>1. DOMAIN q = 1 .. Len(q) /\ \A x : <<x>> # <<>>
      BY <1>1
    <2> HIDE DEF gone
    <2> QED  BY <2>1 DEF Picks
  <1>5. ASSUME n = 0 PROVE \A x \in Members(q) : x.ts <= now => x \in gone
    <2> SUFFICES ASSUME NEW i \in 1 .. Len(q), q[i].ts <= now PROVE q[i] \in gone
      BY DEF Members
    <2> DEFINE j == Len(q) - i + 1
               D == [k \in DOMAIN down |-> IF down[k].ts <= now THEN <<down[k]>> ELSE <<>>]
               Kept2 == {k \in 1 .. Len(down) : ~(down[k].ts <= now)}
    <2>1. down \in Seq(T) /\ Len(down) = Len(q) /\ j \in 1 .. Len(down) /\ down[j] = q[i]
      BY <1>1 DEF Reverse
    <2>2. expired = FlattenSeq(D)
      BY DEF Those
    <2>3. Picks(D, down) /\ \A k \in 1 .. Len(down) : D[k] = <<>> <=> k \in Kept2
      <3>1. DOMAIN down = 1 .. Len(down) /\ \A x : <<x>> # <<>>
        BY <2>1
      <3> HIDE DEF down
      <3> QED  BY <3>1 DEF Picks
    <2>4. j \in (1 .. Len(down)) \ Kept2
      BY <2>1
    <2> HIDE DEF D, Kept2, down, j
    <2>5. Left(FlattenSeq(D), down, Kept2)
      BY <2>1, <2>3, PickedMembers
    <2>6. q[i] \in Members(expired)
      BY <2>1, <2>2, <2>4, <2>5 DEF Left
    <2> HIDE DEF expired
    <2>7. gone = Members(expired)
      BY <1>5 DEF Members
    <2> QED  BY <2>6, <2>7
  <1> HIDE DEF gone, L, Gone, down
  <1>6. /\ left \in Seq(T)
        /\ Left(left, q, Gone)
    BY <1>1, <1>4, PickedMembers
  <1> HIDE DEF left
  <1>7. Timed(left)
    BY <1>1, <1>6 DEF Timed
  <1>8. ASSUME n = 0, NEW x \in Members(left) PROVE x.ts > now
    <2>1. PICK i \in 1 .. Len(q) : x = q[i] /\ x \notin gone
      BY <1>6, <1>8 DEF Gone, Left
    <2>2. x \in Members(q) /\ x.ts \in Int
      BY <1>1, <2>1 DEF Members
    <2>3. ~(x.ts <= now)
      BY <1>5, <1>8, <2>1, <2>2
    <2> QED  BY <2>2, <2>3
  <1>9. Earliest(left) = LET ts == {x.ts : x \in Members(left)} IN
                         IF ts = {} THEN 0 ELSE Min(ts)
    BY <1>6, EarliestIs
  <1> QED  BY <1>3, <1>7, <1>8, <1>9 DEF Complete

\* nftables: what stays when nothing is refused are the rules that count.
LEMMA NftCleans ==
    ASSUME NEW s, Formed(s), Timed(s.rules), now \in Int, NEW n
    PROVE  /\ Timed(NftHoleClean(s, n).s.rules)
           /\ n = 0 => Complete(NftHoleClean(s, n).s.rules, NftHoleClean(s, n).ts)
  <1> DEFINE q == s.rules
             expired == Those(NftListed(s), LAMBDA e : e.ts <= now)
             left == Those(q, LAMBDA e : e.ts > now)
             Stays(e) == e.ts > now \/ (n \in 1 .. Len(expired) /\ e = expired[n])
             L == [i \in DOMAIN q |-> IF Stays(q[i]) THEN <<q[i]>> ELSE <<>>]
             kept == FlattenSeq(L)
             Gone == {i \in 1 .. Len(q) : ~Stays(q[i])}
  <1>1. PICK T : q \in Seq(T) /\ \A x \in T : x.ts \in Int
    BY DEF Timed
  <1>2. kept = Those(q, LAMBDA e : e.ts > now \/ (n \in 1 .. Len(expired) /\ e = expired[n]))
    BY DEF Those
  <1>3. NftHoleClean(s, n).s.rules = kept /\ NftHoleClean(s, n).ts = Earliest(left)
    <2> HIDE DEF kept
    <2> QED  BY <1>2 DEF NftHoleClean, Formed
  <1> HIDE DEF expired
  <1>4. Picks(L, q) /\ \A i \in 1 .. Len(q) : L[i] = <<>> <=> i \in Gone
    <2>1. DOMAIN q = 1 .. Len(q) /\ \A x : <<x>> # <<>>
      BY <1>1
    <2> QED  BY <2>1 DEF Picks
  <1>5. n = 0 => \A e : Stays(e) <=> e.ts > now
    OBVIOUS
  <1>6. n = 0 => \A x : (\E i \in 1 .. Len(q) : i \notin Gone /\ x = q[i])
                         <=> x \in Members(q) /\ x.ts > now
    <2> HIDE DEF Stays
    <2> QED  BY <1>5 DEF Members
  <1> HIDE DEF L, Gone
  <1>7. /\ kept \in Seq(T)
        /\ Left(kept, q, Gone)
    BY <1>1, <1>4, PickedMembers
  <1> HIDE DEF kept
  <1>8. Timed(kept)
    BY <1>1, <1>7 DEF Timed
  <1>9. (\E U : left \in Seq(U)) /\ Members(left) = {x \in Members(q) : x.ts > now}
    BY AliveMembers
  <1> HIDE DEF left, q
  <1>10. Earliest(left) = LET ts == {x.ts : x \in Members(left)} IN
                          IF ts = {} THEN 0 ELSE Min(ts)
    BY <1>9, EarliestIs
  <1>11. n = 0 => Members(kept) = Members(left) /\ \A x \in Members(kept) : x.ts > now
    BY <1>6, <1>7, <1>9 DEF Left
  <1>12. n = 0 => Complete(kept, Earliest(left))
    BY <1>10, <1>11 DEF Complete
  <1> QED  BY <1>3, <1>8, <1>12

\* The three back ends; the rules of two of them have ends.
TInv == PhInv /\ phKind \in {"ipt", "pf", "nft"} /\ (phKind # "ipt" => Timed(rules))

\* The layer above the back ends
LEMMA InboundTimed ==
    ASSUME TInv, phKind # "ipt", NEW s, Formed(s), Timed(s.rules), NEW fails
    PROVE  /\ \A uid, t : t \in Int => Timed(UpdateInbound(s, uid, t, fails).s.rules)
           /\ \A h, t : t \in Int => Timed(AddInbound(s, h, t, fails).s.rules)
           /\ \A uid : Timed(DeleteInbound(s, uid, fails).s.rules)
  <1>1. now \in Int /\ phKind \in {"pf", "nft"}
    BY DEF TInv, PhInv
  <1>2. ASSUME NEW uid, NEW t \in Int PROVE Timed(UpdateInbound(s, uid, t, fails).s.rules)
    <2>1. CASE phKind = "pf"
      <3>1. UpdateInbound(s, uid, t, fails) = Out(s, -42)
        BY <2>1 DEF UpdateInbound
      <3> QED  BY <3>1 DEF Out
    <2>2. CASE phKind = "nft"
      <3>1. UpdateInbound(s, uid, t, fails) = NftHoleUpdate(s, uid, now + t, fails)
        BY <2>2 DEF UpdateInbound
      <3>2. now + t \in Int
        BY <1>1
      <3> QED  BY <3>1, <3>2, NftUpdateTimed
    <2> QED  BY <1>1, <2>1, <2>2
  <1>3. ASSUME NEW h, NEW t \in Int PROVE Timed(AddInbound(s, h, t, fails).s.rules)
    <2> DEFINE ts == now + t
               uid == FindInbound(s, h)
               add == PfHoleAdd(s, h, ts, fails)
               up == UpdateInbound(s, uid, ts, fails)
    <2>1. ts \in Int
      BY <1>1
    <2>2. AddInbound(s, h, t, fails) =
            IF uid >= 0 THEN On(up, LAMBDA u : Out(u.s, IF u.r >= 0 THEN 1 ELSE u.r))
            ELSE Out(add.s, IF add.r >= 0 THEN 1 ELSE -1)
      BY <1>1 DEF AddInbound, uid, ts, add, up
    <2>3. Timed(add.s.rules) /\ Timed(up.s.rules)
      <3> HIDE DEF ts, uid
      <3> QED  BY <1>2, <2>1, AddTimed
    <2> HIDE DEF ts, uid, add, up
    <2>4. On(up, LAMBDA u : Out(u.s, IF u.r >= 0 THEN 1 ELSE u.r))
            = Out(up.s, IF up.r >= 0 THEN 1 ELSE up.r)
      BY DEF On
    <2>5. \A a, b : Out(a, b).s = a
      BY DEF Out
    <2> QED  BY <2>2, <2>3, <2>4, <2>5
  <1>4. ASSUME NEW uid PROVE Timed(DeleteInbound(s, uid, fails).s.rules)
    <2>1. DeleteInbound(s, uid, fails) \in {PfHoleDelete(s, uid, fails), NftHoleDelete(s, uid, fails)}
      BY <1>1 DEF DeleteInbound
    <2> QED  BY <2>1, DeleteTimed
  <1> QED  BY <1>2, <1>3, <1>4

\* The clean-up of each back end
LEMMA Cleans ==
    ASSUME TInv, NEW n
    PROVE  LET out == CleanExpired(PhState, n) IN
           /\ phKind # "ipt" => Timed(out.s.rules)
           /\ n = 0 => Complete(IF phKind = "ipt" THEN out.s.list ELSE out.s.rules, out.ts)
  <1>1. now \in Int /\ Formed(PhState)
    BY StateFormed DEF TInv, PhInv
  <1>2. CASE phKind = "ipt"
    <2>1. Paired(PhState.list, PhState.rules, PhState.next)
      BY <1>2, StateFormed DEF TInv, PhInv
    <2>2. CleanExpired(PhState, n) = IptClean(PhState, n)
      BY <1>2 DEF CleanExpired
    <2>3. Complete(IptClean(PhState, 0).s.list, IptClean(PhState, 0).ts)
      BY <1>1, <2>1, IptCleans
    <2> QED  BY <1>2, <2>2, <2>3
  <1>3. ASSUME phKind # "ipt" PROVE Timed(PhState.rules)
    BY <1>3, StateFormed DEF TInv
  <1>4. CASE phKind = "pf"
    <2>1. CleanExpired(PhState, n) = PfHoleClean(PhState, n)
      BY <1>4 DEF CleanExpired
    <2> QED  BY <1>1, <1>3, <1>4, <2>1, PfCleans
  <1>5. CASE phKind = "nft"
    <2>1. CleanExpired(PhState, n) = NftHoleClean(PhState, n)
      BY <1>5 DEF CleanExpired
    <2> QED  BY <1>1, <1>3, <1>5, <2>1, NftCleans
  <1> QED  BY <1>2, <1>4, <1>5 DEF TInv

\* A call that leaves rules with ends
LEMMA DoneTimed ==
    ASSUME TInv, PhInv', NEW s, phKind # "ipt" => Timed(s.rules), NEW code, PhDone(s, code)
    PROVE  TInv' /\ phReply'.who = "host"
  <1>1. rules' = s.rules /\ phKind' = phKind /\ phReply'.who = "host"
    BY DEF PhDone
  <1>2. phKind' # "ipt" => Timed(rules)'
    BY <1>1 DEF Timed
  <1> QED  BY <1>1, <1>2 DEF TInv

\* What a step does to the rules, and what a clean-up that nothing stops leaves
Cleaned == phReply'.who = "loop" /\ phReply'.ok =>
              /\ \A t \in {x.ts : x \in Members(Open')} : t > now
              /\ Complete(Open', phReply'.ts)

\* Every step keeps the invariant, and the clean-up is complete.
LEMMA StepTimed ==
    ASSUME TInv, PhNext
    PROVE  TInv' /\ Cleaned
  <1>1. PhInv'
    BY NextPhInv DEF TInv
  <1>2. phKind # "ipt" => Timed(PhState.rules)
    BY StateFormed DEF TInv
  <1>3. Formed(PhState)
    BY StateFormed
  <1>4. ASSUME NEW s, NEW code, phKind # "ipt" => Timed(s.rules), PhDone(s, code)
        PROVE  TInv' /\ Cleaned
    BY <1>1, <1>4, DoneTimed DEF Cleaned
  <1>5. (\E any : PhDone(PhState, any)) => TInv' /\ Cleaned
    BY <1>2, <1>4
  <1>6. ASSUME NEW c \in Senders, NEW h \in Holes, NEW t \in Leases \cup {0}, NEW f \in PhFails,
               AddPinhole(c, h, t, f)
        PROVE  TInv' /\ Cleaned
    <2> DEFINE out == AddInbound(PhState, h, t, f)
               code == CASE out.r = 1 -> 200 [] out.r = -1 -> 701 [] OTHER -> 501
    <2>1. t \in Int
      BY PinholesAssumption
    <2>2. (\E any : PhDone(PhState, any)) \/ PhDone(out.s, code)
      BY <1>6 DEF AddPinhole
    <2>3. phKind # "ipt" => Timed(out.s.rules)
      BY <1>2, <1>3, <2>1, InboundTimed
    <2> HIDE DEF out, code
    <2> QED  BY <1>4, <1>5, <2>2, <2>3
  <1>7. ASSUME NEW c \in Senders, NEW u \in 1 .. UidTop, NEW t \in Leases \cup {0},
               NEW f \in PhFails, UpdatePinhole(c, u, t, f)
        PROVE  TInv' /\ Cleaned
    <2> DEFINE out == UpdateInbound(PhState, u, t, f)
               code == CASE out.r = -1 -> 704 [] out.r < -1 -> 501 [] OTHER -> 200
    <2>1. t \in Int
      BY PinholesAssumption
    <2>2. (\E any : PhDone(PhState, any)) \/ PhDone(out.s, code)
      BY <1>7 DEF UpdatePinhole
    <2>3. phKind # "ipt" => Timed(out.s.rules)
      BY <1>2, <1>3, <2>1, InboundTimed
    <2> HIDE DEF out, code
    <2> QED  BY <1>4, <1>5, <2>2, <2>3
  <1>8. ASSUME NEW c \in Senders, NEW u \in 1 .. UidTop, NEW f \in PhFails,
               DeletePinhole(c, u, f)
        PROVE  TInv' /\ Cleaned
    <2> DEFINE out == DeleteInbound(PhState, u, f)
               code == IF out.r < 0 THEN 501 ELSE 200
    <2>1. (\E any : PhDone(PhState, any)) \/ PhDone(out.s, code)
      BY <1>8 DEF DeletePinhole
    <2>2. phKind # "ipt" => Timed(out.s.rules)
      BY <1>2, <1>3, InboundTimed
    <2> HIDE DEF out, code
    <2> QED  BY <1>4, <1>5, <2>1, <2>2
  <1>9. CASE \/ \E c \in Senders, u \in 1 .. UidTop : CheckPinholeWorking(c, u)
             \/ \E c \in Senders, u \in 1 .. UidTop : GetPinholePackets(c, u)
    <2>1. \E any : PhDone(PhState, any)
      BY <1>9 DEF CheckPinholeWorking, GetPinholePackets
    <2> QED  BY <1>5, <2>1
  <1>10. ASSUME NEW h \in Holes, NEW t \in Leases, NEW f \in PhFails, CreatePCPMap_FW(h, t, f)
         PROVE  TInv' /\ Cleaned
    <2> DEFINE uid == FindInbound(PhState, h)
               up == UpdateInbound(PhState, uid, t, f)
               add == AddInbound(PhState, h, t, f)
               out == IF uid >= 0 THEN up ELSE add
               code == IF out.r >= 0 THEN 200 ELSE 501
    <2>1. t \in Int
      BY PinholesAssumption
    <2>2. PhDone(out.s, code)
      BY <1>10 DEF CreatePCPMap_FW
    <2>3. phKind # "ipt" => Timed(up.s.rules) /\ Timed(add.s.rules)
      BY <1>2, <1>3, <2>1, InboundTimed
    <2> HIDE DEF up, add, uid, code
    <2>4. phKind # "ipt" => Timed(out.s.rules)
      BY <2>3
    <2> HIDE DEF out
    <2> QED  BY <1>4, <2>2, <2>4
  <1>11. ASSUME NEW n \in 0 .. MaxHoles, CleanPinholes(n) PROVE TInv' /\ Cleaned
    <2> DEFINE out == CleanExpired(PhState, n)
    <2>1. /\ rules' = out.s.rules /\ list' = out.s.list /\ phKind' = phKind
          /\ phReply'.ok = (n = 0) /\ phReply'.ts = out.ts
      BY <1>11 DEF CleanPinholes
    <2>2. /\ phKind # "ipt" => Timed(out.s.rules)
          /\ n = 0 => Complete(IF phKind = "ipt" THEN out.s.list ELSE out.s.rules, out.ts)
      BY Cleans
    <2> HIDE DEF out
    <2>3. phKind' # "ipt" => Timed(rules)'
      BY <2>1, <2>2 DEF Timed
    <2>4. TInv'
      BY <1>1, <2>1, <2>3 DEF TInv
    <2>5. Open' = IF phKind = "ipt" THEN out.s.list ELSE out.s.rules
      BY <2>1 DEF Open
    <2>6. phReply'.ok => Complete(Open', phReply'.ts)
      BY <2>1, <2>2, <2>5
    <2> QED  BY <2>4, <2>6 DEF Cleaned, Complete
  <1>12. CASE PhTick
    <2>1. rules' = rules /\ phKind' = phKind /\ phReply'.who = "host"
      BY <1>12 DEF PhTick
    <2>2. phKind' # "ipt" => Timed(rules)'
      BY <2>1 DEF TInv, Timed
    <2> QED  BY <1>1, <2>1, <2>2 DEF TInv, Cleaned
  <1> QED  BY <1>6, <1>7, <1>8, <1>9, <1>10, <1>11, <1>12 DEF PhNext

\* Whichever back end the daemon is built for, a clean-up of the pinholes in which
\* the kernel refuses nothing leaves no pinhole whose lease has ended, and
\* next_timestamp is the end of the next of the leases that are left.
THEOREM CleansAll == PhSpec => CleanComplete
  <1>1. PhInit => TInv
    <2> SUFFICES ASSUME PhInit PROVE TInv
      OBVIOUS
    <2>1. rules = <<>> /\ phKind \in {"ipt", "pf", "nft"}
      BY PinholesAssumption DEF PhInit
    <2>2. rules \in Seq({})
      BY <2>1
    <2> QED  BY <2>1, <2>2, InitPhInv DEF TInv, Timed
  <1>2. TInv /\ [PhNext]_phvars => TInv'
    <2>1. CASE PhNext
      BY <2>1, StepTimed
    <2>2. TInv /\ UNCHANGED phvars => TInv'
      <3> SUFFICES ASSUME TInv, UNCHANGED phvars PROVE TInv'
        OBVIOUS
      <3>1. PhInv'
        BY NextPhInv DEF TInv
      <3>2. phKind' = phKind /\ rules' = rules
        BY DEF phvars
      <3>3. phKind' # "ipt" => Timed(rules)'
        BY <3>2 DEF TInv, Timed
      <3> QED  BY <3>1, <3>2, <3>3 DEF TInv
    <2> QED  BY <2>1, <2>2
  <1> DEFINE A == phReply'.who = "loop" /\ phReply'.ok =>
                    LET left == {Open'[i].ts : i \in 1 .. Len(Open')}
                    IN  /\ \A t \in left : t > now
                        /\ phReply'.ts = IF left = {} THEN 0 ELSE Min(left)
  <1>3. Cleaned => A
    <2>1. {Open'[i].ts : i \in 1 .. Len(Open')} = {x.ts : x \in Members(Open')}
      BY DEF Members
    <2> QED  BY <2>1 DEF Cleaned, Complete
  <1>4. TInv /\ [PhNext]_phvars => [A]_phvars
    <2> HIDE DEF A
    <2> QED  BY <1>3, StepTimed
  <1> QED  BY <1>1, <1>2, <1>4, PTL DEF PhSpec, CleanComplete

=============================================================================
