--------------------------- MODULE BackEndsProofs ---------------------------
(***************************************************************************)
(* Proofs about the back ends with a list of redirections (BsdRdr), as the *)
(* redirection layer uses them (BackEnds): each of them implements the     *)
(* table of PortMaps, step by step.                                        *)
(*                                                                         *)
(* No port is in the list twice (OnceEach), so that it does not matter     *)
(* whether a search ends with the first rule or the last; what a call does *)
(* to the list is then what it does to the table that is read from it.     *)
(***************************************************************************)
EXTENDS BackEnds, CallsProofs

\* The target of a rule, and of a port in a list of rules
TargetOf(m) == [iaddr |-> m.iaddr, iport |-> m.iport]

TargetIn(q, k) == IF FirstOf(q, k) = 0 THEN NoTarget ELSE TargetOf(q[FirstOf(q, k)])

TableOf(q) == [k \in Keys |-> TargetIn(q, k)]

\* A list of mappings, one for each port at most
OnceEach(q) == /\ q \in Seq(Mapping)
               /\ \A i, j \in 1 .. Len(q) : Key(q[i]) = Key(q[j]) => i = j

\* A state of one of these back ends, which keep no list of what the kernel has
IsState(s) == /\ s = [rdr |-> s.rdr, filter |-> s.filter, nat |-> s.nat, stamps |-> s.stamps,
                      chain |-> s.chain, cache |-> s.cache]
              /\ OnceEach(s.rdr)
              /\ \A c \in Chains : ~ s.cache[c].valid

-----------------------------------------------------------------------------
(***************************************************************************)
(* Searches.                                                               *)
(***************************************************************************)
LEMMA MappingTyped ==
    ASSUME NEW m \in Mapping
    PROVE  /\ Key(m) \in Keys /\ TargetOf(m) \in [iaddr : Iaddrs, iport : Iports]
           /\ TargetOf(m) # NoTarget
           /\ m.iaddr \in Iaddrs /\ m.iport \in Iports /\ m.rhost \in Rhosts
           /\ m.eport \in Nat \ {0} /\ m.proto \in {"TCP", "UDP"}
           /\ m = [eport |-> m.eport, proto |-> m.proto, iaddr |-> m.iaddr, iport |-> m.iport,
                   rhost |-> m.rhost]
  <1>1. PICK k \in Keys, a \in Iaddrs, p \in Iports, h \in Rhosts :
          m = [eport |-> k.eport, proto |-> k.proto, iaddr |-> a, iport |-> p, rhost |-> h]
    BY DEF Mapping
  <1>2. k \in [eport : Nat \ {0}, proto : {"TCP", "UDP"}]
    BY BackEndsAssumption
  <1>3. Key(m) = k
    BY <1>1, <1>2 DEF Key
  <1>4. TargetOf(m) \in [iaddr : Iaddrs, iport : Iports]
    BY <1>1 DEF TargetOf
  <1>5. TargetOf(m) # NoTarget
    BY <1>4, BackEndsAssumption
  <1> QED  BY <1>1, <1>2, <1>3, <1>4, <1>5

\* The first rule for a port is there if one is.
LEMMA FirstFound ==
    ASSUME NEW T, NEW q \in Seq(T), NEW k
    PROVE  /\ FirstOf(q, k) \in 0 .. Len(q)
           /\ FirstOf(q, k) # 0 => Key(q[FirstOf(q, k)]) = k
           /\ FirstOf(q, k) = 0 => \A i \in 1 .. Len(q) : Key(q[i]) # k
  <1> DEFINE I == {i \in 1 .. Len(q) : Key(q[i]) = k}
  <1>1. FirstOf(q, k) = IF I # {} THEN Min(I) ELSE 0
    BY DEF FirstOf, SelectInSeq
  <1>2. CASE I = {}
    BY <1>1, <1>2
  <1>3. CASE I # {}
    <2>0. I \subseteq Nat
      OBVIOUS
    <2>1. PICK m \in I : \A j \in I : m <= j
      <3> HIDE DEF I
      <3> QED  BY <1>3, <2>0, LeastNatural
    <2>2. Min(I) = CHOOSE x \in I : \A y \in I : x <= y
      BY DEF Min
    <2>3. Min(I) \in I
      BY <2>1, <2>2
    <2> QED  BY <1>1, <1>3, <2>3
  <1> QED  BY <1>2, <1>3

\* Where there is one rule at most, it is the first and the last.
LEMMA OneFound ==
    ASSUME NEW q, OnceEach(q), NEW k
    PROVE  /\ LastOf(q, k) = FirstOf(q, k)
           /\ \A i \in 1 .. Len(q) : Key(q[i]) = k => FirstOf(q, k) = i
  <1>1. q \in Seq(Mapping)
    BY DEF OnceEach
  <1> DEFINE I == {i \in 1 .. Len(q) : Key(q[i]) = k}
  <1>2. LastOf(q, k) = IF I # {} THEN Max(I) ELSE 0
    BY DEF LastOf, SelectLastInSeq
  <1>3. /\ FirstOf(q, k) \in 0 .. Len(q)
        /\ FirstOf(q, k) # 0 => Key(q[FirstOf(q, k)]) = k
        /\ FirstOf(q, k) = 0 => \A i \in 1 .. Len(q) : Key(q[i]) # k
    BY <1>1, FirstFound
  <1>4. \A i \in 1 .. Len(q) : Key(q[i]) = k => FirstOf(q, k) = i
    BY <1>1, <1>3 DEF OnceEach
  <1>5. CASE I = {}
    BY <1>1, <1>2, <1>3, <1>5
  <1>6. CASE I # {}
    <2>1. PICK m \in I : TRUE
      BY <1>6
    <2>2. m \in Int /\ I = {m}
      BY <1>4
    <2>3. Max(I) = CHOOSE x \in I : \A y \in I : x >= y
      BY DEF Max
    <2>4. Max(I) = m
      BY <2>2, <2>3
    <2> QED  BY <1>2, <1>4, <1>6, <2>1, <2>4
  <1> QED  BY <1>4, <1>5, <1>6

\* The target of a port is that of its rule, and none if there is no rule.
LEMMA TargetFound ==
    ASSUME NEW q, OnceEach(q), NEW k
    PROVE  /\ \A i \in 1 .. Len(q) : Key(q[i]) = k => TargetIn(q, k) = TargetOf(q[i])
           /\ (\A i \in 1 .. Len(q) : Key(q[i]) # k) => TargetIn(q, k) = NoTarget
           /\ TargetIn(q, k) = NoTarget <=> FirstOf(q, k) = 0
           /\ FirstOf(q, k) # 0 =>
                 /\ q[FirstOf(q, k)] \in Mapping /\ Key(q[FirstOf(q, k)]) = k
                 /\ TargetIn(q, k) = TargetOf(q[FirstOf(q, k)])
                 /\ FirstOf(q, k) \in 1 .. Len(q)
  <1>1. q \in Seq(Mapping)
    BY DEF OnceEach
  <1> DEFINE f == FirstOf(q, k)
  <1>2. /\ f \in 0 .. Len(q)
        /\ f # 0 => Key(q[f]) = k
        /\ f = 0 => \A i \in 1 .. Len(q) : Key(q[i]) # k
    BY <1>1, FirstFound
  <1>3. f # 0 => f \in 1 .. Len(q) /\ q[f] \in Mapping
    BY <1>1, <1>2
  <1>4. \A i \in 1 .. Len(q) : Key(q[i]) = k => f = i
    BY OneFound
  <1>5. TargetIn(q, k) = IF f = 0 THEN NoTarget ELSE TargetOf(q[f])
    BY DEF TargetIn
  <1> HIDE DEF f
  <1>6. f # 0 => TargetOf(q[f]) # NoTarget
    BY <1>3, MappingTyped
  <1>7. \A i \in 1 .. Len(q) : i # 0
    BY <1>1
  <1> QED  BY <1>2, <1>3, <1>4, <1>5, <1>6, <1>7 DEF f

-----------------------------------------------------------------------------
(***************************************************************************)
(* What becomes of the list.                                               *)
(***************************************************************************)
\* A rule for a port without one is added.
LEMMA RuleAdded ==
    ASSUME NEW q, OnceEach(q), NEW m \in Mapping, FirstOf(q, Key(m)) = 0
    PROVE  /\ OnceEach(Append(q, m))
           /\ TableOf(Append(q, m)) = [TableOf(q) EXCEPT ![Key(m)] = TargetOf(m)]
  <1> DEFINE r == Append(q, m)
             n == Len(q)
  <1>1. q \in Seq(Mapping) /\ n \in Nat
    BY DEF OnceEach
  <1>2. r \in Seq(Mapping) /\ Len(r) = n + 1 /\ r[n + 1] = m /\ \A i \in 1 .. n : r[i] = q[i]
    BY <1>1
  <1>3. \A i \in 1 .. n : Key(q[i]) # Key(m)
    BY <1>1, FirstFound
  <1> HIDE DEF r
  <1>4. \A i \in 1 .. n + 1 : i = n + 1 \/ i \in 1 .. n
    BY <1>1
  <1>5. OnceEach(r)
    <2>1. ASSUME NEW i \in 1 .. n + 1, NEW j \in 1 .. n + 1, Key(r[i]) = Key(r[j]) PROVE i = j
      BY <1>1, <1>2, <1>3, <1>4, <2>1 DEF OnceEach
    <2> QED  BY <1>2, <2>1 DEF OnceEach
  <1>6. ASSUME NEW k \in Keys
        PROVE  TargetIn(r, k) = IF k = Key(m) THEN TargetOf(m) ELSE TargetIn(q, k)
    <2>1. CASE k = Key(m)
      <3>1. n + 1 \in 1 .. Len(r) /\ Key(r[n + 1]) = k
        BY <1>1, <1>2, <2>1
      <3> QED  BY <1>2, <1>5, <2>1, <3>1, TargetFound
    <2>2. CASE k # Key(m) /\ FirstOf(q, k) = 0
      <3>1. \A i \in 1 .. n : Key(q[i]) # k
        BY <1>1, <2>2, FirstFound
      <3>2. \A i \in 1 .. Len(r) : Key(r[i]) # k
        BY <1>2, <1>4, <2>2, <3>1
      <3> QED  BY <1>5, <2>2, <3>1, <3>2, TargetFound
    <2>3. CASE k # Key(m) /\ FirstOf(q, k) # 0
      <3>1. PICK i \in 1 .. n : i = FirstOf(q, k) /\ Key(q[i]) = k /\ TargetIn(q, k) = TargetOf(q[i])
        BY <2>3, TargetFound
      <3>2. i \in 1 .. Len(r) /\ r[i] = q[i]
        BY <1>1, <1>2
      <3> QED  BY <1>5, <2>3, <3>1, <3>2, TargetFound
    <2> QED  BY <2>1, <2>2, <2>3
  <1>7. TableOf(r) = [TableOf(q) EXCEPT ![Key(m)] = TargetOf(m)]
    BY <1>6 DEF TableOf
  <1> QED  BY <1>5, <1>7 DEF r

\* The rule of a port is removed.
LEMMA RuleRemoved ==
    ASSUME NEW q, OnceEach(q), NEW k, FirstOf(q, k) # 0
    PROVE  /\ OnceEach(RemoveAt(q, FirstOf(q, k)))
           /\ FirstOf(RemoveAt(q, FirstOf(q, k)), k) = 0
           /\ TableOf(RemoveAt(q, FirstOf(q, k))) = [TableOf(q) EXCEPT ![k] = NoTarget]
  <1> DEFINE f == FirstOf(q, k)
             r == RemoveAt(q, f)
             n == Len(q)
  <1>1. q \in Seq(Mapping) /\ n \in Nat
    BY DEF OnceEach
  <1>2. f \in 1 .. n /\ Key(q[f]) = k
    BY TargetFound
  <1>3. /\ r \in Seq(Mapping) /\ Len(r) = n - 1
        /\ \A j \in 1 .. n - 1 : r[j] = IF j < f THEN q[j] ELSE q[j + 1]
    BY <1>1, <1>2, RemovedAt
  <1>4. \A j \in 1 .. n : Key(q[j]) = k => j = f
    BY <1>1, <1>2 DEF OnceEach
  <1> HIDE DEF f, r
  <1> DEFINE from(j) == IF j < f THEN j ELSE j + 1
  <1>5. ASSUME NEW j \in 1 .. n - 1 PROVE from(j) \in 1 .. n /\ from(j) # f /\ r[j] = q[from(j)]
    BY <1>1, <1>2, <1>3
  <1>6. \A i, j \in 1 .. n - 1 : from(i) = from(j) => i = j
    BY <1>1, <1>2
  <1>7. \A i \in 1 .. n : i # f => \E j \in 1 .. n - 1 : from(j) = i
    <2> TAKE i \in 1 .. n
    <2>1. CASE i < f
      <3>1. i \in 1 .. n - 1 /\ from(i) = i
        BY <1>1, <1>2, <2>1
      <3> QED  BY <3>1
    <2>2. CASE i > f
      <3>1. i - 1 \in 1 .. n - 1 /\ from(i - 1) = i
        BY <1>1, <1>2, <2>2
      <3> QED  BY <3>1
    <2> QED  BY <1>1, <1>2, <2>1, <2>2
  <1> HIDE DEF from
  <1>8. OnceEach(r)
    <2>1. ASSUME NEW i \in 1 .. n - 1, NEW j \in 1 .. n - 1, Key(r[i]) = Key(r[j]) PROVE i = j
      <3>1. Key(q[from(i)]) = Key(q[from(j)])
        BY <1>5, <2>1
      <3>2. from(i) = from(j)
        BY <1>5, <3>1 DEF OnceEach
      <3> QED  BY <1>6, <3>2
    <2> QED  BY <1>3, <2>1 DEF OnceEach
  <1>9. \A j \in 1 .. n - 1 : Key(r[j]) # k
    BY <1>4, <1>5
  <1>10. TargetIn(r, k) = NoTarget /\ FirstOf(r, k) = 0
    BY <1>3, <1>8, <1>9, TargetFound
  <1>11. ASSUME NEW x \in Keys, x # k PROVE TargetIn(r, x) = TargetIn(q, x)
    <2>1. CASE FirstOf(q, x) = 0
      <3>1. \A i \in 1 .. n : Key(q[i]) # x
        BY <1>1, <2>1, FirstFound
      <3>2. \A j \in 1 .. Len(r) : Key(r[j]) # x
        BY <1>3, <1>5, <3>1
      <3> QED  BY <1>8, <3>1, <3>2, TargetFound
    <2>2. CASE FirstOf(q, x) # 0
      <3>1. PICK i \in 1 .. n : i = FirstOf(q, x) /\ Key(q[i]) = x /\ TargetIn(q, x) = TargetOf(q[i])
        BY <2>2, TargetFound
      <3>2. i # f
        BY <1>2, <1>11, <3>1
      <3>3. PICK j \in 1 .. n - 1 : from(j) = i
        BY <1>7, <3>2
      <3>4. j \in 1 .. Len(r) /\ r[j] = q[i]
        BY <1>3, <1>5, <3>3
      <3> QED  BY <1>8, <3>1, <3>4, TargetFound
    <2> QED  BY <2>1, <2>2
  <1>12. TableOf(r) = [TableOf(q) EXCEPT ![k] = NoTarget]
    BY <1>10, <1>11 DEF TableOf
  <1> QED  BY <1>8, <1>10, <1>12 DEF r, f

-----------------------------------------------------------------------------
\* A length in pieces.
LEMMA Pieces ==
    ASSUME NEW c \in Nat \ {0}, NEW n \in Nat
    PROVE  /\ n \div c \in Nat /\ (n \div c) * c <= n /\ n < (n \div c + 1) * c
           /\ n - (n \div c) * c # c
           /\ \A i \in 1 .. n \div c : i * c <= n /\ (i - 1) * c = i * c - c
  <1>1. PICK d \in Nat : d = n \div c /\ d * c <= n /\ n < d * c + c
    OBVIOUS
  <1>2. (d + 1) * c = d * c + c
    OBVIOUS
  <1>3. ASSUME NEW i \in 1 .. d PROVE i * c <= n /\ (i - 1) * c = i * c - c
    <2>1. i * c <= d * c
      OBVIOUS
    <2>2. i * c \in Nat /\ d * c \in Nat
      OBVIOUS
    <2> QED  BY <1>1, <2>1, <2>2
  <1> QED  BY <1>1, <1>2, <1>3

\* ipfw: the pieces are all the rules, whatever their size.
LEMMA AllFetched ==
    ASSUME NEW s, s.rdr \in Seq(Mapping)
    PROVE  Front(FetchRuleset(s, Chunk)) = s.rdr
  <1> DEFINE rules == IpfwRules(s)
             L == Len(rules)
             D == L \div Chunk
             Whole(n) == n * Chunk
             Upto(n) == IF Whole(n) > L THEN L ELSE Whole(n)
             Last_(n) == /\ Upto(n) - Upto(n - 1) # Chunk
                         /\ \A i \in 1 .. n - 1 : Upto(i) - Upto(i - 1) = Chunk
             turns == CHOOSE n \in 1 .. D + 1 : Last_(n)
  <1>1. Chunk \in Nat /\ Chunk >= 1
    BY BackEndsAssumption
  <1>2. rules \in Seq(Mapping \cup {Default}) /\ L = Len(s.rdr) + 1 /\ L \in Nat
        /\ \A i \in 1 .. Len(s.rdr) : rules[i] = s.rdr[i]
    BY DEF IpfwRules
  <1>3. FetchRuleset(s, Chunk) = SubSeq(rules, 1, Upto(turns))
    BY DEF FetchRuleset
  <1> HIDE DEF rules
  <1>4. /\ D \in Nat /\ D * Chunk <= L /\ L < (D + 1) * Chunk /\ L - D * Chunk # Chunk
        /\ \A i \in 1 .. D : i * Chunk <= L /\ (i - 1) * Chunk = i * Chunk - Chunk
    <2> HIDE DEF L
    <2>1. Chunk \in Nat \ {0} /\ L \in Nat
      BY <1>1, <1>2
    <2> QED  BY <2>1, Pieces
  <1> HIDE DEF D, L
  <1>p. \A i \in 0 .. D + 1 : i * Chunk \in Nat
    BY <1>1, <1>4
  <1>5. Last_(D + 1)
    <2>1. Upto(D + 1) = L /\ Upto(D) = D * Chunk
      BY <1>1, <1>2, <1>4, <1>p
    <2>2. Upto(D + 1) - Upto(D) # Chunk
      BY <1>4, <2>1
    <2>3. ASSUME NEW i \in 1 .. D PROVE Upto(i) - Upto(i - 1) = Chunk
      <3>0. i \in 0 .. D + 1
        BY <1>4
      <3>1. PICK x \in Nat : x = i * Chunk
        BY <1>p, <3>0
      <3>2. x <= L /\ (i - 1) * Chunk = x - Chunk
        BY <1>4, <3>1
      <3>3. Whole(i) = x /\ Whole(i - 1) = x - Chunk
        BY <3>1, <3>2
      <3> HIDE DEF Whole
      <3>4. Upto(i) = x /\ Upto(i - 1) = x - Chunk
        BY <1>1, <1>2, <3>2, <3>3
      <3> HIDE DEF Upto
      <3> QED  BY <1>1, <3>4
    <2>4. (D + 1) - 1 = D
      BY <1>4
    <2> HIDE DEF Upto
    <2> QED  BY <2>2, <2>3, <2>4
  <1>6. turns \in 1 .. D + 1 /\ Last_(turns)
    <2>1. D + 1 \in 1 .. D + 1
      BY <1>4
    <2> HIDE DEF Last_
    <2> QED  BY <1>5, <2>1
  <1> HIDE DEF turns
  <1>7. Upto(turns) = L
    <2> SUFFICES ASSUME Upto(turns) # L PROVE FALSE
      OBVIOUS
    <2>1. turns \in Nat /\ turns * Chunk <= L
      BY <1>1, <1>2, <1>4, <1>6
    <2>2. (turns - 1) * Chunk = turns * Chunk - Chunk
      BY <1>1, <2>1
    <2>3. Upto(turns) = turns * Chunk /\ Upto(turns - 1) = turns * Chunk - Chunk
      BY <1>1, <1>2, <2>1, <2>2
    <2> QED  BY <1>1, <1>6, <2>1, <2>3
  <1> HIDE DEF Upto, Last_
  <1>8. FetchRuleset(s, Chunk) = SubSeq(rules, 1, L)
    BY <1>3, <1>7
  <1>9. SubSeq(rules, 1, L) = rules
    BY <1>2, SubSeqFull DEF L
  <1>10. Front(rules) = s.rdr
    <2>1. Front(rules) = SubSeq(rules, 1, Len(s.rdr))
      BY <1>2 DEF Front, L
    <2>2. SubSeq(Append(s.rdr, Default), 1, Len(s.rdr)) = s.rdr
      OBVIOUS
    <2> QED  BY <2>1, <2>2 DEF rules, IpfwRules
  <1> QED  BY <1>8, <1>9, <1>10

-----------------------------------------------------------------------------
(***************************************************************************)
(* What a call does to the table: `out' is the state it leaves and its     *)
(* answer.                                                                 *)
(***************************************************************************)
\* The list of rules stays
KeepsRules(s, t) == IsState(t) /\ t.rdr = s.rdr

\* The rule of k goes
TakesRule(s, t, k) ==
    IsState(t) /\ FirstOf(t.rdr, k) = 0 /\ TableOf(t.rdr) = [TableOf(s.rdr) EXCEPT ![k] = NoTarget]

\* The rule m is added for a port without one
AddsRule(s, t, m) ==
    IsState(t) /\ t.rdr = Append(s.rdr, m)

\* What a change of the other parts of a state leaves of the rules.
LEMMA StateFields ==
    ASSUME NEW s, IsState(s), NEW x
    PROVE  /\ KeepsRules(s, s)
           /\ KeepsRules(s, [s EXCEPT !.filter = x]) /\ KeepsRules(s, [s EXCEPT !.nat = x])
           /\ KeepsRules(s, [s EXCEPT !.stamps = x])
           /\ OnceEach(x) => IsState([s EXCEPT !.rdr = x]) /\ [s EXCEPT !.rdr = x].rdr = x
  <1> DEFINE r == s.rdr
             f == s.filter
             n == s.nat
             t == s.stamps
             c == s.chain
             h == s.cache
  <1>1. s = [rdr |-> r, filter |-> f, nat |-> n, stamps |-> t, chain |-> c, cache |-> h]
        /\ OnceEach(r) /\ \A d \in Chains : ~ h[d].valid
    BY DEF IsState
  <1> HIDE DEF r, f, n, t, c, h
  <1> QED  BY <1>1 DEF IsState, KeepsRules

\* The ends of the leases are no rules.
LEMMA StampsKept ==
    ASSUME NEW s, IsState(s), NEW k, NEW time
    PROVE  KeepsRules(s, AddStamp(s, k, time)) /\ KeepsRules(s, DelStamp(s, k))
  BY StateFields DEF AddStamp, DelStamp

\* One change after another that keeps the rules.
LEMMA KeptTwice ==
    ASSUME NEW s, NEW t, NEW u, NEW k, NEW m
    PROVE  /\ KeepsRules(s, t) /\ KeepsRules(t, u) => KeepsRules(s, u)
           /\ TakesRule(s, t, k) /\ KeepsRules(t, u) => TakesRule(s, u, k)
           /\ KeepsRules(s, t) /\ TakesRule(t, u, k) => TakesRule(s, u, k)
           /\ AddsRule(s, t, m) /\ KeepsRules(t, u) => AddsRule(s, u, m)
           /\ KeepsRules(s, t) /\ AddsRule(t, u, m) => AddsRule(s, u, m)
  BY DEF KeepsRules, TakesRule, AddsRule

\* Append() of a rule for a free port.
LEMMA RuleAppended ==
    ASSUME NEW s, IsState(s), NEW m \in Mapping, FirstOf(s.rdr, Key(m)) = 0
    PROVE  AddsRule(s, [s EXCEPT !.rdr = Append(@, m)], m)
  <1>1. OnceEach(Append(s.rdr, m))
    BY RuleAdded DEF IsState
  <1> QED  BY <1>1, StateFields DEF AddsRule

\* RemoveAt() of the rule of a port.
LEMMA RuleTaken ==
    ASSUME NEW s, IsState(s), NEW k, FirstOf(s.rdr, k) # 0
    PROVE  TakesRule(s, [s EXCEPT !.rdr = RemoveAt(@, FirstOf(s.rdr, k))], k)
  <1> DEFINE r == RemoveAt(s.rdr, FirstOf(s.rdr, k))
  <1>1. OnceEach(r) /\ FirstOf(r, k) = 0 /\ TableOf(r) = [TableOf(s.rdr) EXCEPT ![k] = NoTarget]
    BY RuleRemoved DEF IsState
  <1>2. [s EXCEPT !.rdr = RemoveAt(@, FirstOf(s.rdr, k))] = [s EXCEPT !.rdr = r]
    OBVIOUS
  <1> HIDE DEF r
  <1> QED  BY <1>1, <1>2, StateFields DEF TakesRule

-----------------------------------------------------------------------------
\* pf
LEMMA PfNatKept ==
    ASSUME NEW s, IsState(s), NEW m, NEW fails
    PROVE  KeepsRules(s, PfAddNat(s, m, fails)) /\ KeepsRules(s, PfDeleteNat(s, m, fails))
  BY StateFields DEF PfAddNat, PfDeleteNat

\* add_filter_rule2() and delete_filter_rule() of pf leave the redirections alone.
LEMMA PfFilterKept ==
    ASSUME NEW s, IsState(s), NEW m, NEW fails
    PROVE  /\ KeepsRules(s, PfAddFilter(s, m, fails).s) /\ PfAddFilter(s, m, fails).r \in {-1, 0}
           /\ "filter" \notin fails => PfAddFilter(s, m, fails).r = 0
           /\ KeepsRules(s, PfDeleteFilter(s, m, fails).s)
           /\ PfDeleteFilter(s, m, fails).r \in {-1, 0}
  BY StateFields DEF PfAddFilter, PfDeleteFilter, Out

\* A redirection is added, or the call fails and changes nothing
AddIs(s, out, m, fails) ==
    /\ \/ out.r = 0 /\ AddsRule(s, out.s, m)
       \/ out.r < 0 /\ out.r = -1 /\ out.s = s
    /\ "rdr" \notin fails => out.r = 0

\* add_redirect_rule2() of pf, with the rule for port triggering.
LEMMA PfAdds ==
    ASSUME NEW s, IsState(s), NEW m \in Mapping, FirstOf(s.rdr, Key(m)) = 0, NEW time, NEW fails
    PROVE  AddIs(s, PfAddRedirect(s, m, time, fails), m, fails)
  <1> DEFINE added == [s EXCEPT !.rdr = Append(@, m)]
             timed == IF time > 0 THEN AddStamp(added, Key(m), time) ELSE added
  <1>1. AddsRule(s, added, m) /\ IsState(added)
    BY RuleAppended DEF AddsRule
  <1>2. PfAddRedirect(s, m, time, fails)
          = IF "rdr" \in fails THEN Out(s, -1) ELSE Out(PfAddNat(timed, m, fails), 0)
    BY DEF PfAddRedirect
  <1> HIDE DEF added
  <1>3. AddsRule(s, timed, m) /\ IsState(timed)
    <2>1. KeepsRules(added, AddStamp(added, Key(m), time))
      BY <1>1, StampsKept
    <2>2. AddsRule(s, AddStamp(added, Key(m), time), m)
      BY <1>1, <2>1, KeptTwice
    <2> QED  BY <1>1, <2>1, <2>2 DEF KeepsRules
  <1> HIDE DEF timed
  <1>4. AddsRule(s, PfAddNat(timed, m, fails), m)
    BY <1>3, PfNatKept, KeptTwice
  <1> QED  BY <1>2, <1>4 DEF AddIs, Out

\* A redirection is removed, or the call fails and changes no rule
DeleteIs(s, out, k, fails) ==
    /\ \/ out.r = 0 /\ TakesRule(s, out.s, k) /\ FirstOf(s.rdr, k) # 0
       \/ out.r < 0 /\ out.r = -1 /\ KeepsRules(s, out.s)
    /\ FirstOf(s.rdr, k) # 0 /\ fails \cap {"get", "unrdr"} = {} => out.r = 0
    /\ FirstOf(s.rdr, k) = 0 => out.r = -1

\* delete_redirect_rule() of pf
LEMMA PfDeletes ==
    ASSUME NEW s, IsState(s), NEW k, NEW fails
    PROVE  DeleteIs(s, PfDeleteRedirect(s, k, fails), k, fails)
  <1> DEFINE gone == [s EXCEPT !.rdr = Without(@, FirstOf(@, k))]
  <1>1. PfDeleteRedirect(s, k, fails)
          = IF FirstOf(s.rdr, k) = 0 \/ fails \cap {"get", "unrdr"} # {} THEN Out(s, -1)
            ELSE Out(DelStamp(gone, k), 0)
    BY DEF PfDeleteRedirect
  <1>2. KeepsRules(s, s)
    BY StateFields
  <1>3. CASE FirstOf(s.rdr, k) = 0 \/ fails \cap {"get", "unrdr"} # {}
    BY <1>1, <1>2, <1>3 DEF DeleteIs, Out
  <1>4. CASE FirstOf(s.rdr, k) # 0 /\ fails \cap {"get", "unrdr"} = {}
    <2>1. gone = [s EXCEPT !.rdr = RemoveAt(@, FirstOf(s.rdr, k))]
      BY <1>4 DEF Without
    <2>2. TakesRule(s, gone, k) /\ IsState(gone)
      BY <1>4, <2>1, RuleTaken DEF TakesRule
    <2> HIDE DEF gone
    <2>3. TakesRule(s, DelStamp(gone, k), k)
      BY <2>2, StampsKept, KeptTwice
    <2> QED  BY <1>1, <1>4, <2>3 DEF DeleteIs, Out
  <1> QED  BY <1>3, <1>4

\* The rule of k is replaced, lost or kept: its target is u afterwards
TurnsTo(s, t, k, u) == IsState(t) /\ TableOf(t.rdr) = [TableOf(s.rdr) EXCEPT ![k] = u]

\* What becomes of the table when rules are kept, taken or added.
LEMMA Turned ==
    ASSUME NEW s, NEW t, NEW v, NEW m \in Mapping, IsState(s)
    PROVE  /\ KeepsRules(s, t) => TurnsTo(s, t, Key(m), TableOf(s.rdr)[Key(m)])
           /\ TakesRule(s, t, Key(m)) => TurnsTo(s, t, Key(m), NoTarget)
           /\ AddsRule(s, t, m) /\ FirstOf(s.rdr, Key(m)) = 0
                => TurnsTo(s, t, Key(m), TargetOf(m))
           /\ TakesRule(s, t, Key(m)) /\ AddsRule(t, v, m) => TurnsTo(s, v, Key(m), TargetOf(m))
  <1> DEFINE k == Key(m)
  <1>1. k \in Keys
    BY MappingTyped
  <1>2. KeepsRules(s, t) => TurnsTo(s, t, k, TableOf(s.rdr)[k])
    BY <1>1 DEF KeepsRules, TurnsTo, TableOf
  <1>3. TakesRule(s, t, k) => TurnsTo(s, t, k, NoTarget)
    BY DEF TakesRule, TurnsTo
  <1>4. AddsRule(s, t, m) /\ FirstOf(s.rdr, k) = 0 => TurnsTo(s, t, k, TargetOf(m))
    BY RuleAdded DEF AddsRule, TurnsTo, IsState
  <1>5. ASSUME TakesRule(s, t, k), AddsRule(t, v, m) PROVE TurnsTo(s, v, k, TargetOf(m))
    <2>1. TableOf(v.rdr) = [TableOf(t.rdr) EXCEPT ![k] = TargetOf(m)] /\ IsState(v)
      BY <1>5, RuleAdded DEF TakesRule, AddsRule, IsState
    <2>2. TableOf(t.rdr) = [TableOf(s.rdr) EXCEPT ![k] = NoTarget]
      BY <1>5 DEF TakesRule
    <2> QED  BY <1>1, <2>1, <2>2 DEF TurnsTo, TableOf
  <1> QED  BY <1>2, <1>3, <1>4, <1>5

\* A call that deletes the rule of k
DeletesFor(s, out, k) ==
    \/ out.r = 0 /\ TurnsTo(s, out.s, k, NoTarget)
    \/ out.r = -1 /\ \E u \in {TableOf(s.rdr)[k], NoTarget} : TurnsTo(s, out.s, k, u)

\* A call that gives k the target t
ChangesFor(s, out, k, t) ==
    \/ out.r = 0 /\ TurnsTo(s, out.s, k, t)
    \/ /\ out.r = -1
       /\ \E u \in {TableOf(s.rdr)[k], t, NoTarget} : TurnsTo(s, out.s, k, u)

\* The rule of the port of m, or its absence, is of the client of m
OfClient(s, m) == \/ FirstOf(s.rdr, Key(m)) = 0
                  \/ s.rdr[FirstOf(s.rdr, Key(m))].iaddr = m.iaddr

\* The old rule with another internal port is a rule of the same port and client.
LEMMA ReplacedRule ==
    ASSUME NEW q, OnceEach(q), NEW m \in Mapping, FirstOf(q, Key(m)) # 0,
           q[FirstOf(q, Key(m))].iaddr = m.iaddr
    PROVE  LET new == [q[FirstOf(q, Key(m))] EXCEPT !.iport = m.iport]
           IN  new \in Mapping /\ Key(new) = Key(m) /\ TargetOf(new) = TargetOf(m)
  <1> DEFINE old == q[FirstOf(q, Key(m))]
             new == [old EXCEPT !.iport = m.iport]
  <1>1. old \in Mapping /\ Key(old) = Key(m)
    BY TargetFound
  <1>2. PICK k \in Keys, a \in Iaddrs, p \in Iports, h \in Rhosts :
          old = [eport |-> k.eport, proto |-> k.proto, iaddr |-> a, iport |-> p, rhost |-> h]
    BY <1>1 DEF Mapping
  <1>3. m.iport \in Iports
    BY MappingTyped
  <1>4. old.iaddr = m.iaddr
    OBVIOUS
  <1> HIDE DEF old
  <1>5. new = [eport |-> k.eport, proto |-> k.proto, iaddr |-> a, iport |-> m.iport, rhost |-> h]
    BY <1>2
  <1>6. new \in Mapping
    BY <1>3, <1>5 DEF Mapping
  <1>7. Key(new) = Key(m) /\ TargetOf(new) = TargetOf(m)
    BY <1>1, <1>2, <1>4, <1>5 DEF Key, TargetOf
  <1> QED  BY <1>6, <1>7 DEF old

\* The rule m is added, and the call may fail afterwards or before
ReplaceIs(s, out, m) == \/ out.r = 0 /\ AddsRule(s, out.s, m)
                        \/ out.r = -1 /\ (AddsRule(s, out.s, m) \/ KeepsRules(s, out.s))

\* Once the old rule is gone, the new one is added or the port is free.
LEMMA PfReplaces ==
    ASSUME NEW s, IsState(s), NEW old, NEW m \in Mapping, FirstOf(s.rdr, Key(m)) = 0,
           NEW time, NEW fails
    PROVE  ReplaceIs(s, PfReplace(s, old, m, time, fails), m)
  <1> DEFINE Filtered(add) == IF add.r < 0 THEN add ELSE PfAddFilter(add.s, m, fails)
             del == PfDeleteFilter(s, old, fails)
             add == PfAddRedirect(del.s, m, time, fails)
             Opened(x) == IF x.r < 0 THEN x
                          ELSE CHOOSE v \in {Filtered(y) : y \in {PfAddRedirect(x.s, m, time, fails)}} : TRUE
             out == PfReplace(s, old, m, time, fails)
  <1> SUFFICES ReplaceIs(s, out, m)
    OBVIOUS
  <1>1. out = CHOOSE v \in {Opened(x) : x \in {del}} : TRUE
    BY DEF PfReplace, On
  <1>2. KeepsRules(s, del.s) /\ del.r \in {-1, 0}
    BY PfFilterKept
  <1>3. IsState(del.s) /\ FirstOf(del.s.rdr, Key(m)) = 0
    BY <1>2 DEF KeepsRules
  <1>4. AddIs(del.s, add, m, fails)
    <2> HIDE DEF del
    <2> QED  BY <1>3, PfAdds
  <1>5. out = Opened(del)
    <2> HIDE DEF Opened, del
    <2> QED  BY <1>1
  <1>6. Opened(del) = IF del.r < 0 THEN del ELSE CHOOSE v \in {Filtered(y) : y \in {add}} : TRUE
    OBVIOUS
  <1> HIDE DEF Opened, del, add, out
  <1>7. (CHOOSE v \in {Filtered(y) : y \in {add}} : TRUE) = Filtered(add)
    <2> HIDE DEF Filtered
    <2> QED  OBVIOUS
  <1>8. CASE del.r < 0
    BY <1>2, <1>5, <1>6, <1>8 DEF ReplaceIs
  <1>9. CASE ~(del.r < 0) /\ add.r < 0
    <2>1. out = add /\ add.r = -1 /\ add.s = del.s
      BY <1>4, <1>5, <1>6, <1>7, <1>9 DEF AddIs
    <2> QED  BY <1>2, <2>1 DEF KeepsRules, ReplaceIs
  <1>10. CASE ~(del.r < 0) /\ ~(add.r < 0)
    <2>1. out = PfAddFilter(add.s, m, fails) /\ AddsRule(del.s, add.s, m)
      BY <1>4, <1>5, <1>6, <1>7, <1>10 DEF AddIs
    <2>2. KeepsRules(add.s, out.s) /\ out.r \in {-1, 0}
      BY <2>1, PfFilterKept DEF AddsRule
    <2> QED  BY <1>2, <2>1, <2>2, KeptTwice DEF ReplaceIs
  <1> QED  BY <1>8, <1>9, <1>10

\* update_portmapping() of pf
LEMMA PfUpdates ==
    ASSUME NEW s, IsState(s), NEW m \in Mapping, OfClient(s, m), NEW time, NEW fails
    PROVE  ChangesFor(s, PfUpdate(s, Key(m), m.iport, time, fails), Key(m), TargetOf(m))
  <1> DEFINE k == Key(m)
             old == s.rdr[FirstOf(s.rdr, k)]
             new == [old EXCEPT !.iport = m.iport]
             del == PfDeleteRedirect(s, k, fails)
             Op(x) == IF x.r < 0 THEN x ELSE PfReplace(x.s, old, new, time, fails)
             out == PfUpdate(s, k, m.iport, time, fails)
  <1> SUFFICES ChangesFor(s, out, k, TargetOf(m))
    OBVIOUS
  <1>1. out = CHOOSE v \in {Op(x) : x \in {del}} : TRUE
    BY DEF PfUpdate, On
  <1>2. DeleteIs(s, del, k, fails)
    BY PfDeletes
  <1>3. out = Op(del)
    <2> HIDE DEF Op, del
    <2> QED  BY <1>1
  <1>4. CASE del.r < 0
    <2>1. out = del /\ del.r = -1 /\ KeepsRules(s, del.s)
      BY <1>2, <1>3, <1>4 DEF DeleteIs
    <2>2. TurnsTo(s, out.s, k, TableOf(s.rdr)[k])
      BY <2>1, Turned
    <2> QED  BY <2>1, <2>2 DEF ChangesFor
  <1>5. CASE ~(del.r < 0)
    <2>1. /\ out = PfReplace(del.s, old, new, time, fails)
          /\ TakesRule(s, del.s, k) /\ FirstOf(s.rdr, k) # 0
      BY <1>2, <1>3, <1>5 DEF DeleteIs
    <2>2. new \in Mapping /\ Key(new) = k /\ TargetOf(new) = TargetOf(m)
      BY <2>1, ReplacedRule DEF OfClient, IsState
    <2>3. IsState(del.s) /\ FirstOf(del.s.rdr, k) = 0
      BY <2>1 DEF TakesRule
    <2> HIDE DEF new, old, del, out, k
    <2>4. ReplaceIs(del.s, out, new)
      BY <2>1, <2>2, <2>3, PfReplaces
    <2>5. CASE AddsRule(del.s, out.s, new)
      <3>1. TurnsTo(s, out.s, k, TargetOf(m))
        BY <2>1, <2>2, <2>5, Turned
      <3> QED  BY <2>4, <3>1 DEF ChangesFor, ReplaceIs
    <2>6. CASE out.r = -1 /\ KeepsRules(del.s, out.s)
      <3>1. TakesRule(s, out.s, k)
        BY <2>1, <2>6, KeptTwice
      <3>2. TurnsTo(s, out.s, k, NoTarget)
        BY <3>1, Turned DEF k
      <3> QED  BY <2>6, <3>2 DEF ChangesFor
    <2> QED  BY <2>4, <2>5, <2>6 DEF ReplaceIs
  <1> QED  BY <1>4, <1>5

\* update_portmapping_desc_timestamp() of pf, for a port that has its target, or none
LEMMA PfUpdatesTime ==
    ASSUME NEW s, IsState(s), NEW m \in Mapping, NEW time, NEW same, NEW fails,
           TargetIn(s.rdr, Key(m)) \in {NoTarget, TargetOf(m)}
    PROVE  ChangesFor(s, PfUpdateTime(s, Key(m), time, same, fails), Key(m), TargetOf(m))
  <1> DEFINE k == Key(m)
             i == FirstOf(s.rdr, k)
             out == PfUpdateTime(s, k, time, same, fails)
             kept == AddStamp(DelStamp(s, k), k, time)
  <1> SUFFICES ChangesFor(s, out, k, TargetOf(m))
    OBVIOUS
  <1>1. KeepsRules(s, s) /\ KeepsRules(s, kept)
    <2>1. KeepsRules(s, DelStamp(s, k)) /\ IsState(DelStamp(s, k))
      BY StampsKept DEF KeepsRules
    <2>2. KeepsRules(DelStamp(s, k), kept)
      BY <2>1, StampsKept
    <2> QED  BY <2>1, <2>2, StateFields, KeptTwice
  <1>2. out = IF i = 0 \/ "get" \in fails THEN Out(s, -1)
              ELSE IF same THEN Out(kept, 0) ELSE PfUpdate(s, k, s.rdr[i].iport, time, fails)
    BY DEF PfUpdateTime
  <1>3. OnceEach(s.rdr) /\ k \in Keys /\ TableOf(s.rdr)[k] = TargetIn(s.rdr, k)
    BY MappingTyped DEF IsState, TableOf
  <1>4. i # 0 => TargetIn(s.rdr, k) = TargetOf(s.rdr[i]) /\ TargetIn(s.rdr, k) # NoTarget
    BY <1>3, TargetFound
  <1>5. i # 0 => TargetOf(s.rdr[i]) = TargetOf(m)
    BY <1>4
  <1>6. i # 0 => s.rdr[i].iport = m.iport /\ s.rdr[i].iaddr = m.iaddr
    BY <1>5 DEF TargetOf
  <1>7. OfClient(s, m)
    BY <1>6 DEF OfClient
  <1> HIDE DEF kept
  <1>8. CASE i = 0 \/ "get" \in fails
    <2>1. TurnsTo(s, s, k, TableOf(s.rdr)[k])
      BY <1>1, Turned
    <2> QED  BY <1>2, <1>8, <2>1 DEF ChangesFor, Out
  <1>9. CASE ~(i = 0 \/ "get" \in fails) /\ same
    <2>1. TurnsTo(s, kept, k, TargetOf(m))
      BY <1>1, <1>3, <1>4, <1>5, <1>9, Turned
    <2> QED  BY <1>2, <1>9, <2>1 DEF ChangesFor, Out
  <1>10. CASE ~(i = 0 \/ "get" \in fails) /\ ~ same
    <2>1. out = PfUpdate(s, k, m.iport, time, fails)
      BY <1>2, <1>6, <1>10
    <2> QED  BY <1>7, <2>1, PfUpdates
  <1> QED  BY <1>8, <1>9, <1>10

\* delete_redirect_and_filter_rules() of pf
LEMMA PfDeletesAll ==
    ASSUME NEW s, IsState(s), NEW k \in Keys, NEW fails
    PROVE  DeletesFor(s, PfDelete(s, k, fails), k)
  <1> DEFINE old == s.rdr[FirstOf(s.rdr, k)]
             del == PfDeleteRedirect(s, k, fails)
             cut == PfDeleteNat(del.s, old, fails)
             Op(x) == IF x.r # 0 THEN x ELSE PfDeleteFilter(PfDeleteNat(x.s, old, fails), old, fails)
             out == PfDelete(s, k, fails)
  <1> SUFFICES DeletesFor(s, out, k)
    OBVIOUS
  <1>1. out = CHOOSE v \in {Op(x) : x \in {del}} : TRUE
    BY DEF PfDelete, On
  <1>2. DeleteIs(s, del, k, fails)
    BY PfDeletes
  <1>3. out = Op(del)
    <2> HIDE DEF Op, del, out
    <2> QED  BY <1>1
  <1>4. Op(del) = IF del.r # 0 THEN del ELSE PfDeleteFilter(cut, old, fails)
    OBVIOUS
  <1> HIDE DEF Op, old, out
  <1>5. CASE del.r # 0
    <2>1. out = del /\ del.r = -1 /\ KeepsRules(s, del.s)
      BY <1>2, <1>3, <1>4, <1>5 DEF DeleteIs
    <2>2. TurnsTo(s, out.s, k, TableOf(s.rdr)[k])
      BY <2>1 DEF KeepsRules, TurnsTo, TableOf
    <2> QED  BY <2>1, <2>2 DEF DeletesFor
  <1>6. CASE del.r = 0
    <2>1. out = PfDeleteFilter(cut, old, fails) /\ TakesRule(s, del.s, k)
      BY <1>2, <1>3, <1>4, <1>6 DEF DeleteIs
    <2>2. KeepsRules(del.s, cut) /\ IsState(cut)
      <3> HIDE DEF del
      <3> QED  BY <2>1, PfNatKept DEF TakesRule, KeepsRules
    <2> HIDE DEF cut, del
    <2>3. KeepsRules(cut, out.s) /\ out.r \in {-1, 0}
      BY <2>1, <2>2, PfFilterKept
    <2>4. TakesRule(s, out.s, k)
      BY <2>1, <2>2, <2>3, KeptTwice
    <2>5. TurnsTo(s, out.s, k, NoTarget)
      BY <2>4 DEF TakesRule, TurnsTo
    <2> QED  BY <2>3, <2>5 DEF DeletesFor
  <1> QED  BY <1>5, <1>6

-----------------------------------------------------------------------------
\* ipfilter
LEMMA IpfAdds ==
    ASSUME NEW s, IsState(s), NEW m \in Mapping, FirstOf(s.rdr, Key(m)) = 0, NEW time, NEW fails
    PROVE  AddIs(s, IpfAddRedirect(s, m, time, fails), m, fails)
  <1> DEFINE added == [s EXCEPT !.rdr = Append(@, m)]
  <1>1. AddsRule(s, added, m) /\ IsState(added)
    BY RuleAppended DEF AddsRule
  <1>2. IpfAddRedirect(s, m, time, fails)
          = IF "rdr" \in fails THEN Out(s, -1) ELSE Out(AddStamp(added, Key(m), time), 0)
    BY DEF IpfAddRedirect
  <1> HIDE DEF added
  <1>3. AddsRule(s, AddStamp(added, Key(m), time), m)
    BY <1>1, StampsKept, KeptTwice
  <1> QED  BY <1>2, <1>3 DEF AddIs, Out

\* The filter rules of ipfilter, and del_redirect_desc(), which may take the entries
\* of other ports along, leave the redirections alone.
LEMMA IpfFilterKept ==
    ASSUME NEW s, IsState(s), NEW m, NEW k, NEW fails
    PROVE  /\ KeepsRules(s, IpfAddFilter(s, m, fails).s) /\ IpfAddFilter(s, m, fails).r \in {-1, 0}
           /\ "filter" \notin fails => IpfAddFilter(s, m, fails).r = 0
           /\ KeepsRules(s, IpfDeleteFilter(s, k, fails).s)
           /\ KeepsRules(s, IpfDelDesc(s, k))
  BY StateFields DEF IpfAddFilter, IpfDeleteFilter, IpfDelDesc, Out

\* real_delete_redirect_rule()
LEMMA IpfDeletesOnce ==
    ASSUME NEW s, IsState(s), NEW k, NEW fails
    PROVE  DeleteIs(s, IpfRealDelete(s, k, fails), k, fails)
  <1> DEFINE gone == [s EXCEPT !.rdr = Without(@, FirstOf(@, k))]
  <1>1. IpfRealDelete(s, k, fails)
          = IF FirstOf(s.rdr, k) = 0 \/ "get" \in fails THEN Out(s, -1)
            ELSE IF "unrdr" \in fails THEN Out(IpfDelDesc(s, k), -1)
            ELSE Out(IpfDelDesc(gone, k), 0)
    BY DEF IpfRealDelete
  <1>2. KeepsRules(s, s) /\ KeepsRules(s, IpfDelDesc(s, k))
    BY StateFields, IpfFilterKept
  <1>3. CASE FirstOf(s.rdr, k) = 0 \/ fails \cap {"get", "unrdr"} # {}
    BY <1>1, <1>2, <1>3 DEF DeleteIs, Out
  <1>4. CASE FirstOf(s.rdr, k) # 0 /\ fails \cap {"get", "unrdr"} = {}
    <2>1. gone = [s EXCEPT !.rdr = RemoveAt(@, FirstOf(s.rdr, k))]
      BY <1>4 DEF Without
    <2>2. TakesRule(s, gone, k) /\ IsState(gone)
      BY <1>4, <2>1, RuleTaken DEF TakesRule
    <2> HIDE DEF gone
    <2>3. TakesRule(s, IpfDelDesc(gone, k), k)
      BY <2>2, IpfFilterKept, KeptTwice
    <2> QED  BY <1>1, <1>4, <2>3 DEF DeleteIs, Out
  <1> QED  BY <1>3, <1>4

\* delete_redirect_rule() of ipfilter tries twice
LEMMA IpfDeletes ==
    ASSUME NEW s, IsState(s), NEW k, NEW fails
    PROVE  DeleteIs(s, IpfDeleteRedirect(s, k, fails), k, fails)
  <1> DEFINE first == IpfRealDelete(s, k, fails)
             next == IpfRealDelete(first.s, k, fails \ {"get"})
             Op(x) == IF x.r = -1 THEN IpfRealDelete(x.s, k, fails \ {"get"}) ELSE x
             out == IpfDeleteRedirect(s, k, fails)
  <1> SUFFICES DeleteIs(s, out, k, fails)
    OBVIOUS
  <1>1. out = CHOOSE v \in {Op(x) : x \in {first}} : TRUE
    BY DEF IpfDeleteRedirect, On
  <1>2. DeleteIs(s, first, k, fails)
    BY IpfDeletesOnce
  <1>3. out = Op(first)
    <2> HIDE DEF Op, first, out
    <2> QED  BY <1>1
  <1>4. Op(first) = IF first.r = -1 THEN next ELSE first
    OBVIOUS
  <1>5. CASE first.r # -1
    BY <1>2, <1>3, <1>4, <1>5
  <1>6. CASE first.r = -1
    <2>1. out = next /\ KeepsRules(s, first.s)
      BY <1>2, <1>3, <1>4, <1>6 DEF DeleteIs
    <2>2. IsState(first.s) /\ first.s.rdr = s.rdr
      BY <2>1 DEF KeepsRules
    <2> HIDE DEF first
    <2>3. DeleteIs(first.s, next, k, fails \ {"get"})
      BY <2>2, IpfDeletesOnce
    <2> HIDE DEF next, out
    <2>4. CASE next.r = 0 /\ TakesRule(first.s, next.s, k) /\ FirstOf(first.s.rdr, k) # 0
      <3>1. TakesRule(s, next.s, k)
        BY <2>1, <2>4, KeptTwice
      <3> QED  BY <1>6, <2>1, <2>2, <2>4, <3>1 DEF DeleteIs
    <2>5. CASE next.r = -1 /\ KeepsRules(first.s, next.s)
      <3>1. KeepsRules(s, next.s)
        BY <2>1, <2>5, KeptTwice
      <3>2. FirstOf(s.rdr, k) # 0 => fails \cap {"get", "unrdr"} # {}
        BY <1>2, <1>6 DEF DeleteIs
      <3> QED  BY <1>6, <2>1, <2>5, <3>1, <3>2 DEF DeleteIs
    <2> QED  BY <2>3, <2>4, <2>5 DEF DeleteIs
  <1> QED  BY <1>5, <1>6

-----------------------------------------------------------------------------
\* ipfw
LEMMA IpfwFinds ==
    ASSUME NEW s, IsState(s), NEW k
    PROVE  IpfwFind(s, k, Chunk) = FirstOf(s.rdr, k)
  <1>1. Front(FetchRuleset(s, Chunk)) = s.rdr
    BY AllFetched DEF IsState, OnceEach
  <1> QED  BY <1>1 DEF IpfwFind

\* add_redirect_rule2() of ipfw
LEMMA IpfwAdds ==
    ASSUME NEW s, IsState(s), NEW m \in Mapping, FirstOf(s.rdr, Key(m)) = 0, NEW time, NEW fails
    PROVE  AddIs(s, IpfwAddRedirect(s, m, time, fails), m, fails)
  <1>1. IpfwAddRedirect(s, m, time, fails) = IpfAddRedirect(s, m, time, fails)
    BY DEF IpfwAddRedirect, IpfAddRedirect
  <1> QED  BY <1>1, IpfAdds

\* delete_redirect_rule() of ipfw
LEMMA IpfwDeletes ==
    ASSUME NEW s, IsState(s), NEW k, NEW fails
    PROVE  DeleteIs(s, IpfwDeleteRedirect(s, k, Chunk, fails), k, fails)
  <1> DEFINE gone == [s EXCEPT !.rdr = RemoveAt(@, FirstOf(s.rdr, k))]
             i == IpfwFind(s, k, Chunk)
  <1>1. i = FirstOf(s.rdr, k)
    BY IpfwFinds
  <1>2. IpfwDeleteRedirect(s, k, Chunk, fails)
          = IF i = 0 \/ fails \cap {"get", "unrdr"} # {} THEN Out(s, -1)
            ELSE Out(DelStamp([s EXCEPT !.rdr = RemoveAt(@, i)], k), 0)
    BY DEF IpfwDeleteRedirect
  <1> HIDE DEF i
  <1>3. KeepsRules(s, s)
    BY StateFields
  <1>4. CASE i = 0 \/ fails \cap {"get", "unrdr"} # {}
    BY <1>1, <1>2, <1>3, <1>4 DEF DeleteIs, Out
  <1>5. CASE i # 0 /\ fails \cap {"get", "unrdr"} = {}
    <2>1. TakesRule(s, gone, k) /\ IsState(gone)
      BY <1>1, <1>5, RuleTaken DEF TakesRule
    <2>2. [s EXCEPT !.rdr = RemoveAt(@, i)] = gone
      BY <1>1
    <2> HIDE DEF gone
    <2>3. TakesRule(s, DelStamp(gone, k), k)
      BY <2>1, StampsKept, KeptTwice
    <2> QED  BY <1>1, <1>2, <1>5, <2>2, <2>3 DEF DeleteIs, Out
  <1> QED  BY <1>4, <1>5

\* update_portmapping() of ipfw
LEMMA IpfwUpdates ==
    ASSUME NEW s, IsState(s), NEW m \in Mapping, OfClient(s, m), NEW time, NEW fails
    PROVE  ChangesFor(s, IpfwUpdate(s, Key(m), m.iport, time, Chunk, fails), Key(m), TargetOf(m))
  <1> DEFINE k == Key(m)
             old == s.rdr[FirstOf(s.rdr, k)]
             new == [old EXCEPT !.iport = m.iport]
             del == IpfwDeleteRedirect(s, k, Chunk, fails)
             Op(x) == IF x.r < 0 THEN x ELSE IpfwAddRedirect(x.s, new, time, fails)
             out == IpfwUpdate(s, k, m.iport, time, Chunk, fails)
  <1> SUFFICES ChangesFor(s, out, k, TargetOf(m))
    OBVIOUS
  <1>1. out = CHOOSE v \in {Op(x) : x \in {del}} : TRUE
    BY IpfwFinds DEF IpfwUpdate, On
  <1>2. DeleteIs(s, del, k, fails)
    BY IpfwDeletes
  <1>3. out = Op(del)
    <2> HIDE DEF Op, del, out
    <2> QED  BY <1>1
  <1>4. CASE del.r < 0
    <2>1. out = del /\ del.r = -1 /\ KeepsRules(s, del.s)
      BY <1>2, <1>3, <1>4 DEF DeleteIs
    <2>2. TurnsTo(s, out.s, k, TableOf(s.rdr)[k])
      BY <2>1, Turned
    <2> QED  BY <2>1, <2>2 DEF ChangesFor
  <1>5. CASE ~(del.r < 0)
    <2>1. /\ out = IpfwAddRedirect(del.s, new, time, fails)
          /\ TakesRule(s, del.s, k) /\ FirstOf(s.rdr, k) # 0
      BY <1>2, <1>3, <1>5 DEF DeleteIs
    <2>2. new \in Mapping /\ Key(new) = k /\ TargetOf(new) = TargetOf(m)
      BY <2>1, ReplacedRule DEF OfClient, IsState
    <2>3. IsState(del.s) /\ FirstOf(del.s.rdr, k) = 0
      BY <2>1 DEF TakesRule
    <2> HIDE DEF new, old, del, out, k
    <2>4. AddIs(del.s, out, new, fails)
      BY <2>1, <2>2, <2>3, IpfwAdds
    <2>5. CASE out.r = 0 /\ AddsRule(del.s, out.s, new)
      <3>1. TurnsTo(s, out.s, k, TargetOf(m))
        BY <2>1, <2>2, <2>5, Turned
      <3> QED  BY <2>5, <3>1 DEF ChangesFor
    <2>6. CASE out.r = -1 /\ out.s = del.s
      <3>1. TurnsTo(s, out.s, k, NoTarget)
        BY <2>1, <2>6, Turned DEF k
      <3> QED  BY <2>6, <3>1 DEF ChangesFor
    <2> QED  BY <2>4, <2>5, <2>6 DEF AddIs
  <1> QED  BY <1>4, <1>5

-----------------------------------------------------------------------------
(***************************************************************************)
(* The redirection layer on any of the three.                              *)
(***************************************************************************)
Bsd == kind \in {"pf", "ipf", "ipfw"}

\* add_redirect_rule2(), whichever the back end is
LEMMA RedirectAdds ==
    ASSUME Bsd, NEW s, IsState(s), NEW m \in Mapping, FirstOf(s.rdr, Key(m)) = 0,
           NEW time, NEW fails
    PROVE  AddIs(s, AddRedirectRule(s, m, time, fails), m, fails)
  <1>1. CASE kind = "pf"
    <2>1. AddRedirectRule(s, m, time, fails) = PfAddRedirect(s, m, time, fails)
      BY <1>1 DEF AddRedirectRule
    <2> QED  BY <2>1, PfAdds
  <1>2. CASE kind = "ipf"
    <2>1. AddRedirectRule(s, m, time, fails) = IpfAddRedirect(s, m, time, fails)
      BY <1>2 DEF AddRedirectRule
    <2> QED  BY <2>1, IpfAdds
  <1>3. CASE kind = "ipfw"
    <2>1. AddRedirectRule(s, m, time, fails) = IpfwAddRedirect(s, m, time, fails)
      BY <1>3 DEF AddRedirectRule
    <2> QED  BY <2>1, IpfwAdds
  <1> QED  BY <1>1, <1>2, <1>3 DEF Bsd

\* add_filter_rule2(), which ipfw does not need
LEMMA FilterAdds ==
    ASSUME Bsd, NEW s, IsState(s), NEW m, NEW fails
    PROVE  /\ KeepsRules(s, AddFilterRule(s, m, fails).s)
           /\ AddFilterRule(s, m, fails).r \in {-1, 0}
  <1>1. CASE kind = "pf"
    <2>1. AddFilterRule(s, m, fails) = PfAddFilter(s, m, fails)
      BY <1>1 DEF AddFilterRule
    <2> QED  BY <2>1, PfFilterKept
  <1>2. CASE kind = "ipf"
    <2>1. AddFilterRule(s, m, fails) = IpfAddFilter(s, m, fails)
      BY <1>2 DEF AddFilterRule
    <2> QED  BY <2>1, IpfFilterKept
  <1>3. CASE kind = "ipfw"
    <2>1. AddFilterRule(s, m, fails) = Out(s, 0)
      BY <1>3 DEF AddFilterRule
    <2>2. KeepsRules(s, s)
      BY StateFields
    <2> QED  BY <2>1, <2>2 DEF Out
  <1> QED  BY <1>1, <1>2, <1>3 DEF Bsd

\* What upnp_redirect_internal() does after a filter rule was refused.
LEMMA CleanUpTakes ==
    ASSUME Bsd, NEW s, IsState(s), NEW k, NEW fails
    PROVE  \/ TakesRule(s, CleanUpRedirect(s, k, fails), k)
           \/ KeepsRules(s, CleanUpRedirect(s, k, fails))
  <1>1. CASE kind = "pf"
    <2>1. CleanUpRedirect(s, k, fails) = PfDeleteRedirect(s, k, fails).s
      BY <1>1 DEF CleanUpRedirect
    <2> QED  BY <2>1, PfDeletes DEF DeleteIs
  <1>2. CASE kind = "ipf"
    <2>1. CleanUpRedirect(s, k, fails) = IpfDeleteRedirect(s, k, fails).s
      BY <1>2 DEF CleanUpRedirect
    <2> QED  BY <2>1, IpfDeletes DEF DeleteIs
  <1>3. CASE kind = "ipfw"
    <2>1. CleanUpRedirect(s, k, fails) = IpfwDeleteRedirect(s, k, Chunk, fails).s
      BY <1>3 DEF CleanUpRedirect
    <2> QED  BY <2>1, IpfwDeletes DEF DeleteIs
  <1> QED  BY <1>1, <1>2, <1>3 DEF Bsd

\* upnp_redirect_internal(): a rule without a filter is taken back, or stays if
\* the kernel refuses that as well.
LEMMA InternalChanges ==
    ASSUME Bsd, NEW s, IsState(s), NEW m \in Mapping, FirstOf(s.rdr, Key(m)) = 0,
           NEW time, NEW fails
    PROVE  ChangesFor(s, RedirectInternal(s, m, time, fails), Key(m), TargetOf(m))
  <1> DEFINE k == Key(m)
             add == AddRedirectRule(s, m, time, fails)
             open == AddFilterRule(add.s, m, fails)
             Opened(x) == IF x.r >= 0 THEN Out(x.s, 0)
                          ELSE Out(CleanUpRedirect(x.s, k, fails), -1)
             Op(x) == IF x.r < 0 THEN Out(x.s, -1)
                      ELSE CHOOSE v \in {Opened(y) : y \in {AddFilterRule(x.s, m, fails)}} : TRUE
             out == RedirectInternal(s, m, time, fails)
  <1> SUFFICES ChangesFor(s, out, k, TargetOf(m))
    OBVIOUS
  <1>1. out = CHOOSE v \in {Op(x) : x \in {add}} : TRUE
    BY DEF RedirectInternal, On
  <1>2. AddIs(s, add, m, fails)
    BY RedirectAdds
  <1>3. out = Op(add)
    <2> HIDE DEF Op, add, out
    <2> QED  BY <1>1
  <1>4. Op(add) = IF add.r < 0 THEN Out(add.s, -1)
                  ELSE CHOOSE v \in {Opened(y) : y \in {open}} : TRUE
    OBVIOUS
  <1>5. (CHOOSE v \in {Opened(y) : y \in {open}} : TRUE) = Opened(open)
    <2> HIDE DEF Opened, open
    <2> QED  OBVIOUS
  <1>6. TurnsTo(s, s, k, TableOf(s.rdr)[k])
    BY StateFields, Turned
  <1> HIDE DEF Op, out, add
  <1>7. CASE add.r < 0
    <2>1. out.r = -1 /\ out.s = s
      BY <1>2, <1>3, <1>4, <1>7 DEF AddIs, Out
    <2> QED  BY <1>6, <2>1 DEF ChangesFor
  <1>8. CASE ~(add.r < 0)
    <2>1. AddsRule(s, add.s, m) /\ IsState(add.s) /\ out = Opened(open)
      BY <1>2, <1>3, <1>4, <1>5, <1>8 DEF AddIs, AddsRule
    <2>2. KeepsRules(add.s, open.s) /\ open.r \in {-1, 0}
      BY <2>1, FilterAdds
    <2>3. AddsRule(s, open.s, m) /\ IsState(open.s)
      BY <2>1, <2>2, KeptTwice DEF KeepsRules
    <2>4. TurnsTo(s, open.s, k, TargetOf(m))
      BY <2>3, Turned
    <2> HIDE DEF open
    <2>5. CASE open.r = 0
      <3>1. out.r = 0 /\ out.s = open.s
        BY <2>1, <2>5 DEF Out
      <3> QED  BY <2>4, <3>1 DEF ChangesFor
    <2>6. CASE open.r = -1
      <3> DEFINE cleaned == CleanUpRedirect(open.s, k, fails)
      <3>1. out.r = -1 /\ out.s = cleaned
        BY <2>1, <2>6 DEF Out
      <3>2. TakesRule(open.s, cleaned, k) \/ KeepsRules(open.s, cleaned)
        BY <2>3, CleanUpTakes
      <3> HIDE DEF cleaned
      <3>3. CASE KeepsRules(open.s, cleaned)
        <4>1. AddsRule(s, cleaned, m)
          BY <2>3, <3>3, KeptTwice
        <4>2. TurnsTo(s, cleaned, k, TargetOf(m))
          BY <4>1, Turned
        <4> QED  BY <3>1, <4>2 DEF ChangesFor
      <3>4. CASE TakesRule(open.s, cleaned, k)
        <4>1. TurnsTo(s, cleaned, k, NoTarget)
          <5>1. k \in Keys
            BY MappingTyped
          <5>2. /\ TableOf(open.s.rdr) = [TableOf(s.rdr) EXCEPT ![k] = TargetOf(m)]
                /\ TableOf(cleaned.rdr) = [TableOf(open.s.rdr) EXCEPT ![k] = NoTarget]
                /\ IsState(cleaned)
            BY <2>4, <3>4 DEF TurnsTo, TakesRule
          <5> QED  BY <5>1, <5>2 DEF TurnsTo, TableOf
        <4> QED  BY <3>1, <4>1 DEF ChangesFor
      <3> QED  BY <3>2, <3>3, <3>4
    <2> QED  BY <2>2, <2>5, <2>6
  <1> QED  BY <1>7, <1>8

-----------------------------------------------------------------------------
\* A port that the client of m has, or nobody
LEMMA ClientOf ==
    ASSUME NEW s, IsState(s), NEW m \in Mapping
    PROVE  OfClient(s, m) <=> \/ TableOf(s.rdr)[Key(m)] = NoTarget
                              \/ TableOf(s.rdr)[Key(m)].iaddr = m.iaddr
  <1> DEFINE k == Key(m)
  <1>1. OnceEach(s.rdr) /\ k \in Keys /\ TableOf(s.rdr)[k] = TargetIn(s.rdr, k)
    BY MappingTyped DEF IsState, TableOf
  <1>2. CASE FirstOf(s.rdr, k) = 0
    BY <1>1, <1>2, TargetFound DEF OfClient
  <1>3. CASE FirstOf(s.rdr, k) # 0
    <2>1. TargetIn(s.rdr, k) = TargetOf(s.rdr[FirstOf(s.rdr, k)]) /\ TargetIn(s.rdr, k) # NoTarget
      BY <1>1, <1>3, TargetFound
    <2>2. TargetIn(s.rdr, k).iaddr = s.rdr[FirstOf(s.rdr, k)].iaddr
      BY <2>1 DEF TargetOf
    <2> QED  BY <1>1, <1>3, <2>1, <2>2 DEF OfClient
  <1> QED  BY <1>2, <1>3

\* Changes for one client after the other.
LEMMA ChangedTwice ==
    ASSUME NEW s, IsState(s), NEW m \in Mapping, NEW first, NEW out, OfClient(s, m),
           ChangesFor(s, first, Key(m), TargetOf(m))
    PROVE  /\ IsState(first.s) /\ OfClient(first.s, m)
           /\ ChangesFor(first.s, out, Key(m), TargetOf(m))
                => ChangesFor(s, out, Key(m), TargetOf(m))
  <1> DEFINE k == Key(m)
             t == TargetOf(m)
  <1>1. k \in Keys /\ t.iaddr = m.iaddr
    BY MappingTyped DEF TargetOf
  <1>2. PICK u \in {TableOf(s.rdr)[k], t, NoTarget} : TurnsTo(s, first.s, k, u)
    BY DEF ChangesFor
  <1>3. IsState(first.s) /\ TableOf(first.s.rdr) = [TableOf(s.rdr) EXCEPT ![k] = u]
    BY <1>2 DEF TurnsTo
  <1> HIDE DEF t, k
  <1>4. TableOf(first.s.rdr)[k] = u
    BY <1>1, <1>3 DEF TableOf
  <1>5. OfClient(first.s, m)
    <2>1. TableOf(s.rdr)[k] = NoTarget \/ TableOf(s.rdr)[k].iaddr = m.iaddr
      BY ClientOf DEF k
    <2>2. u = NoTarget \/ u.iaddr = m.iaddr
      BY <1>1, <1>2, <2>1
    <2> QED  BY <1>3, <1>4, <2>2, ClientOf DEF k
  <1>6. ASSUME NEW v, TurnsTo(first.s, out.s, k, v) PROVE TurnsTo(s, out.s, k, v)
    <2>1. TableOf(out.s.rdr) = [TableOf(first.s.rdr) EXCEPT ![k] = v] /\ IsState(out.s)
      BY <1>6 DEF TurnsTo
    <2>2. TableOf(out.s.rdr) = [TableOf(s.rdr) EXCEPT ![k] = v]
      BY <1>1, <1>3, <2>1 DEF TableOf
    <2> QED  BY <2>1, <2>2 DEF TurnsTo
  <1>7. ASSUME ChangesFor(first.s, out, k, t) PROVE ChangesFor(s, out, k, t)
    <2>1. CASE out.r = 0 /\ TurnsTo(first.s, out.s, k, t)
      BY <1>6, <2>1 DEF ChangesFor
    <2>2. CASE out.r = -1 /\ \E v \in {TableOf(first.s.rdr)[k], t, NoTarget} : TurnsTo(first.s, out.s, k, v)
      <3>1. PICK v \in {u, t, NoTarget} : TurnsTo(first.s, out.s, k, v)
        BY <1>4, <2>2
      <3>2. v \in {TableOf(s.rdr)[k], t, NoTarget}
        BY <1>2, <3>1
      <3> QED  BY <1>6, <2>2, <3>1, <3>2 DEF ChangesFor
    <2> QED  BY <1>7, <2>1, <2>2 DEF ChangesFor
  <1> QED  BY <1>3, <1>5, <1>7 DEF k, t

\* update_portmapping(), which ipfilter does not have
LEMMA PortChanges ==
    ASSUME Bsd, NEW s, IsState(s), NEW m \in Mapping, OfClient(s, m),
           NEW time, NEW junk, NEW fails
    PROVE  ChangesFor(s, UpdatePortMapping(s, Key(m), m.iport, time, junk, fails),
                      Key(m), TargetOf(m))
  <1> DEFINE out == UpdatePortMapping(s, Key(m), m.iport, time, junk, fails)
  <1>1. CASE kind = "pf"
    <2>1. out = PfUpdate(s, Key(m), m.iport, time, fails)
      BY <1>1 DEF UpdatePortMapping
    <2> QED  BY <2>1, PfUpdates
  <1>2. CASE kind = "ipf"
    <2>1. out = Out(s, -1)
      BY <1>2 DEF UpdatePortMapping
    <2>2. TurnsTo(s, s, Key(m), TableOf(s.rdr)[Key(m)])
      BY StateFields, Turned
    <2> QED  BY <2>1, <2>2 DEF ChangesFor, Out
  <1>3. CASE kind = "ipfw"
    <2>1. out = IpfwUpdate(s, Key(m), m.iport, time, Chunk, fails)
      BY <1>3 DEF UpdatePortMapping
    <2> QED  BY <2>1, IpfwUpdates
  <1> QED  BY <1>1, <1>2, <1>3 DEF Bsd

\* The port of m has its target; with pf it may have been lost
TimedFor(s, m) == \/ TargetIn(s.rdr, Key(m)) = TargetOf(m)
                  \/ kind = "pf" /\ TargetIn(s.rdr, Key(m)) = NoTarget

\* update_portmapping_desc_timestamp()
LEMMA TimeChanges ==
    ASSUME Bsd, NEW s, IsState(s), NEW m \in Mapping, TimedFor(s, m),
           NEW time, NEW same, NEW fails
    PROVE  LET out == UpdateTime(s, Key(m), time, same, fails)
           IN  ChangesFor(s, out, Key(m), TargetOf(m)) /\ TimedFor(out.s, m)
  <1> DEFINE k == Key(m)
             t == TargetOf(m)
             out == UpdateTime(s, k, time, same, fails)
  <1> SUFFICES ChangesFor(s, out, k, t) /\ TimedFor(out.s, m)
    OBVIOUS
  <1>1. k \in Keys /\ TableOf(s.rdr)[k] = TargetIn(s.rdr, k)
    BY MappingTyped DEF TableOf
  <1>2. CASE kind = "pf"
    <2>1. out = PfUpdateTime(s, k, time, same, fails)
      BY <1>2 DEF UpdateTime
    <2>2. ChangesFor(s, out, k, t)
      BY <2>1, PfUpdatesTime DEF TimedFor
    <2> HIDE DEF out
    <2>3. PICK u \in {TargetIn(s.rdr, k), t, NoTarget} : TurnsTo(s, out.s, k, u)
      BY <1>1, <2>2 DEF ChangesFor
    <2>4. TargetIn(out.s.rdr, k) = u
      BY <1>1, <2>3 DEF TurnsTo, TableOf
    <2> QED  BY <1>2, <2>2, <2>3, <2>4 DEF TimedFor
  <1>3. ASSUME kind # "pf", out.r = 0, KeepsRules(s, out.s)
        PROVE  ChangesFor(s, out, k, t) /\ TimedFor(out.s, m)
    <2> HIDE DEF out
    <2>1. TurnsTo(s, out.s, k, t)
      BY <1>1, <1>3, Turned DEF TimedFor
    <2> QED  BY <1>3, <2>1 DEF ChangesFor, TimedFor, KeepsRules
  <1>4. CASE kind = "ipf"
    <2>1. out = Out(AddStamp(IpfDelDesc(s, k), k, time), 0)
      BY <1>4 DEF UpdateTime, IpfUpdateTime
    <2>2. KeepsRules(s, IpfDelDesc(s, k)) /\ IsState(IpfDelDesc(s, k))
      BY IpfFilterKept DEF KeepsRules
    <2>3. KeepsRules(s, AddStamp(IpfDelDesc(s, k), k, time))
      BY <2>2, StampsKept, KeptTwice
    <2>4. out.r = 0 /\ KeepsRules(s, out.s)
      BY <2>1, <2>3 DEF Out
    <2> QED  BY <1>3, <1>4, <2>4
  <1>5. CASE kind = "ipfw"
    <2>1. out = Out(AddStamp(DelStamp(s, k), k, time), 0)
      BY <1>5 DEF UpdateTime, IpfwUpdateTime
    <2>2. KeepsRules(s, DelStamp(s, k)) /\ IsState(DelStamp(s, k))
      BY StampsKept DEF KeepsRules
    <2>3. KeepsRules(s, AddStamp(DelStamp(s, k), k, time))
      BY <2>2, StampsKept, KeptTwice
    <2>4. out.r = 0 /\ KeepsRules(s, out.s)
      BY <2>1, <2>3 DEF Out
    <2> QED  BY <1>3, <1>5, <2>4
  <1> QED  BY <1>2, <1>4, <1>5 DEF Bsd

\* A mapping is changed twice over, the port if it is another one and the end of
\* the lease otherwise.
LEMMA OverwriteChanges ==
    ASSUME Bsd, NEW s, IsState(s), NEW m \in Mapping, NEW old, NEW time, NEW same, NEW junk,
           NEW at, NEW fails, TableOf(s.rdr)[Key(m)] = [iaddr |-> m.iaddr, iport |-> old]
    PROVE  ChangesFor(s, OverwriteRule(s, m, old, time, same, junk, at, fails),
                      Key(m), TargetOf(m))
  <1> DEFINE k == Key(m)
             t == TargetOf(m)
             Refused(n) == IF n = at THEN fails ELSE {}
             Change(x, n, unchanged) ==
                 IF m.iport # old THEN UpdatePortMapping(x, k, m.iport, time, junk, Refused(n))
                 ELSE UpdateTime(x, k, time, unchanged, Refused(n))
             first == Change(s, 1, same)
             Op(x) == Change(x.s, 2, x.r = 0 \/ same)
             out == OverwriteRule(s, m, old, time, same, junk, at, fails)
  <1> SUFFICES ChangesFor(s, out, k, t)
    OBVIOUS
  <1>1. out = CHOOSE v \in {Op(x) : x \in {first}} : TRUE
    BY DEF OverwriteRule, On
  <1>2. out = Op(first)
    <2> HIDE DEF Op, first, out
    <2> QED  BY <1>1
  <1>3. OfClient(s, m) /\ TargetIn(s.rdr, k) = [iaddr |-> m.iaddr, iport |-> old]
    BY ClientOf, MappingTyped DEF TableOf
  <1>4. CASE m.iport # old
    <2>1. first = UpdatePortMapping(s, k, m.iport, time, junk, Refused(1))
      BY <1>4
    <2>2. ChangesFor(s, first, k, t)
      BY <1>3, <2>1, PortChanges
    <2>3. out = UpdatePortMapping(first.s, k, m.iport, time, junk, Refused(2))
      BY <1>2, <1>4
    <2> HIDE DEF first, out
    <2>4. IsState(first.s) /\ OfClient(first.s, m)
      BY <1>3, <2>2, ChangedTwice
    <2>5. ChangesFor(first.s, out, k, t)
      BY <2>3, <2>4, PortChanges
    <2> QED  BY <1>3, <2>2, <2>5, ChangedTwice
  <1>5. CASE m.iport = old
    <2>1. first = UpdateTime(s, k, time, same, Refused(1))
      BY <1>5
    <2>2. TimedFor(s, m)
      BY <1>3, <1>5 DEF TimedFor, TargetOf
    <2>3. ChangesFor(s, first, k, t) /\ TimedFor(first.s, m)
      BY <2>1, <2>2, TimeChanges
    <2>4. out = UpdateTime(first.s, k, time, first.r = 0 \/ same, Refused(2))
      BY <1>2, <1>5
    <2> HIDE DEF first, out
    <2>5. IsState(first.s) /\ OfClient(first.s, m)
      BY <1>3, <2>3, ChangedTwice
    <2>6. ChangesFor(first.s, out, k, t)
      BY <2>3, <2>4, <2>5, TimeChanges
    <2> QED  BY <1>3, <2>3, <2>6, ChangedTwice
  <1> QED  BY <1>4, <1>5

\* A search that the kernel does not refuse finds the rule and changes nothing.
LEMMA RuleGot ==
    ASSUME Bsd, NEW s, IsState(s), NEW k, NEW fails, "get" \notin fails
    PROVE  GetRule(s, k, fails) = Out(s, FirstOf(s.rdr, k))
  <1>1. CASE kind = "pf"
    BY <1>1 DEF GetRule, PfGet
  <1>2. CASE kind = "ipf"
    <2>1. LastOf(s.rdr, k) = FirstOf(s.rdr, k)
      BY OneFound DEF IsState
    <2> QED  BY <1>2, <2>1 DEF GetRule, IpfGet
  <1>3. CASE kind = "ipfw"
    <2>1. IpfwFind(s, k, Chunk) = FirstOf(s.rdr, k)
      BY IpfwFinds
    <2> QED  BY <1>3, <2>1 DEF GetRule, IpfwGet
  <1> QED  BY <1>1, <1>2, <1>3 DEF Bsd

\* What get_redirect_rule() finds in the rules is what the table read from them says.
LEMMA FoundIn ==
    ASSUME Bsd, NEW s, IsState(s), NEW k
    PROVE  Found(s, k) = TargetIn(s.rdr, k)
  <1> DEFINE got == GetRule(s, k, {})
             Op(x) == IF x.r = 0 THEN NoTarget
                      ELSE [iaddr |-> OldRule(x.s, x.r).iaddr, iport |-> OldRule(x.s, x.r).iport]
             out == Found(s, k)
  <1> SUFFICES out = TargetIn(s.rdr, k)
    OBVIOUS
  <1>1. out = CHOOSE v \in {Op(x) : x \in {got}} : TRUE
    BY DEF Found, On
  <1>2. out = Op(got)
    <2> HIDE DEF Op, got, out
    <2> QED  BY <1>1
  <1>3. got.s = s /\ got.r = FirstOf(s.rdr, k)
    BY RuleGot DEF Out
  <1> HIDE DEF got, out
  <1>4. \A i : OldRule(s, i).iaddr = s.rdr[i].iaddr /\ OldRule(s, i).iport = s.rdr[i].iport
    BY DEF OldRule, Bsd
  <1> QED  BY <1>2, <1>3, <1>4 DEF TargetIn, TargetOf

\* A call that adds a mapping: it may have to leave the port to another client
AddsFor(s, out, m) ==
    \/ OfClient(s, m) /\ ChangesFor(s, out, Key(m), TargetOf(m))
    \/ out.r = -2 /\ out.s = s /\ TableOf(s.rdr)[Key(m)] # NoTarget

\* upnp_redirect()
LEMMA RuleAdds ==
    ASSUME Bsd, NEW s, IsState(s), NEW m \in Mapping, NEW time, NEW same, NEW junk,
           NEW at, NEW fails, "get" \notin fails
    PROVE  AddsFor(s, RedirectRule(s, m, time, same, junk, at, fails), m)
  <1> DEFINE k == Key(m)
             i == FirstOf(s.rdr, k)
             got == GetRule(s, k, fails)
             Op(x) == IF x.r = 0 THEN RedirectInternal(x.s, m, time, fails)
                      ELSE IF m.iaddr # OldRule(x.s, x.r).iaddr \/ m.rhost # OldRule(x.s, x.r).rhost
                           THEN Out(x.s, -2)
                      ELSE OverwriteRule(x.s, m, OldRule(x.s, x.r).iport, time, same, junk, at, fails)
             out == RedirectRule(s, m, time, same, junk, at, fails)
  <1> SUFFICES AddsFor(s, out, m)
    OBVIOUS
  <1>1. out = CHOOSE v \in {Op(x) : x \in {got}} : TRUE
    BY DEF RedirectRule, On
  <1>2. out = Op(got)
    <2> HIDE DEF Op, got, out
    <2> QED  BY <1>1
  <1>3. got.s = s /\ got.r = i
    BY RuleGot DEF Out
  <1> HIDE DEF got, out
  <1>4. OldRule(s, i).iaddr = s.rdr[i].iaddr /\ OldRule(s, i).iport = s.rdr[i].iport
    BY DEF OldRule, Bsd
  <1>5. k \in Keys /\ OnceEach(s.rdr) /\ TableOf(s.rdr)[k] = TargetIn(s.rdr, k)
    BY MappingTyped DEF IsState, TableOf
  <1>6. CASE i = 0
    <2>1. out = RedirectInternal(s, m, time, fails)
      BY <1>2, <1>3, <1>6
    <2>2. ChangesFor(s, out, k, TargetOf(m))
      BY <1>6, <2>1, InternalChanges
    <2> QED  BY <1>6, <2>2 DEF AddsFor, OfClient
  <1>7. CASE i # 0
    <2>1. TargetIn(s.rdr, k) = TargetOf(s.rdr[i]) /\ TargetIn(s.rdr, k) # NoTarget
      BY <1>5, <1>7, TargetFound
    <2> DEFINE other == m.iaddr # OldRule(s, i).iaddr \/ m.rhost # OldRule(s, i).rhost
    <2>2. CASE other
      <3>1. out = Out(s, -2)
        BY <1>2, <1>3, <1>7, <2>2
      <3> QED  BY <1>5, <2>1, <3>1 DEF AddsFor, Out
    <2>3. CASE ~other
      <3>1. out = OverwriteRule(s, m, s.rdr[i].iport, time, same, junk, at, fails)
        BY <1>2, <1>3, <1>4, <1>7, <2>3
      <3>2. m.iaddr = s.rdr[i].iaddr
        BY <1>4, <2>3
      <3>3. TableOf(s.rdr)[k] = [iaddr |-> m.iaddr, iport |-> s.rdr[i].iport]
        BY <1>5, <2>1, <3>2 DEF TargetOf
      <3>4. ChangesFor(s, out, k, TargetOf(m))
        BY <3>1, <3>3, OverwriteChanges
      <3> QED  BY <1>7, <3>2, <3>4 DEF AddsFor, OfClient
    <2> QED  BY <2>2, <2>3
  <1> QED  BY <1>6, <1>7

\* _upnp_delete_redir()
LEMMA RuleDeletes ==
    ASSUME Bsd, NEW s, IsState(s), NEW k \in Keys, NEW fails
    PROVE  DeletesFor(s, DeleteRule(s, k, fails), k)
  <1> DEFINE out == DeleteRule(s, k, fails)
  <1> SUFFICES DeletesFor(s, out, k)
    OBVIOUS
  <1>1. ASSUME NEW del, DeleteIs(s, del, k, fails), out.r = del.r, IsState(out.s),
               out.s.rdr = del.s.rdr
        PROVE  DeletesFor(s, out, k)
    <2> HIDE DEF out
    <2>1. CASE del.r = 0 /\ TakesRule(s, del.s, k)
      BY <1>1, <2>1 DEF DeletesFor, TakesRule, TurnsTo
    <2>2. CASE del.r = -1 /\ KeepsRules(s, del.s)
      <3>1. TurnsTo(s, out.s, k, TableOf(s.rdr)[k])
        BY <1>1, <2>2 DEF KeepsRules, TurnsTo, TableOf
      <3> QED  BY <1>1, <2>2, <3>1 DEF DeletesFor
    <2> QED  BY <1>1, <2>1, <2>2 DEF DeleteIs
  <1>2. CASE kind = "pf"
    <2>1. out = PfDelete(s, k, fails)
      BY <1>2 DEF DeleteRule
    <2> QED  BY <2>1, PfDeletesAll
  <1>3. CASE kind = "ipf"
    <2> DEFINE del == IpfDeleteRedirect(s, k, fails)
               Op(x) == Out(IpfDeleteFilter(x.s, k, fails).s, x.r)
    <2>1. out = CHOOSE v \in {Op(x) : x \in {del}} : TRUE
      BY <1>3 DEF DeleteRule, On
    <2>2. out = Op(del)
      <3> HIDE DEF Op, del, out
      <3> QED  BY <2>1
    <2>3. DeleteIs(s, del, k, fails)
      BY IpfDeletes
    <2> HIDE DEF del, out
    <2>4. IsState(del.s)
      BY <2>3 DEF DeleteIs, TakesRule, KeepsRules
    <2>5. KeepsRules(del.s, IpfDeleteFilter(del.s, k, fails).s)
      BY <2>4, IpfFilterKept
    <2>6. out.r = del.r /\ IsState(out.s) /\ out.s.rdr = del.s.rdr
      BY <2>2, <2>5 DEF Out, KeepsRules
    <2> QED  BY <1>1, <2>3, <2>6
  <1>4. CASE kind = "ipfw"
    <2>1. out = IpfwDeleteRedirect(s, k, Chunk, fails)
      BY <1>4 DEF DeleteRule
    <2>2. DeleteIs(s, out, k, fails)
      BY <2>1, IpfwDeletes
    <2>3. IsState(out.s)
      BY <2>2 DEF DeleteIs, TakesRule, KeepsRules
    <2> QED  BY <1>1, <2>2, <2>3
  <1> QED  BY <1>2, <1>3, <1>4 DEF Bsd

-----------------------------------------------------------------------------
(***************************************************************************)
(* The calls of the clients, and the promise.                              *)
(***************************************************************************)
\* What get_redirect_rule() finds is what is in the list of rules.
BackInv == Bsd /\ IsState(fw) /\ table = TableOf(fw.rdr)

\* The kernel of these back ends always tells which rules it has
ListsRules == \A f \in Refusals : f[2] # "get"

\* A call that ends in state s keeps the invariant, and table is read from s.
LEMMA CallDone ==
    ASSUME Bsd, NEW op, NEW k, NEW want, NEW s, NEW r, NEW fails, IsState(s),
           Done(op, k, want, s, r, fails)
    PROVE  /\ BackInv' /\ table' = TableOf(s.rdr)
           /\ reply' = [op |-> op, key |-> k, want |-> want, r |-> r]
  <1> DEFINE Op(read) == [x \in Keys |-> Found(read, x)]
  <1>1. table' = CHOOSE v \in {Op(x) : x \in {s}} : TRUE
    BY DEF Done, On, Bsd
  <1>2. table' = Op(s)
    <2> HIDE DEF Op
    <2> QED  BY <1>1
  <1>3. table' = TableOf(s.rdr)
    BY <1>2, FoundIn DEF TableOf
  <1>4. fw' = s /\ kind' = kind /\ reply' = [op |-> op, key |-> k, want |-> want, r |-> r]
    BY DEF Done
  <1> QED  BY <1>3, <1>4 DEF BackInv, Bsd, IsState

\* A daemon that starts has no rules and promises nothing.
LEMMA BackStart ==
    ASSUME kind # "nft", BackInit
    PROVE  BackInv /\ Promise!AbsInit
  <1>1. kind \in {"pf", "ipf", "ipfw"} /\ fw.rdr = <<>> /\ table = [k \in Keys |-> NoTarget]
    BY BackEndsAssumption DEF BackInit
  <1>2. OnceEach(<<>>)
    BY DEF OnceEach
  <1>3. IsState(fw)
    BY <1>2 DEF IsState, BackInit
  <1>4. \A k : TargetIn(<<>>, k) = NoTarget
    BY <1>2, TargetFound
  <1>5. table = TableOf(fw.rdr)
    BY <1>1, <1>4 DEF TableOf
  <1> QED  BY <1>1, <1>3, <1>5 DEF BackInv, Bsd, BackInit, Promise!AbsInit, Promise!Free

\* AddPortMapping
LEMMA AddIsPromised ==
    ASSUME BackInv, ListsRules, NEW m \in Mapping, NEW t, NEW same, NEW junk, NEW at,
           BackAdd(m, t, same, junk, at)
    PROVE  BackInv' /\ Promise!AbsNext /\ \A x \in Keys \ {Key(m)} : table'[x] = table[x]
  <1> DEFINE k == Key(m)
             want == [iaddr |-> m.iaddr, iport |-> m.iport]
  <1>a. PICK fails \in Fails : \E out \in {RedirectRule(fw, m, t, same, junk, at, fails)} :
          Done("add", k, want, out.s, out.r, fails)
    BY DEF BackAdd
  <1>1. PICK out \in {RedirectRule(fw, m, t, same, junk, at, fails)} :
          Done("add", k, want, out.s, out.r, fails)
    BY <1>a
  <1>2. "get" \notin fails
    BY <1>a DEF Fails, ListsRules
  <1>3. out = RedirectRule(fw, m, t, same, junk, at, fails) /\ IsState(fw) /\ Bsd
    BY <1>1 DEF BackInv
  <1>4. AddsFor(fw, out, m)
    BY <1>2, <1>3, RuleAdds
  <1>5. k \in Keys /\ want \in [iaddr : Iaddrs, iport : Iports] /\ want = TargetOf(m)
        /\ want.iaddr = m.iaddr
    BY MappingTyped DEF TargetOf
  <1>6. table = TableOf(fw.rdr)
    BY DEF BackInv
  <1> HIDE DEF k, want
  <1>7. IsState(out.s)
    BY <1>3, <1>4 DEF AddsFor, ChangesFor, TurnsTo
  <1>8. /\ BackInv' /\ table' = TableOf(out.s.rdr)
        /\ reply' = [op |-> "add", key |-> k, want |-> want, r |-> out.r]
    BY <1>1, <1>3, <1>7, CallDone
  <1>9. ASSUME OfClient(fw, m), ChangesFor(fw, out, k, want) PROVE Promise!AbsNext
    <2>1. Promise!SameClient(table[k], want)
      BY <1>3, <1>5, <1>6, <1>9, ClientOf DEF k, Promise!SameClient
    <2>2. CASE out.r = 0 /\ TurnsTo(fw, out.s, k, want)
      <3>1. table' = [table EXCEPT ![k] = want]
        BY <1>6, <1>8, <2>2 DEF TurnsTo
      <3> QED  BY <1>5, <1>8, <2>1, <2>2, <3>1 DEF Promise!AbsNext, Promise!AbsAdd, Promise!Answer
    <2>3. CASE out.r = -1 /\ \E u \in {table[k], want, NoTarget} : TurnsTo(fw, out.s, k, u)
      <3>1. \E u \in {table[k], want, NoTarget} : table' = [table EXCEPT ![k] = u]
        BY <1>6, <1>8, <2>3 DEF TurnsTo
      <3> QED  BY <1>5, <1>8, <2>1, <2>3, <3>1 DEF Promise!AbsNext, Promise!AbsAdd, Promise!Answer
    <2> QED  BY <1>6, <1>9, <2>2, <2>3 DEF ChangesFor
  <1>10. ASSUME out.r = -2, out.s = fw, table[k] # NoTarget PROVE Promise!AbsNext
    BY <1>5, <1>6, <1>8, <1>10 DEF Promise!AbsNext, Promise!AbsAdd, Promise!Answer
  <1>11. \A x \in Keys \ {k} : table'[x] = table[x]
    <2>1. CASE OfClient(fw, m) /\ ChangesFor(fw, out, k, want)
      <3>1. PICK u : table' = [table EXCEPT ![k] = u]
        BY <1>6, <1>8, <2>1 DEF ChangesFor, TurnsTo
      <3> QED  BY <1>6, <3>1 DEF TableOf
    <2>2. CASE out.s = fw
      BY <1>6, <1>8, <2>2
    <2> QED  BY <1>4, <1>5, <2>1, <2>2 DEF AddsFor, k
  <1> QED  BY <1>4, <1>5, <1>6, <1>8, <1>9, <1>10, <1>11 DEF AddsFor, k

\* DeletePortMapping
LEMMA DeleteIsPromised ==
    ASSUME BackInv, NEW k \in Keys, BackDelete(k)
    PROVE  BackInv' /\ Promise!AbsNext /\ \A x \in Keys : table'[x] \in {table[x], NoTarget}
  <1>a. PICK fails \in Fails : \E out \in {DeleteRule(fw, k, fails)} :
          Done("delete", k, NoTarget, out.s, out.r, fails)
    BY DEF BackDelete
  <1>1. PICK out \in {DeleteRule(fw, k, fails)} :
          Done("delete", k, NoTarget, out.s, out.r, fails)
    BY <1>a
  <1>2. DeletesFor(fw, out, k)
    BY <1>1, RuleDeletes DEF BackInv
  <1>3. Bsd /\ IsState(out.s) /\ table = TableOf(fw.rdr)
    BY <1>2 DEF BackInv, DeletesFor, TurnsTo
  <1>4. /\ BackInv' /\ table' = TableOf(out.s.rdr)
        /\ reply' = [op |-> "delete", key |-> k, want |-> NoTarget, r |-> out.r]
    BY <1>1, <1>3, CallDone
  <1>5. Promise!AbsDelete(k)
    BY <1>2, <1>3, <1>4 DEF DeletesFor, TurnsTo, Promise!AbsDelete, Promise!Answer
  <1>6. PICK u \in {table[k], NoTarget} : table' = [table EXCEPT ![k] = u]
    BY <1>2, <1>3, <1>4 DEF DeletesFor, TurnsTo
  <1>7. \A x \in Keys : table'[x] \in {table[x], NoTarget}
    BY <1>3, <1>6 DEF TableOf
  <1> QED  BY <1>4, <1>5, <1>7 DEF Promise!AbsNext

\* Every step keeps the invariant and is a step of PortMaps or none.
LEMMA BackStep ==
    ASSUME BackInv, ListsRules, [BackNext]_bvars
    PROVE  BackInv' /\ [Promise!AbsNext]_<<table, reply>>
  <1>1. CASE UNCHANGED bvars
    BY <1>1 DEF bvars, BackInv, Bsd, IsState
  <1>2. ASSUME NEW m \in Mapping, NEW t, NEW same, NEW junk, NEW at,
               BackAdd(m, t, same, junk, at)
        PROVE  BackInv' /\ Promise!AbsNext
    BY <1>2, AddIsPromised
  <1>3. ASSUME NEW k \in Keys, BackDelete(k) PROVE BackInv' /\ Promise!AbsNext
    BY <1>3, DeleteIsPromised
  <1>4. ASSUME NEW p \in Peers, BackPeer(p) PROVE FALSE
    BY <1>4 DEF BackPeer, BackInv, Bsd
  <1> QED  BY <1>1, <1>2, <1>3, <1>4 DEF BackNext

\* pf, ipfilter and ipfw, whichever the build is for, are the table of commonrdr.h:
\* a call changes the mapping it is about only, an answer of 0 is true, and a failure,
\* whichever steps the kernel refused, leaves what was there, what was asked for
\* or nothing. The kernel has to answer when it is asked for its rules: a port
\* that could not be looked up is taken for a free one (obsdrdr.c, ipfrdr.c and
\* ipfwrdr.c answer -1 for both).
THEOREM BackEndsArePortMaps ==
    ASSUME ListsRules
    PROVE  BackSpec /\ kind # "nft" => IsPortMaps
  <1>1. BackInit /\ kind # "nft" => BackInv /\ Promise!AbsInit
    BY BackStart
  <1>2. BackInv /\ [BackNext]_bvars => BackInv' /\ [Promise!AbsNext]_<<table, reply>>
    BY BackStep
  <1> QED  BY <1>1, <1>2, PTL DEF BackSpec, IsPortMaps, Promise!AbsSpec

-----------------------------------------------------------------------------
(***************************************************************************)
(* The listings.                                                           *)
(***************************************************************************)
\* The ports of a list of rules
KeysOf(q) == {Key(q[i]) : i \in 1 .. Len(q)}

\* There are as many ports with a target as rules.
LEMMA KeysCounted ==
    ASSUME NEW q, OnceEach(q)
    PROVE  /\ KeysOf(q) = {k \in Keys : TableOf(q)[k] # NoTarget}
           /\ IsFiniteSet(KeysOf(q)) /\ Cardinality(KeysOf(q)) = Len(q)
  <1> DEFINE n == Len(q)
             f == [i \in 1 .. n |-> Key(q[i])]
  <1>1. n \in Nat /\ \A i \in 1 .. n : q[i] \in Mapping /\ Key(q[i]) \in Keys
    BY MappingTyped DEF OnceEach
  <1>2. \A k \in Keys : k \in KeysOf(q) <=> TargetIn(q, k) # NoTarget
    <2> TAKE k \in Keys
    <2>1. ASSUME NEW i \in 1 .. n, Key(q[i]) = k PROVE TargetIn(q, k) # NoTarget
      BY <1>1, <2>1, TargetFound, MappingTyped
    <2>2. (\A i \in 1 .. n : Key(q[i]) # k) => TargetIn(q, k) = NoTarget
      BY TargetFound
    <2> QED  BY <2>1, <2>2 DEF KeysOf
  <1>3. KeysOf(q) = {k \in Keys : TableOf(q)[k] # NoTarget}
    BY <1>1, <1>2 DEF KeysOf, TableOf
  <1>4. f \in Bijection(1 .. n, KeysOf(q))
    <2>1. f \in [1 .. n -> KeysOf(q)]
      BY DEF KeysOf
    <2>2. \A i, j \in 1 .. n : f[i] = f[j] => i = j
      BY DEF OnceEach
    <2>3. \A k \in KeysOf(q) : \E i \in 1 .. n : f[i] = k
      BY DEF KeysOf
    <2> HIDE DEF f
    <2> QED  BY <2>1, <2>2, <2>3 DEF Bijection, Injection, Surjection, IsInjective
  <1>5. IsFiniteSet(1 .. n) /\ Cardinality(1 .. n) = n
    BY <1>1, PlacesCounted
  <1>6. ExistsBijection(1 .. n, KeysOf(q))
    BY <1>4 DEF ExistsBijection
  <1> QED  BY <1>3, <1>5, <1>6, FS_Bijection

\* get_redirect_rule_by_index() of each: the rules and then an end
LEMMA RuleByIndex ==
    ASSUME Bsd, NEW s, IsState(s), NEW i \in Nat
    PROVE  /\ i < Len(s.rdr) => ByIndex(s, i).r = 0 /\ ByIndex(s, i).s = s.rdr[i + 1]
           /\ i >= Len(s.rdr) => ByIndex(s, i).r = -1
  <1> DEFINE n == Len(s.rdr)
             rules == IpfwRules(s)
  <1>1. n \in Nat /\ s.rdr \in Seq(Mapping)
    BY DEF IsState, OnceEach
  <1>2. CASE kind = "pf"
    <2>1. ByIndex(s, i) = IF i >= n THEN Out(s, -1) ELSE Out(s.rdr[i + 1], 0)
      BY <1>2 DEF ByIndex, PfByIndex
    <2> QED  BY <1>1, <2>1 DEF Out
  <1>3. CASE kind = "ipf"
    <2>1. ByIndex(s, i) = IF i >= n THEN Out(s, -1) ELSE Out(s.rdr[i + 1], 0)
      BY <1>3 DEF ByIndex, IpfByIndex
    <2> QED  BY <1>1, <2>1 DEF Out
  <1>4. CASE kind = "ipfw"
    <2>1. ByIndex(s, i) = IF i >= Len(rules) \/ rules[i + 1] = Default THEN Out(s, -1)
                          ELSE Out(rules[i + 1], 0)
      BY <1>4 DEF ByIndex, IpfwByIndex
    <2>2. Len(rules) = n + 1 /\ rules[n + 1] = Default /\ \A j \in 1 .. n : rules[j] = s.rdr[j]
      BY <1>1 DEF IpfwRules
    <2>3. \A m \in Mapping : m # Default
      <3> TAKE m \in Mapping
      <3>1. m.proto # "any"
        BY MappingTyped
      <3> QED  BY <3>1 DEF Default
    <2> HIDE DEF rules
    <2>4. CASE i < n
      <3>1. i + 1 \in 1 .. n
        BY <1>1, <2>4
      <3>2. rules[i + 1] = s.rdr[i + 1] /\ s.rdr[i + 1] \in Mapping
        BY <1>1, <2>2, <3>1
      <3>3. ~(i >= Len(rules) \/ rules[i + 1] = Default)
        BY <1>1, <2>2, <2>3, <2>4, <3>2
      <3> QED  BY <1>1, <2>1, <2>4, <3>2, <3>3 DEF Out
    <2>5. CASE i >= n
      <3>1. i >= Len(rules) \/ rules[i + 1] = Default
        BY <1>1, <2>2, <2>5
      <3> QED  BY <1>1, <2>1, <2>5, <3>1 DEF Out
    <2> QED  BY <1>1, <2>4, <2>5
  <1> QED  BY <1>2, <1>3, <1>4 DEF Bsd

\* The loop over the indexes sees every rule in its place.
LEMMA ListedByIndex ==
    ASSUME Bsd, NEW s, IsState(s), Len(s.rdr) <= MaxRules
    PROVE  Len(Listing(s)) = Len(s.rdr) /\ \A i \in 1 .. Len(s.rdr) : Listing(s)[i] = s.rdr[i]
  <1> DEFINE n == Len(s.rdr)
             Ends(m) == ByIndex(s, m).r = -1 /\ \A i \in 0 .. m - 1 : ByIndex(s, i).r = 0
             end == CHOOSE m \in 0 .. MaxRules + 1 : Ends(m)
  <1>1. n \in Nat /\ MaxRules \in Nat /\ n \in 0 .. MaxRules + 1
    BY BackEndsAssumption DEF IsState, OnceEach
  <1>2. \A i \in Nat : (i < n => ByIndex(s, i).r = 0 /\ ByIndex(s, i).s = s.rdr[i + 1])
                       /\ (i >= n => ByIndex(s, i).r = -1)
    BY RuleByIndex
  <1>3. Ends(n)
    BY <1>1, <1>2
  <1>4. \A m \in 0 .. MaxRules + 1 : Ends(m) => m = n
    <2> SUFFICES ASSUME NEW m \in 0 .. MaxRules + 1, Ends(m), m # n PROVE FALSE
      OBVIOUS
    <2>1. CASE m < n
      BY <1>1, <1>2, <2>1
    <2>2. CASE m > n
      <3>1. n \in 0 .. m - 1
        BY <1>1, <2>2
      <3> QED  BY <1>1, <1>2, <3>1
    <2> QED  BY <1>1, <2>1, <2>2
  <1> HIDE DEF Ends
  <1>5. end = n
    BY <1>1, <1>3, <1>4
  <1>6. Listing(s) = [i \in 1 .. end |-> ByIndex(s, i - 1).s]
    BY DEF Listing, Ends
  <1> HIDE DEF end
  <1>7. \A i \in 1 .. n : ByIndex(s, i - 1).s = s.rdr[i]
    <2> TAKE i \in 1 .. n
    <2>1. i - 1 \in Nat /\ i - 1 < n /\ (i - 1) + 1 = i
      BY <1>1
    <2> QED  BY <1>2, <2>1
  <1> QED  BY <1>1, <1>5, <1>6, <1>7

\* The rules of a protocol in a range of ports
InRange(e, from, to, proto) == e.proto = proto /\ e.eport \in from .. to

\* get_portmappings_in_range() of each: the ports of those rules
LEMMA RangeListed ==
    ASSUME Bsd, NEW s, IsState(s), NEW from, NEW to, NEW proto
    PROVE  PortsInRange(s, from, to, proto)
             = {s.rdr[i].eport : i \in {j \in 1 .. Len(s.rdr) : InRange(s.rdr[j], from, to, proto)}}
  <1> DEFINE q == s.rdr
             seqs == [i \in DOMAIN q |-> IF q[i].proto = proto /\ q[i].eport \in from .. to
                                         THEN <<q[i]>> ELSE <<>>]
             r == FlattenSeq(seqs)
  <1>1. q \in Seq(Mapping)
    BY DEF IsState, OnceEach
  <1>2. PortsInRange(s, from, to, proto) = {r[i].eport : i \in 1 .. Len(r)}
    <2>1. CASE kind = "pf"
      BY <2>1 DEF PortsInRange, PfInRange, Those
    <2>2. CASE kind = "ipf"
      BY <2>2 DEF PortsInRange, IpfInRange, Those
    <2>3. CASE kind = "ipfw"
      <3>1. Front(FetchRuleset(s, Chunk)) = q
        BY <1>1, AllFetched
      <3>2. IpfwInRange(s, from, to, proto, Chunk) = r
        BY <3>1 DEF IpfwInRange, Those
      <3> HIDE DEF r
      <3> QED  BY <2>3, <3>2 DEF PortsInRange
    <2> QED  BY <2>1, <2>2, <2>3 DEF Bsd
  <1>3. Picks(seqs, q) /\ \A i \in 1 .. Len(q) : seqs[i] # <<>> <=> InRange(q[i], from, to, proto)
    BY <1>1 DEF Picks, InRange
  <1> HIDE DEF seqs, q
  <1>4. PICK f : Picked(r, f, Len(q), seqs, q)
    BY <1>1, <1>3, PickedOnes
  <1> HIDE DEF r
  <1>5. \A i \in 1 .. Len(r) : f[i] \in 1 .. Len(q) /\ r[i] = q[f[i]] /\ InRange(q[f[i]], from, to, proto)
    BY <1>3, <1>4 DEF Picked
  <1>6. \A j \in 1 .. Len(q) : InRange(q[j], from, to, proto) => \E i \in 1 .. Len(r) : r[i] = q[j]
    BY <1>3, <1>4 DEF Picked
  <1> QED  BY <1>2, <1>5, <1>6 DEF q

-----------------------------------------------------------------------------
\* No more rules than the bound, which is on the ports that are mapped.
FewRules == BackInv /\ Len(fw.rdr) <= MaxRules

\* No call maps more ports than its guard lets it.
LEMMA FewStep ==
    ASSUME FewRules, ListsRules, [BackNext]_bvars
    PROVE  FewRules'
  <1>1. BackInv' /\ BackInv
    BY BackStep DEF FewRules
  <1> DEFINE Mapped == {k \in Keys : table[k] # NoTarget}
  <1>2. /\ Mapped = KeysOf(fw.rdr) /\ IsFiniteSet(Mapped) /\ Cardinality(Mapped) = Len(fw.rdr)
        /\ Mapped' = KeysOf(fw'.rdr) /\ Cardinality(Mapped') = Len(fw'.rdr)
    <2>1. OnceEach(fw.rdr) /\ OnceEach(fw'.rdr) /\ table = TableOf(fw.rdr) /\ table' = TableOf(fw'.rdr)
      BY <1>1 DEF BackInv, IsState
    <2> QED  BY <2>1, KeysCounted
  <1>3. MaxRules \in Nat /\ Len(fw.rdr) \in Nat /\ Len(fw'.rdr) \in Nat
    BY <1>1, BackEndsAssumption DEF BackInv, IsState, OnceEach
  <1>4. ASSUME NEW S, IsFiniteSet(S), Cardinality(S) <= MaxRules, Mapped' \subseteq S PROVE FewRules'
    <2>1. Cardinality(S) \in Nat /\ Cardinality(Mapped') <= Cardinality(S)
      BY <1>4, FS_Subset, FS_CardinalityType
    <2> QED  BY <1>1, <1>2, <1>3, <1>4, <2>1 DEF FewRules
  <1>5. CASE UNCHANGED bvars
    BY <1>1, <1>5 DEF bvars, FewRules
  <1>6. ASSUME NEW m \in Mapping, NEW t, NEW same, NEW junk, NEW at,
               BackAdd(m, t, same, junk, at)
        PROVE  FewRules'
    <2>1. \A x \in Keys \ {Key(m)} : table'[x] = table[x]
      BY <1>1, <1>6, AddIsPromised
    <2>2. Cardinality(Mapped \cup {Key(m)}) <= MaxRules
      BY <1>6 DEF BackAdd
    <2>3. IsFiniteSet(Mapped \cup {Key(m)})
      BY <1>2, FS_AddElement
    <2>4. Mapped' \subseteq Mapped \cup {Key(m)}
      BY <2>1
    <2> HIDE DEF Mapped
    <2> QED  BY <1>4, <2>2, <2>3, <2>4
  <1>7. ASSUME NEW k \in Keys, BackDelete(k) PROVE FewRules'
    <2>1. \A x \in Keys : table'[x] \in {table[x], NoTarget}
      BY <1>1, <1>7, DeleteIsPromised
    <2>2. Mapped' \subseteq Mapped
      BY <2>1
    <2> HIDE DEF Mapped
    <2> QED  BY <1>2, <1>4, <2>2 DEF FewRules
  <1>8. ASSUME NEW p \in Peers, BackPeer(p) PROVE FALSE
    BY <1>1, <1>8 DEF BackPeer, BackInv, Bsd
  <1> QED  BY <1>5, <1>6, <1>7, <1>8 DEF BackNext

\* What the listings say of a list of rules is what the table says.
LEMMA ListsTable ==
    ASSUME FewRules
    PROVE  ListingTrue
  <1> DEFINE q == fw.rdr
             n == Len(q)
             list == Listing(fw)
             Ports(proto) == {k.eport : k \in {x \in Keys : x.proto = proto /\ table[x] # NoTarget}}
             all == {k.eport : k \in Keys}
  <1>1. /\ Bsd /\ IsState(fw) /\ OnceEach(q) /\ table = TableOf(q) /\ n <= MaxRules
        /\ n \in Nat /\ q \in Seq(Mapping)
    BY DEF FewRules, BackInv, IsState, OnceEach
  <1>2. /\ KeysOf(q) = {k \in Keys : table[k] # NoTarget} /\ Cardinality(KeysOf(q)) = n
    BY <1>1, KeysCounted
  <1>3. Len(list) = n /\ \A i \in 1 .. n : list[i] = q[i]
    BY <1>1, ListedByIndex
  <1> HIDE DEF list
  <1>4. {Key(list[i]) : i \in 1 .. Len(list)} = KeysOf(q)
    BY <1>3 DEF KeysOf
  <1>5. ASSUME NEW proto \in {"TCP", "UDP"}, NEW from \in all, NEW to \in all
        PROVE  PortsInRange(fw, from, to, proto) = Ports(proto) \cap from .. to
    <2>1. PortsInRange(fw, from, to, proto)
            = {q[i].eport : i \in {j \in 1 .. n : InRange(q[j], from, to, proto)}}
      BY <1>1, RangeListed
    <2>2. Ports(proto) = {q[i].eport : i \in {j \in 1 .. n : q[j].proto = proto}}
      <3>1. Ports(proto) = {k.eport : k \in {x \in KeysOf(q) : x.proto = proto}}
        BY <1>2
      <3>2. \A i \in 1 .. n : Key(q[i]).eport = q[i].eport /\ Key(q[i]).proto = q[i].proto
        BY DEF Key
      <3> HIDE DEF q
      <3> QED  BY <3>1, <3>2 DEF KeysOf
    <2> HIDE DEF q, Ports, all
    <2> QED  BY <2>1, <2>2 DEF InRange
  <1>6. \A c \in Chains : ~ fw.cache[c].valid
    BY <1>1 DEF IsState
  <1>7. /\ {Key(list[i]) : i \in 1 .. Len(list)} = {k \in Keys : table[k] # NoTarget}
        /\ Cardinality({Key(list[i]) : i \in 1 .. Len(list)}) = Len(list)
    BY <1>2, <1>3, <1>4
  <1> QED  BY <1>5, <1>6, <1>7 DEF ListingTrue, list

\* pf, ipfilter and ipfw list what there is: each mapping is there by index once and
\* nothing else is, also where ipfw fetches the rules in pieces, and a range of ports
\* has the mapped ones that are in it.
THEOREM ListingsAreTrue ==
    ASSUME ListsRules
    PROVE  BackSpec /\ kind # "nft" => []ListingTrue
  <1>1. BackInit /\ kind # "nft" => FewRules
    BY BackStart, BackEndsAssumption DEF FewRules, BackInit
  <1>2. FewRules /\ [BackNext]_bvars => FewRules'
    BY FewStep
  <1>3. FewRules => ListingTrue
    BY ListsTable
  <1> QED  BY <1>1, <1>2, <1>3, PTL DEF BackSpec

-----------------------------------------------------------------------------
(***************************************************************************)
(* What a client was granted stays. The lists beside the redirections: the *)
(* ends of the leases have one entry for a port at most, and none for a    *)
(* free port (Booked); no internal address and port has more redirections  *)
(* than filter rules or, for UDP, than rules for port triggering (Covers). *)
(***************************************************************************)
\* A list with one entry for a port at most, and its entry for a port
Once(q, T) == /\ q \in Seq(T)
              /\ \A i, j \in 1 .. Len(q) : Key(q[i]) = Key(q[j]) => i = j

At(q, k) == {q[i] : i \in {j \in 1 .. Len(q) : Key(q[j]) = k}}

\* The entry is what a search finds.
LEMMA FoundAt ==
    ASSUME NEW T, NEW q, Once(q, T), NEW k
    PROVE  /\ FirstOf(q, k) = 0 <=> At(q, k) = {}
           /\ FirstOf(q, k) = 0 <=> k \notin KeysOf(q)
           /\ FirstOf(q, k) # 0 => /\ At(q, k) = {q[FirstOf(q, k)]} /\ Key(q[FirstOf(q, k)]) = k
                                   /\ FirstOf(q, k) \in 1 .. Len(q) /\ q[FirstOf(q, k)] \in T
  <1> DEFINE f == FirstOf(q, k)
  <1>1. q \in Seq(T) /\ \A i, j \in 1 .. Len(q) : Key(q[i]) = Key(q[j]) => i = j
    BY DEF Once
  <1>2. /\ f \in 0 .. Len(q)
        /\ f # 0 => Key(q[f]) = k
        /\ f = 0 => \A i \in 1 .. Len(q) : Key(q[i]) # k
    BY <1>1, FirstFound
  <1> HIDE DEF f
  <1>3. CASE f = 0
    BY <1>2, <1>3 DEF At, KeysOf, f
  <1>4. CASE f # 0
    <2>1. f \in 1 .. Len(q) /\ Key(q[f]) = k /\ q[f] \in T
      BY <1>1, <1>2, <1>4
    <2>2. \A i \in 1 .. Len(q) : Key(q[i]) = k => i = f
      BY <1>1, <2>1
    <2>3. At(q, k) = {q[f]} /\ k \in KeysOf(q)
      BY <2>1, <2>2 DEF At, KeysOf
    <2> QED  BY <1>4, <2>1, <2>3 DEF f
  <1> QED  BY <1>3, <1>4

\* What a list is after an entry was added for a port without one
Grown(r, q, T, x) == /\ Once(r, T) /\ KeysOf(r) = KeysOf(q) \cup {Key(x)}
                     /\ At(r, Key(x)) = {x}
                     /\ \A k : k # Key(x) => At(r, k) = At(q, k)

\* An entry is added at the end.
LEMMA OnceAppend ==
    ASSUME NEW T, NEW q, Once(q, T), NEW x \in T, Key(x) \notin KeysOf(q)
    PROVE  Grown(Append(q, x), q, T, x)
  <1> DEFINE r == Append(q, x)
  <1>1. PICK n \in Nat : n = Len(q)
    BY DEF Once
  <1>2. /\ r \in Seq(T) /\ Len(r) = n + 1 /\ r[n + 1] = x /\ \A i \in 1 .. n : r[i] = q[i]
        /\ \A i : i \in 1 .. n + 1 <=> i \in 1 .. n \/ i = n + 1
    BY <1>1 DEF Once
  <1> HIDE DEF r
  <1>3. \A i \in 1 .. n : Key(q[i]) # Key(x)
    BY <1>1 DEF KeysOf
  <1>4. Once(r, T)
    BY <1>1, <1>2, <1>3 DEF Once
  <1>5. KeysOf(r) = KeysOf(q) \cup {Key(x)}
    BY <1>1, <1>2 DEF KeysOf
  <1>6. At(r, Key(x)) = {x}
    BY <1>1, <1>2, <1>3 DEF At
  <1>7. \A k : k # Key(x) => At(r, k) = At(q, k)
    BY <1>1, <1>2, <1>3 DEF At
  <1> QED  BY <1>4, <1>5, <1>6, <1>7 DEF Grown, r

\* An entry is added at the head.
LEMMA OncePrepend ==
    ASSUME NEW T, NEW q, Once(q, T), NEW x \in T, Key(x) \notin KeysOf(q)
    PROVE  Grown(<<x>> \o q, q, T, x)
  <1> DEFINE r == <<x>> \o q
  <1>1. PICK n \in Nat : n = Len(q)
    BY DEF Once
  <1>2. /\ r \in Seq(T) /\ Len(r) = n + 1 /\ r[1] = x /\ \A i \in 1 .. n : r[i + 1] = q[i]
    BY <1>1 DEF Once
  <1>3. \A i : i \in 1 .. n + 1 <=> i = 1 \/ \E j \in 1 .. n : i = j + 1
    <2>1. ASSUME NEW i \in 1 .. n + 1, i # 1 PROVE \E j \in 1 .. n : i = j + 1
      <3>1. i - 1 \in 1 .. n /\ i = (i - 1) + 1
        BY <1>1, <2>1
      <3> QED  BY <3>1
    <2> QED  BY <1>1, <2>1
  <1> HIDE DEF r
  <1>4. \A i \in 1 .. n : Key(q[i]) # Key(x)
    BY <1>1 DEF KeysOf
  <1>5. Once(r, T)
    <2>1. ASSUME NEW i \in 1 .. n + 1, NEW j \in 1 .. n + 1, Key(r[i]) = Key(r[j]) PROVE i = j
      BY <1>1, <1>2, <1>3, <1>4, <2>1 DEF Once
    <2> QED  BY <1>2, <2>1 DEF Once
  <1>6. KeysOf(r) = KeysOf(q) \cup {Key(x)}
    BY <1>1, <1>2, <1>3 DEF KeysOf
  <1>7. At(r, Key(x)) = {x}
    <2>1. \A i \in 1 .. n + 1 : Key(r[i]) = Key(x) => i = 1
      BY <1>1, <1>2, <1>3, <1>4
    <2>2. 1 \in 1 .. Len(r) /\ Key(r[1]) = Key(x)
      BY <1>1, <1>2
    <2> QED  BY <1>2, <2>1, <2>2 DEF At
  <1>8. \A k : k # Key(x) => At(r, k) = At(q, k)
    <2> TAKE k
    <2> SUFFICES ASSUME k # Key(x) PROVE At(r, k) = At(q, k)
      OBVIOUS
    <2>1. \A y \in At(r, k) : y \in At(q, k)
      BY <1>1, <1>2, <1>3 DEF At
    <2>2. \A j \in 1 .. n : j + 1 \in 1 .. n + 1
      OBVIOUS
    <2>3. \A y \in At(q, k) : y \in At(r, k)
      BY <1>1, <1>2, <2>2 DEF At
    <2> QED  BY <2>1, <2>3
  <1> QED  BY <1>5, <1>6, <1>7, <1>8 DEF Grown, r

\* What a list is after the entry of a port was taken out, if there was one
Shrunk(r, q, T, k) == /\ Once(r, T) /\ KeysOf(r) = KeysOf(q) \ {k} /\ At(r, k) = {}
                      /\ \A x : x # k => At(r, x) = At(q, x)

\* The entry of a port is taken out.
LEMMA OnceCut ==
    ASSUME NEW T, NEW q, Once(q, T), NEW k
    PROVE  Shrunk(Without(q, FirstOf(q, k)), q, T, k)
  <1> DEFINE i == FirstOf(q, k)
             r == Without(q, i)
  <1>1. CASE i = 0
    <2>1. r = q /\ At(q, k) = {} /\ k \notin KeysOf(q)
      BY <1>1, FoundAt DEF Without
    <2>2. KeysOf(q) = KeysOf(q) \ {k}
      BY <2>1
    <2> HIDE DEF r, i
    <2>3. Shrunk(r, q, T, k)
      BY <2>1, <2>2 DEF Shrunk
    <2> QED  BY <2>3 DEF r, i
  <1>2. CASE i # 0
    <2>0. i \in 1 .. Len(q) /\ Key(q[i]) = k
      BY <1>2, FoundAt
    <2>1. r = RemoveAt(q, i) /\ q \in Seq(T)
      BY <1>2 DEF Without, Once
    <2>2. r \in Seq(T) /\ \E f : Thinned(r, q, f, {i})
      <3> HIDE DEF i
      <3> QED  BY <2>0, <2>1, CutThinned
    <2>3. PICK f : Thinned(r, q, f, {i})
      BY <2>2
    <2> HIDE DEF i, r
    <2>4. /\ \A j \in 1 .. Len(r) : f[j] \in 1 .. Len(q) /\ r[j] = q[f[j]] /\ f[j] # i
          /\ \A j, l \in 1 .. Len(r) : f[j] = f[l] => j = l
          /\ \A m \in 1 .. Len(q) : m # i => \E j \in 1 .. Len(r) : f[j] = m
      BY <2>3 DEF Thinned
    <2>5. \A a, b \in 1 .. Len(q) : Key(q[a]) = Key(q[b]) => a = b
      BY DEF Once
    <2>6. Once(r, T)
      <3>1. ASSUME NEW a \in 1 .. Len(r), NEW b \in 1 .. Len(r), Key(r[a]) = Key(r[b]) PROVE a = b
        <4>1. Key(q[f[a]]) = Key(q[f[b]]) /\ f[a] \in 1 .. Len(q) /\ f[b] \in 1 .. Len(q)
          BY <2>4, <3>1
        <4> QED  BY <2>4, <2>5, <4>1
      <3> QED  BY <2>2, <3>1 DEF Once
    <2>7. \A j \in 1 .. Len(r) : Key(r[j]) # k
      <3> SUFFICES ASSUME NEW j \in 1 .. Len(r), Key(r[j]) = k PROVE FALSE
        OBVIOUS
      <3>1. f[j] \in 1 .. Len(q) /\ r[j] = q[f[j]] /\ f[j] # i
        BY <2>4
      <3>2. f[j] = i
        BY <2>0, <2>5, <3>1
      <3> QED  BY <3>1, <3>2
    <2>8. \A m \in 1 .. Len(q) : Key(q[m]) # k => \E j \in 1 .. Len(r) : r[j] = q[m]
      BY <2>0, <2>4
    <2>9. KeysOf(r) = KeysOf(q) \ {k}
      <3>1. \A y \in KeysOf(r) : y \in KeysOf(q) /\ y # k
        BY <2>4, <2>7 DEF KeysOf
      <3>2. \A y \in KeysOf(q) : y # k => y \in KeysOf(r)
        <4> TAKE y \in KeysOf(q)
        <4> SUFFICES ASSUME y # k PROVE y \in KeysOf(r)
          OBVIOUS
        <4>1. PICK m \in 1 .. Len(q) : y = Key(q[m])
          BY DEF KeysOf
        <4>2. PICK j \in 1 .. Len(r) : r[j] = q[m]
          BY <2>8, <4>1
        <4> QED  BY <4>1, <4>2 DEF KeysOf
      <3> QED  BY <3>1, <3>2
    <2>10. At(r, k) = {}
      BY <2>7 DEF At
    <2>11. \A x : x # k => At(r, x) = At(q, x)
      BY <2>4, <2>8 DEF At
    <2>12. Shrunk(r, q, T, k)
      BY <2>6, <2>9, <2>10, <2>11 DEF Shrunk
    <2> QED  BY <2>12 DEF r, i
  <1> QED  BY <1>1, <1>2

-----------------------------------------------------------------------------
(***************************************************************************)
(* The lists beside the redirections.                                      *)
(***************************************************************************)
NatType == [eport : Nat, iaddr : Iaddrs, iport : Iports]

FilterType == [iaddr : Iaddrs, port : Iports \cup Nat, proto : {"TCP", "UDP"}, rhost : Rhosts]

StampType == [eport : Nat, proto : {"TCP", "UDP"}, time : Nat]

Typed(s) == IsState(s) /\ s.nat \in Seq(NatType) /\ s.filter \in Seq(FilterType)

\* The end of the lease is kept for the mapped ports only, and once
Booked(s) == /\ Typed(s) /\ Once(s.stamps, StampType)
             /\ KeysOf(s.stamps) \subseteq KeysOf(s.rdr)

\* Nothing changes for the other ports
OtherRules(s, t, k) == \A x : x # k => At(t.rdr, x) = At(s.rdr, x)

Others(s, t, k) == OtherRules(s, t, k) /\ \A x : x # k => At(t.stamps, x) = At(s.stamps, x)

\* One call after the other for the same port.
LEMMA OthersTwice ==
    ASSUME NEW s, NEW t, NEW u, NEW k
    PROVE  /\ Others(s, s, k)
           /\ Others(s, t, k) /\ Others(t, u, k) => Others(s, u, k)
           /\ Others(s, t, k) /\ u.rdr = t.rdr /\ u.stamps = t.stamps => Others(s, u, k)
           /\ OtherRules(s, s, k)
           /\ OtherRules(s, t, k) /\ OtherRules(t, u, k) => OtherRules(s, u, k)
           /\ OtherRules(s, t, k) /\ u.rdr = t.rdr => OtherRules(s, u, k)
  BY DEF Others, OtherRules

\* A list of mappings has one entry for a port.
LEMMA OnceRules ==
    ASSUME NEW q
    PROVE  OnceEach(q) <=> Once(q, Mapping)
  BY DEF OnceEach, Once

\* The end of a lease is that of the entry, and 0 where there is none.
LEMMA TimeAt ==
    ASSUME NEW q, Once(q, StampType), NEW k
    PROVE  /\ At(q, k) = {} => TimeIn(q, k) = 0
           /\ \A x : At(q, k) = {x} => TimeIn(q, k) = x.time
           /\ \A r : Once(r, StampType) /\ At(r, k) = At(q, k) => TimeIn(r, k) = TimeIn(q, k)
  <1>1. ASSUME NEW r, Once(r, StampType)
        PROVE  /\ At(r, k) = {} => TimeIn(r, k) = 0
               /\ \A x : At(r, k) = {x} => TimeIn(r, k) = x.time
               /\ At(r, k) = {} \/ \E x : At(r, k) = {x}
    <2>1. /\ FirstOf(r, k) = 0 <=> At(r, k) = {}
          /\ FirstOf(r, k) # 0 => At(r, k) = {r[FirstOf(r, k)]}
      BY <1>1, FoundAt
    <2>2. TimeIn(r, k) = IF FirstOf(r, k) = 0 THEN 0 ELSE r[FirstOf(r, k)].time
      BY DEF TimeIn
    <2>3. ASSUME NEW x, At(r, k) = {x} PROVE TimeIn(r, k) = x.time
      <3>1. FirstOf(r, k) # 0 /\ r[FirstOf(r, k)] = x
        BY <2>1, <2>3
      <3> QED  BY <2>2, <3>1
    <2> QED  BY <2>1, <2>2, <2>3
  <1>2. ASSUME NEW r, Once(r, StampType), At(r, k) = At(q, k) PROVE TimeIn(r, k) = TimeIn(q, k)
    BY <1>1, <1>2
  <1> QED  BY <1>1, <1>2

\* The rule m was added to s with the end of its lease
Added(s, t, m, time) ==
    /\ Booked(t) /\ Others(s, t, Key(m)) /\ At(t.rdr, Key(m)) = {m}
    /\ TimeIn(t.stamps, Key(m)) = time
    /\ t.rdr = Append(s.rdr, m) /\ t.nat = s.nat /\ t.filter = s.filter

\* A redirection is added, with an entry for the end of its lease or, where it has
\* none, perhaps without.
LEMMA RuleBooked ==
    ASSUME NEW s, Booked(s), NEW m \in Mapping, FirstOf(s.rdr, Key(m)) = 0, NEW time \in Nat
    PROVE  /\ Added(s, AddStamp([s EXCEPT !.rdr = Append(@, m)], Key(m), time), m, time)
           /\ time = 0 => Added(s, [s EXCEPT !.rdr = Append(@, m)], m, time)
  <1> DEFINE k == Key(m)
             x == Stamp(k, time)
             r == Append(s.rdr, m)
             q == <<x>> \o s.stamps
             t == [s EXCEPT !.rdr = Append(@, m)]
             u == AddStamp(t, k, time)
  <1>1. /\ s = [rdr |-> s.rdr, filter |-> s.filter, nat |-> s.nat, stamps |-> s.stamps,
                chain |-> s.chain, cache |-> s.cache]
        /\ OnceEach(s.rdr) /\ Once(s.rdr, Mapping) /\ Once(s.stamps, StampType)
        /\ KeysOf(s.stamps) \subseteq KeysOf(s.rdr)
    BY OnceRules DEF Booked, Typed, IsState
  <1>2. k \notin KeysOf(s.rdr) /\ k \notin KeysOf(s.stamps)
    BY <1>1, FoundAt
  <1>3. Key(x) = k /\ x \in StampType /\ x.time = time
    <2>1. k.eport \in Nat /\ k.proto \in {"TCP", "UDP"} /\ k = [eport |-> k.eport, proto |-> k.proto]
      BY MappingTyped DEF Key
    <2> HIDE DEF k
    <2> QED  BY <2>1 DEF Stamp, Key, StampType
  <1> HIDE DEF x
  <1>4. Grown(r, s.rdr, Mapping, m)
    BY <1>1, <1>2, OnceAppend
  <1>5. Grown(q, s.stamps, StampType, x)
    BY <1>1, <1>2, <1>3, OncePrepend
  <1>6. AddsRule(s, t, m) /\ IsState(t)
    BY RuleAppended DEF AddsRule, Booked, Typed
  <1>7. /\ t.rdr = r /\ t.stamps = s.stamps /\ t.nat = s.nat /\ t.filter = s.filter
        /\ t = [rdr |-> t.rdr, filter |-> t.filter, nat |-> t.nat, stamps |-> t.stamps,
                chain |-> t.chain, cache |-> t.cache]
    BY <1>1
  <1> HIDE DEF t
  <1>8. KeepsRules(t, u)
    BY <1>6, StampsKept
  <1>9. u.stamps = <<x>> \o t.stamps /\ u.rdr = t.rdr /\ u.nat = t.nat /\ u.filter = t.filter
    BY <1>7 DEF AddStamp, x
  <1> HIDE DEF u, r, q
  <1>10. u.stamps = q
    BY <1>7, <1>9 DEF q
  <1>11. Booked(u) /\ Others(s, u, k)
    <2>1. Typed(u)
      BY <1>7, <1>8, <1>9 DEF KeepsRules, Typed, Booked
    <2>2. KeysOf(q) \subseteq KeysOf(r)
      BY <1>1, <1>3, <1>4, <1>5 DEF Grown
    <2> QED  BY <1>3, <1>4, <1>5, <1>7, <1>9, <1>10, <2>1, <2>2 DEF Booked, Grown, Others, OtherRules
  <1>12. TimeIn(q, k) = time
    BY <1>3, <1>5, TimeAt DEF Grown
  <1>13. Added(s, u, m, time)
    BY <1>4, <1>7, <1>9, <1>10, <1>11, <1>12 DEF Added, Grown, r
  <1>14. ASSUME time = 0 PROVE Added(s, t, m, time)
    <2>1. Booked(t) /\ Others(s, t, k)
      <3>1. Typed(t)
        BY <1>6, <1>7 DEF Typed, Booked
      <3> QED  BY <1>1, <1>4, <1>7, <3>1 DEF Booked, Grown, Others, OtherRules
    <2>2. At(s.stamps, k) = {}
      BY <1>1, <1>2, FoundAt
    <2>3. TimeIn(s.stamps, k) = 0
      BY <1>1, <2>2, TimeAt
    <2> QED  BY <1>4, <1>7, <1>14, <2>1, <2>3 DEF Added, Grown, r
  <1> QED  BY <1>13, <1>14 DEF t, u, k

\* The rule of k and the end of its lease were removed from s
Removed(s, t, k) ==
    /\ Booked(t) /\ Others(s, t, k) /\ At(t.rdr, k) = {} /\ FirstOf(t.rdr, k) = 0
    /\ t.rdr = RemoveAt(s.rdr, FirstOf(s.rdr, k)) /\ t.nat = s.nat /\ t.filter = s.filter

\* A redirection is removed, with the entry for the end of its lease.
LEMMA RuleStruck ==
    ASSUME NEW s, Booked(s), NEW k, FirstOf(s.rdr, k) # 0
    PROVE  Removed(s, DelStamp([s EXCEPT !.rdr = RemoveAt(@, FirstOf(s.rdr, k))], k), k)
  <1> DEFINE r == RemoveAt(s.rdr, FirstOf(s.rdr, k))
             q == Without(s.stamps, FirstOf(s.stamps, k))
             t == [s EXCEPT !.rdr = RemoveAt(@, FirstOf(s.rdr, k))]
             u == DelStamp(t, k)
  <1>1. /\ s = [rdr |-> s.rdr, filter |-> s.filter, nat |-> s.nat, stamps |-> s.stamps,
                chain |-> s.chain, cache |-> s.cache]
        /\ Once(s.rdr, Mapping) /\ Once(s.stamps, StampType)
        /\ KeysOf(s.stamps) \subseteq KeysOf(s.rdr)
    BY OnceRules DEF Booked, Typed, IsState
  <1>2. Shrunk(r, s.rdr, Mapping, k)
    <2>1. Without(s.rdr, FirstOf(s.rdr, k)) = r
      BY DEF Without
    <2> HIDE DEF r
    <2> QED  BY <1>1, <2>1, OnceCut
  <1>3. Shrunk(q, s.stamps, StampType, k)
    BY <1>1, OnceCut
  <1>4. TakesRule(s, t, k) /\ IsState(t)
    BY RuleTaken DEF TakesRule, Booked, Typed
  <1>5. /\ t.rdr = r /\ t.stamps = s.stamps /\ t.nat = s.nat /\ t.filter = s.filter
        /\ t = [rdr |-> t.rdr, filter |-> t.filter, nat |-> t.nat, stamps |-> t.stamps,
                chain |-> t.chain, cache |-> t.cache]
    BY <1>1
  <1> HIDE DEF t
  <1>6. KeepsRules(t, u)
    BY <1>4, StampsKept
  <1>7. u.stamps = Without(t.stamps, FirstOf(t.stamps, k)) /\ u.rdr = t.rdr /\ u.nat = t.nat
        /\ u.filter = t.filter
    BY <1>5 DEF DelStamp
  <1>8. FirstOf(r, k) = 0
    BY <1>4, <1>5 DEF TakesRule
  <1> HIDE DEF u, r, q
  <1>9. u.stamps = q
    BY <1>5, <1>7 DEF q
  <1>10. Booked(u) /\ Others(s, u, k)
    <2>1. Typed(u)
      BY <1>5, <1>6, <1>7 DEF KeepsRules, Typed, Booked
    <2>2. KeysOf(q) \subseteq KeysOf(r)
      BY <1>1, <1>2, <1>3 DEF Shrunk
    <2> QED  BY <1>2, <1>3, <1>5, <1>7, <1>9, <2>1, <2>2 DEF Booked, Shrunk, Others, OtherRules
  <1>11. Removed(s, u, k)
    BY <1>2, <1>5, <1>7, <1>8, <1>10 DEF Removed, Shrunk, r
  <1> QED  BY <1>11 DEF u, t

\* The end of the lease of k was set in s
Renewed(s, t, k, time) ==
    /\ Booked(t) /\ Others(s, t, k) /\ TimeIn(t.stamps, k) = time
    /\ t.rdr = s.rdr /\ t.nat = s.nat /\ t.filter = s.filter

\* The end of the lease of a mapped port is set.
LEMMA TimeRenewed ==
    ASSUME NEW s, Booked(s), NEW m \in Mapping, FirstOf(s.rdr, Key(m)) # 0, NEW time \in Nat
    PROVE  Renewed(s, AddStamp(DelStamp(s, Key(m)), Key(m), time), Key(m), time)
  <1> DEFINE k == Key(m)
             x == Stamp(k, time)
             q == Without(s.stamps, FirstOf(s.stamps, k))
             w == <<x>> \o q
             t == DelStamp(s, k)
             u == AddStamp(t, k, time)
  <1>1. /\ s = [rdr |-> s.rdr, filter |-> s.filter, nat |-> s.nat, stamps |-> s.stamps,
                chain |-> s.chain, cache |-> s.cache]
        /\ IsState(s) /\ Once(s.rdr, Mapping) /\ Once(s.stamps, StampType)
        /\ KeysOf(s.stamps) \subseteq KeysOf(s.rdr)
    BY OnceRules DEF Booked, Typed, IsState
  <1>2. Key(x) = k /\ x \in StampType /\ x.time = time
    <2>1. k.eport \in Nat /\ k.proto \in {"TCP", "UDP"} /\ k = [eport |-> k.eport, proto |-> k.proto]
      BY MappingTyped DEF Key
    <2> HIDE DEF k
    <2> QED  BY <2>1 DEF Stamp, Key, StampType
  <1> HIDE DEF x
  <1>3. Shrunk(q, s.stamps, StampType, k)
    BY <1>1, OnceCut
  <1> HIDE DEF q
  <1>4. Grown(w, q, StampType, x)
    BY <1>2, <1>3, OncePrepend DEF Shrunk
  <1>5. KeepsRules(s, t) /\ IsState(t)
    BY <1>1, StampsKept DEF KeepsRules
  <1>6. t.stamps = q /\ t.rdr = s.rdr /\ t.nat = s.nat /\ t.filter = s.filter
        /\ t = [rdr |-> t.rdr, filter |-> t.filter, nat |-> t.nat, stamps |-> t.stamps,
                chain |-> t.chain, cache |-> t.cache]
    BY <1>1 DEF DelStamp, q
  <1> HIDE DEF t
  <1>7. KeepsRules(t, u)
    BY <1>5, StampsKept
  <1>8. u.stamps = <<x>> \o t.stamps /\ u.rdr = t.rdr /\ u.nat = t.nat /\ u.filter = t.filter
    BY <1>6 DEF AddStamp, x
  <1> HIDE DEF u
  <1>9. u.stamps = w
    BY <1>6, <1>8
  <1> HIDE DEF w
  <1>10. k \in KeysOf(s.rdr)
    BY <1>1, FoundAt
  <1>11. Booked(u) /\ Others(s, u, k)
    <2>1. Typed(u)
      BY <1>6, <1>7, <1>8 DEF KeepsRules, Typed, Booked
    <2>2. KeysOf(w) \subseteq KeysOf(s.rdr)
      BY <1>1, <1>2, <1>3, <1>4, <1>10 DEF Grown, Shrunk
    <2> QED  BY <1>2, <1>3, <1>4, <1>6, <1>8, <1>9, <2>1, <2>2
             DEF Booked, Grown, Shrunk, Others, OtherRules
  <1>12. TimeIn(w, k) = time
    BY <1>2, <1>4, TimeAt DEF Grown
  <1>13. Renewed(s, u, k, time)
    BY <1>6, <1>8, <1>9, <1>11, <1>12 DEF Renewed
  <1> QED  BY <1>13 DEF u, t, k

-----------------------------------------------------------------------------
(***************************************************************************)
(* One list covers another: C has pairs of sets, and of each pair q has no *)
(* more members in the first than r has in the second, with d more in q    *)
(* where m would be counted.                                               *)
(***************************************************************************)
More(m, S, d) == IF m \in S THEN d ELSE 0

Covers(q, r, C, m, d) == \A c \in C : Tally(q, c[1]) + More(m, c[1], d) <= Tally(r, c[2])

\* The numbers are integers.
LEMMA CoverTyped ==
    ASSUME NEW T, NEW q \in Seq(T), NEW S, NEW m, NEW d \in Int
    PROVE  Tally(q, S) \in Nat /\ More(m, S, d) \in Int /\ OneIn(m, S) \in Nat
           /\ More(m, S, d - 1) + OneIn(m, S) = More(m, S, d)
           /\ More(m, S, d + 1) - OneIn(m, S) = More(m, S, d)
           /\ More(m, S, 1) >= 0 /\ More(m, S, 0) = 0 /\ More(m, S, 1) = OneIn(m, S)
           /\ More(m, S, -1) = 0 - OneIn(m, S)
  BY TallyTyped DEF More, OneIn

\* A member more in the list that is covered.
LEMMA CoverAppend ==
    ASSUME NEW T, NEW q \in Seq(T), NEW U, NEW r \in Seq(U), NEW C, NEW m \in T, NEW d \in Int,
           Covers(q, r, C, m, d)
    PROVE  Covers(Append(q, m), r, C, m, d - 1)
  <1> SUFFICES ASSUME NEW c \in C
               PROVE  Tally(Append(q, m), c[1]) + More(m, c[1], d - 1) <= Tally(r, c[2])
    BY DEF Covers
  <1>1. Tally(Append(q, m), c[1]) = Tally(q, c[1]) + OneIn(m, c[1])
    BY TallyAppend
  <1>2. /\ Tally(q, c[1]) \in Nat /\ More(m, c[1], d) \in Int /\ OneIn(m, c[1]) \in Nat
        /\ More(m, c[1], d - 1) + OneIn(m, c[1]) = More(m, c[1], d)
        /\ More(m, c[1], d - 1) \in Int
    BY CoverTyped
  <1>3. Tally(r, c[2]) \in Nat
    BY CoverTyped
  <1>4. Tally(q, c[1]) + More(m, c[1], d) <= Tally(r, c[2])
    BY DEF Covers
  <1> QED  BY <1>1, <1>2, <1>3, <1>4

\* A member less in the list that is covered.
LEMMA CoverCut ==
    ASSUME NEW T, NEW q \in Seq(T), NEW U, NEW r \in Seq(U), NEW C, NEW i \in 1 .. Len(q),
           NEW d \in Int, NEW m, m = q[i], Covers(q, r, C, m, d)
    PROVE  Covers(RemoveAt(q, i), r, C, m, d + 1)
  <1> SUFFICES ASSUME NEW c \in C
               PROVE  Tally(RemoveAt(q, i), c[1]) + More(m, c[1], d + 1) <= Tally(r, c[2])
    BY DEF Covers
  <1>1. Tally(RemoveAt(q, i), c[1]) = Tally(q, c[1]) - OneIn(m, c[1])
    BY TallyCut
  <1>2. Tally(q, c[1]) + More(m, c[1], d) <= Tally(r, c[2])
    BY DEF Covers
  <1>3. /\ Tally(q, c[1]) \in Nat /\ More(m, c[1], d) \in Int /\ OneIn(m, c[1]) \in Nat
        /\ More(m, c[1], d + 1) - OneIn(m, c[1]) = More(m, c[1], d)
        /\ More(m, c[1], d + 1) \in Int
    BY CoverTyped
  <1>4. Tally(r, c[2]) \in Nat
    BY CoverTyped
  <1> QED  BY <1>1, <1>2, <1>3, <1>4

\* A member more in the list that covers: x, which is counted where m is.
LEMMA CoverMore ==
    ASSUME NEW T, NEW q \in Seq(T), NEW U, NEW r \in Seq(U), NEW C, NEW m, NEW x \in U,
           \A c \in C : m \in c[1] => x \in c[2], Covers(q, r, C, m, -1)
    PROVE  Covers(q, Append(r, x), C, m, 0)
  <1> SUFFICES ASSUME NEW c \in C
               PROVE  Tally(q, c[1]) + More(m, c[1], 0) <= Tally(Append(r, x), c[2])
    BY DEF Covers
  <1>1. Tally(Append(r, x), c[2]) = Tally(r, c[2]) + OneIn(x, c[2])
    BY TallyAppend
  <1>2. /\ Tally(q, c[1]) \in Nat /\ OneIn(m, c[1]) \in Nat /\ More(m, c[1], 0) = 0
        /\ More(m, c[1], -1) = 0 - OneIn(m, c[1])
    BY CoverTyped
  <1>3. Tally(r, c[2]) \in Nat /\ OneIn(x, c[2]) \in Nat
    BY TallyTyped DEF OneIn
  <1>4. OneIn(m, c[1]) <= OneIn(x, c[2])
    BY DEF OneIn
  <1>5. Tally(q, c[1]) + More(m, c[1], -1) <= Tally(r, c[2])
    BY DEF Covers
  <1> QED  BY <1>1, <1>2, <1>3, <1>4, <1>5

\* A member less in the list that covers: it is counted where m is only.
LEMMA CoverLess ==
    ASSUME NEW T, NEW q \in Seq(T), NEW U, NEW r \in Seq(U), NEW C, NEW m, NEW i \in 1 .. Len(r),
           \A c \in C : r[i] \in c[2] => m \in c[1], Covers(q, r, C, m, 1)
    PROVE  Covers(q, RemoveAt(r, i), C, m, 0)
  <1> DEFINE x == r[i]
  <1> SUFFICES ASSUME NEW c \in C
               PROVE  Tally(q, c[1]) + More(m, c[1], 0) <= Tally(RemoveAt(r, i), c[2])
    BY DEF Covers
  <1>1. Tally(RemoveAt(r, i), c[2]) = Tally(r, c[2]) - OneIn(x, c[2])
    BY TallyCut
  <1>2. OneIn(x, c[2]) <= OneIn(m, c[1])
    BY DEF OneIn
  <1> HIDE DEF x
  <1>3. /\ Tally(q, c[1]) \in Nat /\ OneIn(m, c[1]) \in Nat /\ More(m, c[1], 0) = 0
        /\ More(m, c[1], 1) = OneIn(m, c[1])
    BY CoverTyped
  <1>4. Tally(r, c[2]) \in Nat /\ OneIn(x, c[2]) \in Nat
    BY TallyTyped DEF OneIn
  <1>5. Tally(q, c[1]) + More(m, c[1], 1) <= Tally(r, c[2])
    BY DEF Covers
  <1> QED  BY <1>1, <1>2, <1>3, <1>4, <1>5

\* What covers one more covers.
LEMMA CoverSpare ==
    ASSUME NEW T, NEW q \in Seq(T), NEW U, NEW r \in Seq(U), NEW C, NEW m, NEW x
    PROVE  /\ Covers(q, r, C, m, 1) => Covers(q, r, C, x, 0)
           /\ Covers(q, r, C, m, 0) => Covers(q, r, C, x, 0)
           /\ (\A c \in C : m \notin c[1]) /\ Covers(q, r, C, m, -1) => Covers(q, r, C, x, 0)
  <1>1. ASSUME NEW d \in Int, Covers(q, r, C, m, d), \A c \in C : More(m, c[1], d) >= 0
        PROVE  Covers(q, r, C, x, 0)
    <2> SUFFICES ASSUME NEW c \in C
                 PROVE  Tally(q, c[1]) + More(x, c[1], 0) <= Tally(r, c[2])
      BY DEF Covers
    <2>1. Tally(q, c[1]) \in Nat /\ More(m, c[1], d) \in Int /\ More(x, c[1], 0) = 0
      BY CoverTyped
    <2>2. Tally(r, c[2]) \in Nat
      BY CoverTyped
    <2>3. Tally(q, c[1]) + More(m, c[1], d) <= Tally(r, c[2])
      BY <1>1 DEF Covers
    <2> QED  BY <1>1, <2>1, <2>2, <2>3
  <1>2. \A c \in C : More(m, c[1], 1) >= 0 /\ More(m, c[1], 0) >= 0
    BY DEF More
  <1>3. (\A c \in C : m \notin c[1]) => \A c \in C : More(m, c[1], -1) >= 0
    BY DEF More
  <1> QED  BY <1>1, <1>2, <1>3

-----------------------------------------------------------------------------
(***************************************************************************)
(* pf: what a call does to the three lists of the kernel.                  *)
(***************************************************************************)
RdrTo(a, p, proto) == {m \in Mapping : m.iaddr = a /\ m.iport = p /\ m.proto = proto}

TriggerTo(a, p) == {n \in NatType : n.iaddr = a /\ n.iport = p}

FilterTo(a, p, proto) == {f \in FilterType : f.iaddr = a /\ f.port = p /\ f.proto = proto}

Triggers == {<<RdrTo(a, p, "UDP"), TriggerTo(a, p)>> : a \in Iaddrs, p \in Iports}

Filters == {<<RdrTo(a, p, proto), FilterTo(a, p, proto)>> :
               a \in Iaddrs, p \in Iports, proto \in {"TCP", "UDP"}}

\* A state in a call: with pf the redirections have their rules for port triggering,
\* d more where m has its own, and their filter rules, e more, as long as the kernel
\* refuses nothing (open)
Good(s, m, d, e, open) ==
    /\ Booked(s)
    /\ kind = "pf" => /\ Covers(s.rdr, s.nat, Triggers, m, d)
                      /\ open => Covers(s.rdr, s.filter, Filters, m, e)

\* The port of m has m, for the time
Has(t, m, time) == At(t.rdr, Key(m)) = {m} /\ TimeIn(t.stamps, Key(m)) = time

SameRules(s, t) == t.rdr = s.rdr /\ t.stamps = s.stamps

\* The other two lists may be what they like.
LEMMA BesideBooked ==
    ASSUME NEW s, Booked(s)
    PROVE  /\ \A x \in Seq(NatType) : LET t == [s EXCEPT !.nat = x]
                                      IN  /\ Booked(t) /\ SameRules(s, t)
                                          /\ t.nat = x /\ t.filter = s.filter
           /\ \A x \in Seq(FilterType) : LET t == [s EXCEPT !.filter = x]
                                         IN  /\ Booked(t) /\ SameRules(s, t)
                                             /\ t.nat = s.nat /\ t.filter = x
  <1>1. s = [rdr |-> s.rdr, filter |-> s.filter, nat |-> s.nat, stamps |-> s.stamps,
             chain |-> s.chain, cache |-> s.cache] /\ IsState(s)
    BY DEF Booked, Typed, IsState
  <1>2. ASSUME NEW x, NEW t, t = [s EXCEPT !.nat = x]
        PROVE  IsState(t) /\ SameRules(s, t) /\ t.nat = x /\ t.filter = s.filter
    BY <1>1, <1>2, StateFields DEF KeepsRules, SameRules
  <1>3. ASSUME NEW x, NEW t, t = [s EXCEPT !.filter = x]
        PROVE  IsState(t) /\ SameRules(s, t) /\ t.nat = s.nat /\ t.filter = x
    BY <1>1, <1>3, StateFields DEF KeepsRules, SameRules
  <1>4. ASSUME NEW x \in Seq(NatType), NEW t, t = [s EXCEPT !.nat = x]
        PROVE  Booked(t) /\ SameRules(s, t) /\ t.nat = x /\ t.filter = s.filter
    BY <1>2, <1>4 DEF Booked, Typed, SameRules
  <1>5. ASSUME NEW x \in Seq(FilterType), NEW t, t = [s EXCEPT !.filter = x]
        PROVE  Booked(t) /\ SameRules(s, t) /\ t.nat = s.nat /\ t.filter = x
    BY <1>3, <1>5 DEF Booked, Typed, SameRules
  <1> QED  BY <1>4, <1>5

\* The lists of a state have types.
LEMMA BookedLists ==
    ASSUME NEW s, Booked(s)
    PROVE  /\ s.rdr \in Seq(Mapping) /\ s.nat \in Seq(NatType) /\ s.filter \in Seq(FilterType)
           /\ IsState(s) /\ OnceEach(s.rdr) /\ Once(s.rdr, Mapping) /\ Once(s.stamps, StampType)
  BY OnceRules DEF Booked, Typed, IsState, OnceEach

\* Where nothing more is counted, it does not matter for which mapping.
LEMMA GoodSpare ==
    ASSUME NEW s, NEW m, NEW x, NEW d \in {0, 1}, NEW e \in {0, 1}, NEW open, Good(s, m, d, e, open)
    PROVE  Good(s, x, 0, 0, open)
  <1>1. Booked(s) /\ s.rdr \in Seq(Mapping) /\ s.nat \in Seq(NatType) /\ s.filter \in Seq(FilterType)
    BY BookedLists DEF Good
  <1>2. ASSUME Covers(s.rdr, s.nat, Triggers, m, d) PROVE Covers(s.rdr, s.nat, Triggers, x, 0)
    BY <1>1, <1>2, CoverSpare
  <1>3. ASSUME Covers(s.rdr, s.filter, Filters, m, e) PROVE Covers(s.rdr, s.filter, Filters, x, 0)
    BY <1>1, <1>3, CoverSpare
  <1> QED  BY <1>1, <1>2, <1>3 DEF Good

\* The rule for port triggering is added with the redirection.
LEMMA TriggerAdded ==
    ASSUME kind = "pf", NEW s, NEW m \in Mapping, NEW e, NEW open, NEW fails, "nat" \notin fails,
           Good(s, m, -1, e, open)
    PROVE  Good(PfAddNat(s, m, fails), m, 0, e, open) /\ SameRules(s, PfAddNat(s, m, fails))
  <1> DEFINE x == [eport |-> m.eport, iaddr |-> m.iaddr, iport |-> m.iport]
             n == Append(s.nat, x)
             t == PfAddNat(s, m, fails)
  <1>1. /\ Booked(s) /\ s.rdr \in Seq(Mapping) /\ s.nat \in Seq(NatType)
        /\ Covers(s.rdr, s.nat, Triggers, m, -1)
        /\ open => Covers(s.rdr, s.filter, Filters, m, e)
    BY BookedLists DEF Good
  <1>2. CASE m.proto = "UDP"
    <2>1. x \in NatType /\ x.iaddr = m.iaddr /\ x.iport = m.iport
      BY MappingTyped DEF NatType
    <2> HIDE DEF x
    <2>2. \A c \in Triggers : m \in c[1] => x \in c[2]
      BY <2>1 DEF Triggers, RdrTo, TriggerTo
    <2>3. Covers(s.rdr, n, Triggers, m, 0)
      BY <1>1, <2>1, <2>2, CoverMore
    <2>4. n \in Seq(NatType)
      BY <1>1, <2>1
    <2>5. t = [s EXCEPT !.nat = n]
      BY <1>2 DEF PfAddNat, x
    <2> HIDE DEF n, t
    <2>6. Booked(t) /\ SameRules(s, t) /\ t.nat = n /\ t.filter = s.filter
      BY <1>1, <2>4, <2>5, BesideBooked
    <2>7. Good(t, m, 0, e, open) /\ SameRules(s, t)
      BY <1>1, <2>3, <2>6 DEF Good, SameRules
    <2> QED  BY <2>7 DEF t
  <1>3. CASE m.proto # "UDP"
    <2>1. t = s
      BY <1>3 DEF PfAddNat
    <2>2. \A c \in Triggers : m \notin c[1]
      BY <1>3 DEF Triggers, RdrTo
    <2>3. Covers(s.rdr, s.nat, Triggers, m, 0)
      BY <1>1, <2>2, CoverSpare
    <2> QED  BY <1>1, <2>1, <2>3 DEF Good, SameRules
  <1> QED  BY <1>2, <1>3

\* SelectInSeq: the place of one that is looked for, or 0.
LEMMA PlaceFound ==
    ASSUME NEW I, I \subseteq Nat, NEW i, i = IF I # {} THEN Min(I) ELSE 0
    PROVE  i # 0 => i \in I
  <1>1. CASE I = {}
    BY <1>1
  <1>2. CASE I # {}
    <2>1. PICK m \in I : \A j \in I : m <= j
      BY <1>2, LeastNatural
    <2>2. Min(I) = CHOOSE x \in I : \A y \in I : x <= y
      BY DEF Min
    <2> QED  BY <1>2, <2>1, <2>2
  <1> QED  BY <1>1, <1>2

\* The rule for port triggering goes with the redirection that went, or a rule too
\* many stays.
LEMMA TriggerDeleted ==
    ASSUME kind = "pf", NEW s, NEW m \in Mapping, NEW e, NEW open, NEW fails, Good(s, m, 1, e, open)
    PROVE  Good(PfDeleteNat(s, m, fails), m, 0, e, open) /\ SameRules(s, PfDeleteNat(s, m, fails))
  <1> DEFINE I == {j \in 1 .. Len(s.nat) : s.nat[j].iport = m.iport /\ s.nat[j].iaddr = m.iaddr}
             i == SelectInSeq(s.nat, LAMBDA x : x.iport = m.iport /\ x.iaddr = m.iaddr)
             n == RemoveAt(s.nat, i)
             t == PfDeleteNat(s, m, fails)
  <1>1. /\ Booked(s) /\ s.rdr \in Seq(Mapping) /\ s.nat \in Seq(NatType)
        /\ Covers(s.rdr, s.nat, Triggers, m, 1)
        /\ open => Covers(s.rdr, s.filter, Filters, m, e)
    BY BookedLists DEF Good
  <1>2. i # 0 => i \in 1 .. Len(s.nat) /\ s.nat[i].iport = m.iport /\ s.nat[i].iaddr = m.iaddr
    <2>1. i = IF I # {} THEN Min(I) ELSE 0
      BY DEF SelectInSeq
    <2>2. I \subseteq Nat
      OBVIOUS
    <2> HIDE DEF I, i
    <2>3. i # 0 => i \in I
      BY <2>1, <2>2, PlaceFound
    <2> QED  BY <2>3 DEF I
  <1>3. t = IF m.proto # "UDP" \/ fails \cap {"get", "unnat"} # {} THEN s
            ELSE [s EXCEPT !.nat = Without(@, i)]
    BY DEF PfDeleteNat
  <1> HIDE DEF i, t
  <1>4. CASE t = s
    <2>1. Covers(s.rdr, s.nat, Triggers, m, 0)
      BY <1>1, CoverSpare
    <2>2. Good(t, m, 0, e, open) /\ SameRules(s, t)
      BY <1>1, <1>4, <2>1 DEF Good, SameRules
    <2> QED  BY <2>2 DEF t
  <1>5. CASE m.proto = "UDP" /\ t = [s EXCEPT !.nat = Without(@, i)] /\ i # 0
    <2>1. i \in 1 .. Len(s.nat) /\ s.nat[i].iport = m.iport /\ s.nat[i].iaddr = m.iaddr
      BY <1>2, <1>5
    <2>2. \A c \in Triggers : s.nat[i] \in c[2] => m \in c[1]
      BY <1>5, <2>1 DEF Triggers, RdrTo, TriggerTo
    <2>3. Covers(s.rdr, n, Triggers, m, 0)
      BY <1>1, <2>1, <2>2, CoverLess
    <2>4. n \in Seq(NatType)
      BY <1>1, <2>1, CutThinned
    <2>5. t = [s EXCEPT !.nat = n]
      BY <1>5 DEF Without
    <2> HIDE DEF n
    <2>6. Booked(t) /\ SameRules(s, t) /\ t.nat = n /\ t.filter = s.filter
      BY <1>1, <2>4, <2>5, BesideBooked
    <2>7. Good(t, m, 0, e, open) /\ SameRules(s, t)
      BY <1>1, <2>3, <2>6 DEF Good, SameRules
    <2> QED  BY <2>7 DEF t
  <1>6. CASE t = [s EXCEPT !.nat = Without(@, i)] /\ i = 0
    <2>1. t = [s EXCEPT !.nat = s.nat]
      BY <1>6 DEF Without
    <2>2. t = s
      BY <1>1, <2>1 DEF Booked, Typed, IsState
    <2> QED  BY <1>4, <2>2
  <1> QED  BY <1>3, <1>4, <1>5, <1>6

\* A filter rule is added for a redirection without one.
LEMMA FilterAdded ==
    ASSUME kind = "pf", NEW s, NEW m \in Mapping, NEW open, NEW fails, open => fails = {},
           Good(s, m, 0, -1, open)
    PROVE  LET out == PfAddFilter(s, m, fails)
           IN  Good(out.s, m, 0, 0, open) /\ SameRules(s, out.s)
  <1> DEFINE x == [iaddr |-> m.iaddr, port |-> m.iport, proto |-> m.proto, rhost |-> m.rhost]
             n == Append(s.filter, x)
             out == PfAddFilter(s, m, fails)
             t == [s EXCEPT !.filter = n]
  <1>1. /\ Booked(s) /\ s.rdr \in Seq(Mapping) /\ s.filter \in Seq(FilterType)
        /\ Covers(s.rdr, s.nat, Triggers, m, 0)
        /\ open => Covers(s.rdr, s.filter, Filters, m, -1)
    BY BookedLists DEF Good
  <1>2. out = IF "filter" \in fails THEN Out(s, -1) ELSE Out(t, 0)
    BY DEF PfAddFilter
  <1>3. x \in FilterType /\ x.iaddr = m.iaddr /\ x.port = m.iport /\ x.proto = m.proto
    BY MappingTyped DEF FilterType
  <1> HIDE DEF x
  <1>4. \A c \in Filters : m \in c[1] => x \in c[2]
    BY <1>3 DEF Filters, RdrTo, FilterTo
  <1>5. open => Covers(s.rdr, n, Filters, m, 0)
    BY <1>1, <1>3, <1>4, CoverMore
  <1>6. n \in Seq(FilterType)
    BY <1>1, <1>3
  <1> HIDE DEF n, out
  <1>7. Booked(t) /\ SameRules(s, t) /\ t.nat = s.nat /\ t.filter = n
    BY <1>1, <1>6, BesideBooked
  <1> HIDE DEF t
  <1>8. CASE "filter" \in fails
    <2>1. out.s = s /\ ~open
      BY <1>2, <1>8 DEF Out
    <2>2. Good(out.s, m, 0, 0, open) /\ SameRules(s, out.s)
      BY <1>1, <2>1 DEF Good, SameRules
    <2> QED  BY <2>2 DEF out
  <1>9. CASE "filter" \notin fails
    <2>1. out.s = t
      BY <1>2, <1>9 DEF Out
    <2>2. Good(out.s, m, 0, 0, open) /\ SameRules(s, out.s)
      BY <1>1, <1>5, <1>7, <2>1 DEF Good, SameRules
    <2> QED  BY <2>2 DEF out
  <1> QED  BY <1>8, <1>9

\* A filter rule goes with the redirection that went, or stays.
LEMMA FilterDeleted ==
    ASSUME kind = "pf", NEW s, NEW m \in Mapping, NEW d, NEW open, NEW fails, Good(s, m, d, 1, open)
    PROVE  LET out == PfDeleteFilter(s, m, fails)
           IN  Good(out.s, m, d, 0, open) /\ SameRules(s, out.s)
  <1> DEFINE I == {j \in 1 .. Len(s.filter) : /\ s.filter[j].port = m.iport
                                              /\ s.filter[j].proto = m.proto
                                              /\ s.filter[j].iaddr = m.iaddr}
             i == SelectInSeq(s.filter, LAMBDA x : /\ x.port = m.iport /\ x.proto = m.proto
                                                   /\ x.iaddr = m.iaddr)
             n == RemoveAt(s.filter, i)
             t == [s EXCEPT !.filter = n]
             out == PfDeleteFilter(s, m, fails)
  <1>1. /\ Booked(s) /\ s.rdr \in Seq(Mapping) /\ s.filter \in Seq(FilterType)
        /\ Covers(s.rdr, s.nat, Triggers, m, d)
        /\ open => Covers(s.rdr, s.filter, Filters, m, 1)
    BY BookedLists DEF Good
  <1>2. i # 0 => i \in I
    <2>1. i = IF I # {} THEN Min(I) ELSE 0
      BY DEF SelectInSeq
    <2>2. I \subseteq Nat
      OBVIOUS
    <2> HIDE DEF I, i
    <2> QED  BY <2>1, <2>2, PlaceFound
  <1>3. out = IF i = 0 \/ fails \cap {"get", "unfilter"} # {} THEN Out(s, -1)
              ELSE Out([s EXCEPT !.filter = RemoveAt(@, i)], 0)
    BY DEF PfDeleteFilter
  <1>4. [s EXCEPT !.filter = RemoveAt(@, i)] = t
    OBVIOUS
  <1> HIDE DEF i, t, out
  <1>5. CASE i = 0 \/ fails \cap {"get", "unfilter"} # {}
    <2>1. open => Covers(s.rdr, s.filter, Filters, m, 0)
      BY <1>1, CoverSpare
    <2>2. out.s = s
      BY <1>3, <1>5 DEF Out
    <2>3. Good(out.s, m, d, 0, open) /\ SameRules(s, out.s)
      BY <1>1, <2>1, <2>2 DEF Good, SameRules
    <2> QED  BY <2>3 DEF out
  <1>6. CASE i # 0 /\ fails \cap {"get", "unfilter"} = {}
    <2>1. /\ i \in 1 .. Len(s.filter) /\ s.filter[i].port = m.iport
          /\ s.filter[i].proto = m.proto /\ s.filter[i].iaddr = m.iaddr
      BY <1>2, <1>6
    <2>2. \A c \in Filters : s.filter[i] \in c[2] => m \in c[1]
      BY <2>1 DEF Filters, RdrTo, FilterTo
    <2>3. open => Covers(s.rdr, n, Filters, m, 0)
      BY <1>1, <2>1, <2>2, CoverLess
    <2>4. n \in Seq(FilterType)
      BY <1>1, <2>1, CutThinned
    <2> HIDE DEF n
    <2>5. Booked(t) /\ SameRules(s, t) /\ t.nat = s.nat /\ t.filter = n
      BY <1>1, <2>4, BesideBooked DEF t
    <2>6. out.s = t
      BY <1>3, <1>4, <1>6 DEF Out
    <2>7. Good(out.s, m, d, 0, open) /\ SameRules(s, out.s)
      BY <1>1, <2>3, <2>5, <2>6 DEF Good, SameRules
    <2> QED  BY <2>7 DEF out
  <1> QED  BY <1>5, <1>6

\* What a step that adds the rule m, or fails, does to a good state
Adding(s, out, m, time, open) ==
    \/ /\ out.r = 0 /\ Good(out.s, m, 0, IF kind = "pf" THEN -1 ELSE 0, open)
       /\ Has(out.s, m, time) /\ Others(s, out.s, Key(m))
    \/ out.r = -1 /\ out.s = s /\ ~open

\* add_redirect_rule2() of pf
LEMMA PfRuleAdded ==
    ASSUME kind = "pf", NEW s, NEW m \in Mapping, NEW time \in Nat, NEW open, NEW fails,
           open => fails = {}, "nat" \notin fails, Good(s, m, 0, 0, open),
           FirstOf(s.rdr, Key(m)) = 0
    PROVE  Adding(s, PfAddRedirect(s, m, time, fails), m, time, open)
  <1> DEFINE k == Key(m)
             added == [s EXCEPT !.rdr = Append(@, m)]
             timed == IF time > 0 THEN AddStamp(added, k, time) ELSE added
             t == PfAddNat(timed, m, fails)
             out == PfAddRedirect(s, m, time, fails)
  <1>1. /\ Booked(s) /\ s.rdr \in Seq(Mapping) /\ s.nat \in Seq(NatType)
        /\ s.filter \in Seq(FilterType)
        /\ Covers(s.rdr, s.nat, Triggers, m, 0)
        /\ open => Covers(s.rdr, s.filter, Filters, m, 0)
    BY BookedLists DEF Good
  <1>2. Added(s, timed, m, time)
    <2>1. Added(s, AddStamp(added, k, time), m, time) /\ (time = 0 => Added(s, added, m, time))
      BY <1>1, RuleBooked
    <2>2. time > 0 \/ time = 0
      OBVIOUS
    <2> HIDE DEF added
    <2> QED  BY <2>1, <2>2
  <1>3. out = IF "rdr" \in fails THEN Out(s, -1) ELSE Out(t, 0)
    BY DEF PfAddRedirect
  <1> HIDE DEF timed, out
  <1>4. Good(timed, m, -1, -1, open)
    <2>1. Covers(Append(s.rdr, m), s.nat, Triggers, m, 0 - 1)
      BY <1>1, CoverAppend
    <2>2. open => Covers(Append(s.rdr, m), s.filter, Filters, m, 0 - 1)
      BY <1>1, CoverAppend
    <2>3. 0 - 1 = -1
      OBVIOUS
    <2> QED  BY <1>2, <2>1, <2>2, <2>3 DEF Good, Added
  <1>5. Good(t, m, 0, -1, open) /\ SameRules(timed, t)
    BY <1>4, TriggerAdded
  <1> HIDE DEF t
  <1>6. Has(t, m, time) /\ Others(s, t, k)
    BY <1>2, <1>5 DEF Added, SameRules, Has, Others, OtherRules
  <1>7. Adding(s, out, m, time, open)
    <2>1. CASE "rdr" \in fails
      BY <1>3, <2>1 DEF Adding, Out
    <2>2. CASE "rdr" \notin fails
      BY <1>3, <1>5, <1>6, <2>2 DEF Adding, Out
    <2> QED  BY <2>1, <2>2
  <1> QED  BY <1>7 DEF out

\* What a step that removes the rule of k, or fails, does to a good state
Removing(s, out, k, open) ==
    \/ /\ out.r = 0 /\ FirstOf(s.rdr, k) # 0
       /\ Good(out.s, s.rdr[FirstOf(s.rdr, k)], 1, 1, open)
       /\ FirstOf(out.s.rdr, k) = 0 /\ At(out.s.rdr, k) = {} /\ Others(s, out.s, k)
    \/ out.r = -1 /\ out.s = s

\* A good state without a rule that it had.
LEMMA GoodCut ==
    ASSUME NEW s, NEW t, NEW m, NEW k, NEW open, Good(s, m, 0, 0, open), FirstOf(s.rdr, k) # 0,
           Removed(s, t, k)
    PROVE  Good(t, s.rdr[FirstOf(s.rdr, k)], 1, 1, open)
  <1> DEFINE i == FirstOf(s.rdr, k)
             old == s.rdr[i]
  <1>1. /\ Booked(s) /\ s.rdr \in Seq(Mapping) /\ s.nat \in Seq(NatType)
        /\ s.filter \in Seq(FilterType) /\ Once(s.rdr, Mapping)
    BY BookedLists DEF Good
  <1>2. i \in 1 .. Len(s.rdr)
    BY <1>1, FoundAt
  <1>3. Good(s, old, 0, 0, open)
    BY GoodSpare
  <1>4. 0 + 1 = 1
    OBVIOUS
  <1>5. t.rdr = RemoveAt(s.rdr, i) /\ t.nat = s.nat /\ t.filter = s.filter /\ Booked(t)
    BY DEF Removed
  <1>o. old = s.rdr[i] /\ 0 \in Int
    OBVIOUS
  <1> HIDE DEF i, old
  <1>6. ASSUME Covers(s.rdr, s.nat, Triggers, old, 0) PROVE Covers(t.rdr, t.nat, Triggers, old, 1)
    <2>1. Covers(RemoveAt(s.rdr, i), s.nat, Triggers, old, 0 + 1)
      BY <1>1, <1>2, <1>6, <1>o, CoverCut
    <2> QED  BY <1>4, <1>5, <2>1
  <1>7. ASSUME Covers(s.rdr, s.filter, Filters, old, 0) PROVE Covers(t.rdr, t.filter, Filters, old, 1)
    <2>1. Covers(RemoveAt(s.rdr, i), s.filter, Filters, old, 0 + 1)
      BY <1>1, <1>2, <1>7, <1>o, CoverCut
    <2> QED  BY <1>4, <1>5, <2>1
  <1>8. Good(t, old, 1, 1, open)
    BY <1>3, <1>5, <1>6, <1>7 DEF Good
  <1> QED  BY <1>8 DEF i, old

\* delete_redirect_rule() of pf and of ipfw
LEMMA RuleRemoval ==
    ASSUME NEW s, NEW m, NEW k, NEW open, NEW fails, Good(s, m, 0, 0, open)
    PROVE  /\ Removing(s, PfDeleteRedirect(s, k, fails), k, open)
           /\ Removing(s, IpfwDeleteRedirect(s, k, Chunk, fails), k, open)
  <1> DEFINE i == FirstOf(s.rdr, k)
             gone == [s EXCEPT !.rdr = RemoveAt(@, FirstOf(s.rdr, k))]
             t == DelStamp(gone, k)
             one == PfDeleteRedirect(s, k, fails)
             two == IpfwDeleteRedirect(s, k, Chunk, fails)
             fail == i = 0 \/ fails \cap {"get", "unrdr"} # {}
  <1>1. Booked(s) /\ IsState(s)
    BY BookedLists DEF Good
  <1>2. IpfwFind(s, k, Chunk) = i
    BY <1>1, IpfwFinds
  <1>3. one = IF fail THEN Out(s, -1) ELSE Out(t, 0)
    BY DEF PfDeleteRedirect, Without
  <1>4. two = IF fail THEN Out(s, -1) ELSE Out(t, 0)
    BY <1>2 DEF IpfwDeleteRedirect
  <1>5. i # 0 => Removed(s, t, k) /\ Good(t, s.rdr[i], 1, 1, open)
    <2> SUFFICES ASSUME i # 0 PROVE Removed(s, t, k) /\ Good(t, s.rdr[i], 1, 1, open)
      OBVIOUS
    <2>1. Removed(s, t, k)
      BY <1>1, RuleStruck
    <2> HIDE DEF t
    <2>2. Good(t, s.rdr[i], 1, 1, open)
      BY <2>1, GoodCut
    <2> QED  BY <2>1, <2>2
  <1> HIDE DEF one, two, t, i
  <1>6. ASSUME NEW out, out = IF fail THEN Out(s, -1) ELSE Out(t, 0)
        PROVE  Removing(s, out, k, open)
    BY <1>5, <1>6 DEF Removing, Removed, Out, i
  <1>7. Removing(s, one, k, open) /\ Removing(s, two, k, open)
    BY <1>3, <1>4, <1>6
  <1> QED  BY <1>7 DEF one, two

-----------------------------------------------------------------------------
\* What a call for the mapping m and the time does to a good state
Granting(s, out, m, time, open) ==
    /\ Good(out.s, m, 0, 0, open) /\ Others(s, out.s, Key(m))
    /\ At(out.s.rdr, Key(m)) \in {At(s.rdr, Key(m)), {m}, {}}
    /\ out.r = 0 => Has(out.s, m, time)

\* A call that fails and leaves the state as it was.
LEMMA GrantsNone ==
    ASSUME NEW s, NEW m, NEW time, NEW open, Good(s, m, 0, 0, open), NEW out, out.s = s, out.r # 0
    PROVE  Granting(s, out, m, time, open)
  BY OthersTwice DEF Granting

\* One call after the other: the second answers.
LEMMA GrantedTwice ==
    ASSUME NEW s, NEW m, NEW time, NEW open, NEW first, NEW out,
           Granting(s, first, m, time, open), Granting(first.s, out, m, time, open)
    PROVE  Granting(s, out, m, time, open)
  BY OthersTwice DEF Granting

\* pf: once the old rule is gone, the new one is added or the port is free.
LEMMA PfReplacement ==
    ASSUME kind = "pf", NEW s, NEW old \in Mapping, NEW m \in Mapping, NEW time \in Nat, NEW open,
           NEW fails, open => fails = {}, "nat" \notin fails, Good(s, old, 1, 1, open),
           FirstOf(s.rdr, Key(m)) = 0
    PROVE  Granting(s, PfReplace(s, old, m, time, fails), m, time, open)
  <1> DEFINE Filtered(add) == IF add.r < 0 THEN add ELSE PfAddFilter(add.s, m, fails)
             del == PfDeleteFilter(s, old, fails)
             add == PfAddRedirect(del.s, m, time, fails)
             Opened(x) == IF x.r < 0 THEN x
                          ELSE CHOOSE v \in {Filtered(y) : y \in {PfAddRedirect(x.s, m, time, fails)}} : TRUE
             out == PfReplace(s, old, m, time, fails)
  <1> SUFFICES Granting(s, out, m, time, open)
    OBVIOUS
  <1>1. out = CHOOSE v \in {Opened(x) : x \in {del}} : TRUE
    BY DEF PfReplace, On
  <1>2. Good(del.s, old, 1, 0, open) /\ SameRules(s, del.s)
    BY FilterDeleted
  <1>3. FirstOf(del.s.rdr, Key(m)) = 0 /\ Good(del.s, m, 0, 0, open)
    <2> HIDE DEF del
    <2> QED  BY <1>2, GoodSpare DEF SameRules
  <1>4. Adding(del.s, add, m, time, open)
    <2> HIDE DEF del
    <2> QED  BY <1>3, PfRuleAdded
  <1>d. del.r \in {-1, 0}
    BY DEF PfDeleteFilter, Out
  <1>5. out = Opened(del)
    <2> HIDE DEF Opened, del
    <2> QED  BY <1>1
  <1>6. Opened(del) = IF del.r < 0 THEN del ELSE CHOOSE v \in {Filtered(y) : y \in {add}} : TRUE
    OBVIOUS
  <1> HIDE DEF Opened, del, add, out
  <1>7. (CHOOSE v \in {Filtered(y) : y \in {add}} : TRUE) = Filtered(add)
    <2> HIDE DEF Filtered
    <2> QED  OBVIOUS
  <1>8. Others(s, del.s, Key(m)) /\ At(s.rdr, Key(m)) = At(del.s.rdr, Key(m))
    BY <1>2, OthersTwice DEF SameRules
  <1>9. CASE del.r < 0
    <2>1. out = del /\ out.r # 0
      BY <1>5, <1>6, <1>9
    <2> QED  BY <1>3, <1>8, <2>1 DEF Granting
  <1>10. CASE ~(del.r < 0) /\ add.r < 0
    <2>1. out = add /\ out.r # 0 /\ add.s = del.s
      BY <1>4, <1>5, <1>6, <1>7, <1>10 DEF Adding
    <2> QED  BY <1>3, <1>8, <2>1 DEF Granting
  <1>11. CASE ~(del.r < 0) /\ ~(add.r < 0)
    <2>1. out = PfAddFilter(add.s, m, fails) /\ Good(add.s, m, 0, -1, open)
          /\ Has(add.s, m, time) /\ Others(del.s, add.s, Key(m))
      BY <1>4, <1>5, <1>6, <1>7, <1>11 DEF Adding
    <2>2. Good(out.s, m, 0, 0, open) /\ SameRules(add.s, out.s)
      BY <2>1, FilterAdded
    <2>3. Others(s, out.s, Key(m))
      BY <1>8, <2>1, <2>2, OthersTwice DEF SameRules
    <2> QED  BY <2>1, <2>2, <2>3 DEF Granting, Has, SameRules
  <1> QED  BY <1>9, <1>10, <1>11

\* The rule of the port of m, if there is one, is m but for the internal port
PortFor(s, m) == \A x \in At(s.rdr, Key(m)) : x.iaddr = m.iaddr /\ x.rhost = m.rhost

\* A rule with the port of m put in is m.
LEMMA PortPutIn ==
    ASSUME NEW s, Booked(s), NEW m \in Mapping, FirstOf(s.rdr, Key(m)) # 0, PortFor(s, m)
    PROVE  /\ [s.rdr[FirstOf(s.rdr, Key(m))] EXCEPT !.iport = m.iport] = m
           /\ s.rdr[FirstOf(s.rdr, Key(m))] \in Mapping
           /\ At(s.rdr, Key(m)) = {s.rdr[FirstOf(s.rdr, Key(m))]}
  <1> DEFINE old == s.rdr[FirstOf(s.rdr, Key(m))]
  <1>1. old \in Mapping /\ Key(old) = Key(m) /\ At(s.rdr, Key(m)) = {old}
    BY BookedLists, FoundAt
  <1>2. old.iaddr = m.iaddr /\ old.rhost = m.rhost
    BY <1>1 DEF PortFor
  <1> HIDE DEF old
  <1>3. /\ old = [eport |-> old.eport, proto |-> old.proto, iaddr |-> old.iaddr,
                  iport |-> old.iport, rhost |-> old.rhost]
        /\ m = [eport |-> m.eport, proto |-> m.proto, iaddr |-> m.iaddr, iport |-> m.iport,
                rhost |-> m.rhost]
    BY <1>1, MappingTyped
  <1>4. old.eport = m.eport /\ old.proto = m.proto
    BY <1>1 DEF Key
  <1>5. [old EXCEPT !.iport = m.iport] = m
    BY <1>2, <1>3, <1>4
  <1> QED  BY <1>1, <1>5 DEF old

\* update_portmapping() of pf and of ipfw
LEMMA PortGrants ==
    ASSUME NEW s, NEW m \in Mapping, NEW time \in Nat, NEW open, NEW fails, open => fails = {},
           "nat" \notin fails, Good(s, m, 0, 0, open), PortFor(s, m)
    PROVE  /\ kind = "pf" => Granting(s, PfUpdate(s, Key(m), m.iport, time, fails), m, time, open)
           /\ kind = "ipfw" => Granting(s, IpfwUpdate(s, Key(m), m.iport, time, Chunk, fails),
                                        m, time, open)
  <1> DEFINE k == Key(m)
             old == s.rdr[FirstOf(s.rdr, k)]
             new == [old EXCEPT !.iport = m.iport]
  <1>1. Booked(s) /\ IsState(s)
    BY BookedLists DEF Good
  <1>2. FirstOf(s.rdr, k) # 0 => new = m /\ old \in Mapping
    BY <1>1, PortPutIn
  <1>3. CASE kind = "pf"
    <2> DEFINE del == PfDeleteRedirect(s, k, fails)
               Op(x) == IF x.r < 0 THEN x ELSE PfReplace(x.s, old, new, time, fails)
               out == PfUpdate(s, k, m.iport, time, fails)
    <2> SUFFICES Granting(s, out, m, time, open)
      BY <1>3
    <2>1. out = CHOOSE v \in {Op(x) : x \in {del}} : TRUE
      BY DEF PfUpdate, On
    <2>2. Removing(s, del, k, open)
      BY RuleRemoval
    <2>3. out = Op(del)
      <3> HIDE DEF Op, del
      <3> QED  BY <2>1
    <2> HIDE DEF del, out
    <2>4. CASE del.r < 0
      <3>1. out.s = s /\ out.r # 0
        BY <2>2, <2>3, <2>4 DEF Removing
      <3> QED  BY <3>1, GrantsNone
    <2>5. CASE ~(del.r < 0)
      <3>1. /\ FirstOf(s.rdr, k) # 0 /\ Good(del.s, old, 1, 1, open)
            /\ FirstOf(del.s.rdr, k) = 0 /\ Others(s, del.s, k) /\ At(del.s.rdr, k) = {}
        BY <2>2, <2>5 DEF Removing
      <3>2. out = PfReplace(del.s, old, m, time, fails)
        BY <1>2, <2>3, <2>5, <3>1
      <3> HIDE DEF old, new
      <3>3. Granting(del.s, out, m, time, open)
        BY <1>2, <1>3, <3>1, <3>2, PfReplacement
      <3> QED  BY <3>1, <3>3, OthersTwice DEF Granting
    <2> QED  BY <2>4, <2>5
  <1>4. CASE kind = "ipfw"
    <2> DEFINE del == IpfwDeleteRedirect(s, k, Chunk, fails)
               Op(x) == IF x.r < 0 THEN x ELSE IpfwAddRedirect(x.s, new, time, fails)
               out == IpfwUpdate(s, k, m.iport, time, Chunk, fails)
    <2> SUFFICES Granting(s, out, m, time, open)
      BY <1>4
    <2>1. out = CHOOSE v \in {Op(x) : x \in {del}} : TRUE
      BY <1>1, IpfwFinds DEF IpfwUpdate, On
    <2>2. Removing(s, del, k, open)
      BY RuleRemoval
    <2>3. out = Op(del)
      <3> HIDE DEF Op, del
      <3> QED  BY <2>1
    <2> HIDE DEF del, out
    <2>4. CASE del.r < 0
      <3>1. out.s = s /\ out.r # 0
        BY <2>2, <2>3, <2>4 DEF Removing
      <3> QED  BY <3>1, GrantsNone
    <2>5. CASE ~(del.r < 0)
      <3>1. /\ FirstOf(s.rdr, k) # 0 /\ Booked(del.s)
            /\ FirstOf(del.s.rdr, k) = 0 /\ Others(s, del.s, k) /\ At(del.s.rdr, k) = {}
        BY <2>2, <2>5 DEF Removing, Good
      <3>2. out = IpfwAddRedirect(del.s, m, time, fails)
        BY <1>2, <2>3, <2>5, <3>1
      <3> DEFINE t == AddStamp([del.s EXCEPT !.rdr = Append(@, m)], k, time)
      <3>3. Added(del.s, t, m, time)
        BY <3>1, RuleBooked
      <3>4. out = IF "rdr" \in fails THEN Out(del.s, -1) ELSE Out(t, 0)
        BY <3>2 DEF IpfwAddRedirect
      <3> HIDE DEF t, old, new
      <3>5. CASE "rdr" \in fails
        <4>1. out.s = del.s /\ out.r # 0
          BY <3>4, <3>5 DEF Out
        <4> QED  BY <1>4, <3>1, <4>1 DEF Granting, Good
      <3>6. CASE "rdr" \notin fails
        <4>1. out.s = t
          BY <3>4, <3>6 DEF Out
        <4>2. Others(s, t, k)
          BY <3>1, <3>3, OthersTwice DEF Added
        <4> QED  BY <1>4, <3>3, <4>1, <4>2 DEF Granting, Good, Added, Has
      <3> QED  BY <3>5, <3>6
    <2> QED  BY <2>4, <2>5
  <1> QED  BY <1>3, <1>4

\* The port of m has the rule m, or with pf perhaps none
RuleFor(s, m) == At(s.rdr, Key(m)) = {m} \/ (kind = "pf" /\ At(s.rdr, Key(m)) = {})

\* update_portmapping_desc_timestamp() of pf and of ipfw
LEMMA TimeGrants ==
    ASSUME kind \in {"pf", "ipfw"}, NEW s, NEW m \in Mapping, NEW time \in Nat, NEW open, NEW same,
           NEW fails, open => fails = {}, "nat" \notin fails, Good(s, m, 0, 0, open), RuleFor(s, m)
    PROVE  LET out == UpdateTime(s, Key(m), time, same, fails)
           IN  Granting(s, out, m, time, open) /\ RuleFor(out.s, m)
  <1> DEFINE k == Key(m)
             i == FirstOf(s.rdr, k)
             t == AddStamp(DelStamp(s, k), k, time)
             out == UpdateTime(s, k, time, same, fails)
  <1> SUFFICES Granting(s, out, m, time, open) /\ RuleFor(out.s, m)
    OBVIOUS
  <1>1. Booked(s) /\ IsState(s) /\ Once(s.rdr, Mapping)
    BY BookedLists DEF Good
  <1>2. (i = 0 <=> At(s.rdr, k) = {}) /\ (i # 0 => At(s.rdr, k) = {s.rdr[i]})
    BY <1>1, FoundAt
  <1>3. i # 0 => s.rdr[i] = m
    BY <1>2 DEF RuleFor
  <1>4. i # 0 => Renewed(s, t, k, time)
    BY <1>1, TimeRenewed
  <1>5. ASSUME i # 0, out = Out(t, 0) PROVE Granting(s, out, m, time, open) /\ RuleFor(out.s, m)
    <2>1. out.s = t /\ Renewed(s, t, k, time)
      BY <1>4, <1>5 DEF Out
    <2> HIDE DEF out, t
    <2>2. Good(t, m, 0, 0, open) /\ At(t.rdr, k) = At(s.rdr, k) /\ At(s.rdr, k) = {m}
      BY <1>2, <1>3, <1>5, <2>1 DEF Good, Renewed
    <2> QED  BY <2>1, <2>2 DEF Granting, RuleFor, Has, Renewed
  <1>6. CASE kind = "ipfw"
    <2>1. out = Out(t, 0)
      BY <1>6 DEF UpdateTime, IpfwUpdateTime
    <2>2. i # 0
      BY <1>2, <1>6 DEF RuleFor
    <2> QED  BY <1>5, <2>1, <2>2
  <1>7. CASE kind = "pf"
    <2>1. out = IF i = 0 \/ "get" \in fails THEN Out(s, -1)
                ELSE IF same THEN Out(t, 0) ELSE PfUpdate(s, k, s.rdr[i].iport, time, fails)
      BY <1>7 DEF UpdateTime, PfUpdateTime
    <2>2. CASE i = 0 \/ "get" \in fails
      <3>1. out.s = s /\ out.r # 0
        BY <2>1, <2>2 DEF Out
      <3> HIDE DEF out
      <3> QED  BY <3>1, GrantsNone
    <2>3. CASE ~(i = 0 \/ "get" \in fails) /\ same
      BY <1>5, <2>1, <2>3
    <2>4. CASE ~(i = 0 \/ "get" \in fails) /\ ~same
      <3>1. out = PfUpdate(s, k, m.iport, time, fails)
        BY <1>3, <2>1, <2>4
      <3>2. PortFor(s, m)
        BY <1>2, <1>3, <2>4 DEF PortFor
      <3> HIDE DEF out
      <3>3. Granting(s, out, m, time, open)
        BY <1>7, <3>1, <3>2, PortGrants
      <3> QED  BY <1>7, <3>3 DEF Granting, RuleFor
    <2> QED  BY <2>2, <2>3, <2>4
  <1> QED  BY <1>6, <1>7

\* add_redirect_rule2() of pf and of ipfw
LEMMA RuleAdding ==
    ASSUME kind \in {"pf", "ipfw"}, NEW s, NEW m \in Mapping, NEW time \in Nat, NEW open, NEW fails,
           open => fails = {}, "nat" \notin fails, Good(s, m, 0, 0, open),
           FirstOf(s.rdr, Key(m)) = 0
    PROVE  Adding(s, AddRedirectRule(s, m, time, fails), m, time, open)
  <1> DEFINE out == AddRedirectRule(s, m, time, fails)
  <1>1. CASE kind = "pf"
    <2>1. out = PfAddRedirect(s, m, time, fails)
      BY <1>1 DEF AddRedirectRule
    <2> QED  BY <1>1, <2>1, PfRuleAdded
  <1>2. CASE kind = "ipfw"
    <2> DEFINE t == AddStamp([s EXCEPT !.rdr = Append(@, m)], Key(m), time)
    <2>1. out = IF "rdr" \in fails THEN Out(s, -1) ELSE Out(t, 0)
      BY <1>2 DEF AddRedirectRule, IpfwAddRedirect
    <2>2. Added(s, t, m, time)
      BY RuleBooked DEF Good
    <2> HIDE DEF t, out
    <2>3. Adding(s, out, m, time, open)
      BY <1>2, <2>1, <2>2 DEF Adding, Out, Added, Good, Has
    <2> QED  BY <2>3 DEF out
  <1> QED  BY <1>1, <1>2

\* upnp_redirect_internal()
LEMMA InternalGrants ==
    ASSUME kind \in {"pf", "ipfw"}, NEW s, NEW m \in Mapping, NEW time \in Nat, NEW open, NEW fails,
           open => fails = {}, "nat" \notin fails, Good(s, m, 0, 0, open),
           FirstOf(s.rdr, Key(m)) = 0
    PROVE  Granting(s, RedirectInternal(s, m, time, fails), m, time, open)
  <1> DEFINE k == Key(m)
             add == AddRedirectRule(s, m, time, fails)
             open2 == AddFilterRule(add.s, m, fails)
             Opened(x) == IF x.r >= 0 THEN Out(x.s, 0)
                          ELSE Out(CleanUpRedirect(x.s, k, fails), -1)
             Op(x) == IF x.r < 0 THEN Out(x.s, -1)
                      ELSE CHOOSE v \in {Opened(y) : y \in {AddFilterRule(x.s, m, fails)}} : TRUE
             out == RedirectInternal(s, m, time, fails)
  <1> SUFFICES Granting(s, out, m, time, open)
    OBVIOUS
  <1>1. out = CHOOSE v \in {Op(x) : x \in {add}} : TRUE
    BY DEF RedirectInternal, On
  <1>2. Adding(s, add, m, time, open)
    BY RuleAdding
  <1>3. out = Op(add)
    <2> HIDE DEF Op, add, out
    <2> QED  BY <1>1
  <1>4. Op(add) = IF add.r < 0 THEN Out(add.s, -1)
                  ELSE CHOOSE v \in {Opened(y) : y \in {open2}} : TRUE
    OBVIOUS
  <1>5. (CHOOSE v \in {Opened(y) : y \in {open2}} : TRUE) = Opened(open2)
    <2> HIDE DEF Opened, open2
    <2> QED  OBVIOUS
  <1> HIDE DEF Op, out, add
  <1>6. CASE add.r < 0
    <2>1. out.s = s /\ out.r # 0
      BY <1>2, <1>3, <1>4, <1>6 DEF Adding, Out
    <2> QED  BY <2>1, GrantsNone
  <1>7. CASE ~(add.r < 0)
    <2>1. /\ Good(add.s, m, 0, IF kind = "pf" THEN -1 ELSE 0, open) /\ Has(add.s, m, time)
          /\ Others(s, add.s, k) /\ out = Opened(open2)
      BY <1>2, <1>3, <1>4, <1>5, <1>7 DEF Adding
    <2>2. Good(open2.s, m, 0, 0, open) /\ SameRules(add.s, open2.s) /\ open2.r \in {-1, 0}
      <3>1. CASE kind = "pf"
        <4>1. open2 = PfAddFilter(add.s, m, fails) /\ Good(add.s, m, 0, -1, open)
          BY <2>1, <3>1 DEF AddFilterRule
        <4>2. open2.r \in {-1, 0}
          BY <4>1 DEF PfAddFilter, Out
        <4> HIDE DEF open2
        <4> QED  BY <3>1, <4>1, <4>2, FilterAdded
      <3>2. CASE kind = "ipfw"
        <4>1. open2 = Out(add.s, 0) /\ Good(add.s, m, 0, 0, open)
          BY <2>1, <3>2 DEF AddFilterRule
        <4> HIDE DEF open2
        <4> QED  BY <4>1 DEF Out, SameRules
      <3> QED  BY <3>1, <3>2
    <2> HIDE DEF open2
    <2>3. Has(open2.s, m, time) /\ Others(s, open2.s, k)
      BY <2>1, <2>2, OthersTwice DEF Has, SameRules
    <2>4. CASE open2.r = 0
      <3>1. out.s = open2.s
        BY <2>1, <2>4 DEF Out
      <3> QED  BY <2>2, <2>3, <3>1 DEF Granting, Has
    <2>5. CASE open2.r = -1
      <3> DEFINE del == IF kind = "pf" THEN PfDeleteRedirect(open2.s, k, fails)
                        ELSE IpfwDeleteRedirect(open2.s, k, Chunk, fails)
      <3>1. out = Out(CleanUpRedirect(open2.s, k, fails), -1)
        BY <2>1, <2>5
      <3>2. CleanUpRedirect(open2.s, k, fails) = del.s
        BY DEF CleanUpRedirect
      <3>3. Removing(open2.s, del, k, open)
        BY <2>2, RuleRemoval
      <3> HIDE DEF del
      <3>4. out.s = del.s /\ out.r # 0
        BY <3>1, <3>2 DEF Out
      <3>5. Good(del.s, m, 0, 0, open) /\ Others(open2.s, del.s, k)
            /\ At(del.s.rdr, k) \in {{m}, {}}
        <4>1. CASE del.r = 0
          <5>1. /\ Good(del.s, open2.s.rdr[FirstOf(open2.s.rdr, k)], 1, 1, open)
                /\ At(del.s.rdr, k) = {} /\ Others(open2.s, del.s, k)
            BY <3>3, <4>1 DEF Removing
          <5> QED  BY <5>1, GoodSpare
        <4>2. CASE del.r # 0
          BY <2>2, <2>3, <3>3, <4>2, OthersTwice DEF Removing, Has
        <4> QED  BY <4>1, <4>2
      <3> QED  BY <2>3, <3>4, <3>5, OthersTwice DEF Granting
    <2> QED  BY <2>2, <2>4, <2>5
  <1> QED  BY <1>6, <1>7

\* A mapping is changed twice over.
LEMMA OverwriteGrants ==
    ASSUME kind \in {"pf", "ipfw"}, NEW s, NEW m \in Mapping, NEW time \in Nat, NEW open, NEW fails,
           NEW same, NEW junk, NEW at, open => fails = {}, "nat" \notin fails,
           Good(s, m, 0, 0, open), FirstOf(s.rdr, Key(m)) # 0, PortFor(s, m)
    PROVE  Granting(s, OverwriteRule(s, m, s.rdr[FirstOf(s.rdr, Key(m))].iport, time, same, junk,
                                     at, fails), m, time, open)
  <1> DEFINE k == Key(m)
             rule == s.rdr[FirstOf(s.rdr, k)]
             old == rule.iport
             Refused(n) == IF n = at THEN fails ELSE {}
             Change(x, n, unchanged) ==
                 IF m.iport # old THEN UpdatePortMapping(x, k, m.iport, time, junk, Refused(n))
                 ELSE UpdateTime(x, k, time, unchanged, Refused(n))
             first == Change(s, 1, same)
             Op(x) == Change(x.s, 2, x.r = 0 \/ same)
             out == OverwriteRule(s, m, old, time, same, junk, at, fails)
  <1> SUFFICES Granting(s, out, m, time, open)
    OBVIOUS
  <1>1. out = CHOOSE v \in {Op(x) : x \in {first}} : TRUE
    BY DEF OverwriteRule, On
  <1>2. out = Op(first)
    <2> HIDE DEF Op, first, out
    <2> QED  BY <1>1
  <1>3. /\ [rule EXCEPT !.iport = m.iport] = m /\ rule \in Mapping
        /\ At(s.rdr, k) = {rule}
    BY PortPutIn DEF Good
  <1>4. \A n : (open => Refused(n) = {}) /\ "nat" \notin Refused(n)
    OBVIOUS
  <1> HIDE DEF Refused
  <1>5. CASE m.iport # old
    <2>1. ASSUME NEW x, Good(x, m, 0, 0, open), PortFor(x, m), NEW n
          PROVE  Granting(x, UpdatePortMapping(x, k, m.iport, time, junk, Refused(n)), m, time, open)
      <3> DEFINE up == UpdatePortMapping(x, k, m.iport, time, junk, Refused(n))
      <3>1. CASE kind = "pf"
        <4>1. up = PfUpdate(x, k, m.iport, time, Refused(n))
          BY <3>1 DEF UpdatePortMapping
        <4> QED  BY <1>4, <2>1, <3>1, <4>1, PortGrants
      <3>2. CASE kind = "ipfw"
        <4>1. up = IpfwUpdate(x, k, m.iport, time, Chunk, Refused(n))
          BY <3>2 DEF UpdatePortMapping
        <4> QED  BY <1>4, <2>1, <3>2, <4>1, PortGrants
      <3> QED  BY <3>1, <3>2
    <2>2. first = UpdatePortMapping(s, k, m.iport, time, junk, Refused(1))
      BY <1>5
    <2>3. Granting(s, first, m, time, open)
      BY <2>1, <2>2
    <2>4. out = UpdatePortMapping(first.s, k, m.iport, time, junk, Refused(2))
      BY <1>2, <1>5
    <2> HIDE DEF first, out
    <2>5. Good(first.s, m, 0, 0, open) /\ PortFor(first.s, m)
      BY <2>3 DEF Granting, PortFor
    <2>6. Granting(first.s, out, m, time, open)
      BY <2>1, <2>4, <2>5
    <2> QED  BY <2>3, <2>6, GrantedTwice
  <1>6. CASE m.iport = old
    <2>0. rule = m
      <3> HIDE DEF rule
      <3>1. rule = [rule EXCEPT !.iport = rule.iport]
        BY <1>3, MappingTyped
      <3> QED  BY <1>3, <1>6, <3>1
    <2>1. first = UpdateTime(s, k, time, same, Refused(1))
      BY <1>6
    <2>2. RuleFor(s, m)
      BY <1>3, <2>0 DEF RuleFor
    <2>3. Granting(s, first, m, time, open) /\ RuleFor(first.s, m)
      BY <1>4, <2>1, <2>2, TimeGrants
    <2>4. out = UpdateTime(first.s, k, time, first.r = 0 \/ same, Refused(2))
      BY <1>2, <1>6
    <2> HIDE DEF first, out
    <2>5. Granting(first.s, out, m, time, open)
      BY <1>4, <2>3, <2>4, TimeGrants DEF Granting
    <2> QED  BY <2>3, <2>5, GrantedTwice
  <1> QED  BY <1>5, <1>6

\* upnp_redirect(), for a port that is not another client's
LEMMA RedirectGrants ==
    ASSUME kind \in {"pf", "ipfw"}, NEW s, NEW m \in Mapping, NEW time \in Nat, NEW open, NEW fails,
           NEW same, NEW junk, NEW at, open => fails = {}, fails \cap {"nat", "get"} = {},
           Good(s, m, 0, 0, open)
    PROVE  LET out == RedirectRule(s, m, time, same, junk, at, fails)
           IN  out.r = -2 \/ Granting(s, out, m, time, open)
  <1> DEFINE k == Key(m)
             i == FirstOf(s.rdr, k)
             got == GetRule(s, k, fails)
             Op(x) == IF x.r = 0 THEN RedirectInternal(x.s, m, time, fails)
                      ELSE IF m.iaddr # OldRule(x.s, x.r).iaddr \/ m.rhost # OldRule(x.s, x.r).rhost
                           THEN Out(x.s, -2)
                      ELSE OverwriteRule(x.s, m, OldRule(x.s, x.r).iport, time, same, junk, at, fails)
             out == RedirectRule(s, m, time, same, junk, at, fails)
  <1> SUFFICES out.r = -2 \/ Granting(s, out, m, time, open)
    OBVIOUS
  <1>1. out = CHOOSE v \in {Op(x) : x \in {got}} : TRUE
    BY DEF RedirectRule, On
  <1>2. out = Op(got)
    <2> HIDE DEF Op, got, out
    <2> QED  BY <1>1
  <1>3. IsState(s) /\ Booked(s) /\ Once(s.rdr, Mapping)
    BY BookedLists DEF Good
  <1>4. got.s = s /\ got.r = i
    BY <1>3, RuleGot DEF Out, Bsd
  <1> HIDE DEF got, out
  <1>5. OldRule(s, i).iaddr = s.rdr[i].iaddr /\ OldRule(s, i).iport = s.rdr[i].iport
        /\ OldRule(s, i).rhost = s.rdr[i].rhost
    BY DEF OldRule
  <1>6. CASE i = 0
    <2>1. out = RedirectInternal(s, m, time, fails)
      BY <1>2, <1>4, <1>6
    <2> QED  BY <1>6, <2>1, InternalGrants
  <1>7. CASE i # 0
    <2>1. At(s.rdr, k) = {s.rdr[i]}
      BY <1>3, <1>7, FoundAt
    <2>2. CASE m.iaddr # s.rdr[i].iaddr \/ m.rhost # s.rdr[i].rhost
      <3>1. out = Out(s, -2)
        BY <1>2, <1>4, <1>5, <1>7, <2>2
      <3> QED  BY <3>1 DEF Out
    <2>3. CASE m.iaddr = s.rdr[i].iaddr /\ m.rhost = s.rdr[i].rhost
      <3>1. out = OverwriteRule(s, m, s.rdr[i].iport, time, same, junk, at, fails)
        BY <1>2, <1>4, <1>5, <1>7, <2>3
      <3>2. PortFor(s, m)
        BY <2>1, <2>3 DEF PortFor
      <3> QED  BY <1>7, <3>1, <3>2, OverwriteGrants
    <2> QED  BY <2>2, <2>3
  <1> QED  BY <1>6, <1>7

\* _upnp_delete_redir() of pf and of ipfw
LEMMA DeleteKeeps ==
    ASSUME kind \in {"pf", "ipfw"}, NEW s, NEW m, NEW k, NEW open, NEW fails, Good(s, m, 0, 0, open)
    PROVE  LET out == DeleteRule(s, k, fails)
           IN  Good(out.s, m, 0, 0, open) /\ Others(s, out.s, k)
  <1> DEFINE out == DeleteRule(s, k, fails)
  <1> SUFFICES Good(out.s, m, 0, 0, open) /\ Others(s, out.s, k)
    OBVIOUS
  <1>1. CASE kind = "pf"
    <2> DEFINE old == s.rdr[FirstOf(s.rdr, k)]
               del == PfDeleteRedirect(s, k, fails)
               cut == PfDeleteNat(del.s, old, fails)
               Op(x) == IF x.r # 0 THEN x ELSE PfDeleteFilter(PfDeleteNat(x.s, old, fails), old, fails)
    <2>1. out = CHOOSE v \in {Op(x) : x \in {del}} : TRUE
      BY <1>1 DEF DeleteRule, PfDelete, On
    <2>2. Removing(s, del, k, open)
      BY RuleRemoval
    <2>3. out = Op(del)
      <3> HIDE DEF Op, del, out
      <3> QED  BY <2>1
    <2>4. Op(del) = IF del.r # 0 THEN del ELSE PfDeleteFilter(cut, old, fails)
      OBVIOUS
    <2> HIDE DEF Op, out
    <2>5. CASE del.r # 0
      <3>1. out.s = s
        BY <2>2, <2>3, <2>4, <2>5 DEF Removing
      <3> QED  BY <3>1, OthersTwice
    <2>6. CASE del.r = 0
      <3>1. Once(s.rdr, Mapping)
        BY BookedLists DEF Good
      <3>2. /\ FirstOf(s.rdr, k) # 0 /\ Good(del.s, old, 1, 1, open) /\ Others(s, del.s, k)
            /\ old \in Mapping
        <4>1. FirstOf(s.rdr, k) # 0 /\ Good(del.s, old, 1, 1, open) /\ Others(s, del.s, k)
          <5> HIDE DEF del
          <5> QED  BY <2>2, <2>6 DEF Removing
        <4>2. old \in Mapping
          BY <3>1, <4>1, FoundAt
        <4> QED  BY <4>1, <4>2
      <3> HIDE DEF old, del
      <3>3. Good(cut, old, 0, 1, open) /\ SameRules(del.s, cut)
        BY <1>1, <3>2, TriggerDeleted
      <3> HIDE DEF cut
      <3>4. out = PfDeleteFilter(cut, old, fails)
        BY <2>3, <2>4, <2>6
      <3>5. Good(out.s, old, 0, 0, open) /\ SameRules(cut, out.s)
        BY <1>1, <3>2, <3>3, <3>4, FilterDeleted
      <3>6. Good(out.s, m, 0, 0, open)
        BY <3>5, GoodSpare
      <3> QED  BY <3>2, <3>3, <3>5, <3>6, OthersTwice DEF SameRules
    <2> QED  BY <2>5, <2>6
  <1>2. CASE kind = "ipfw"
    <2>1. out = IpfwDeleteRedirect(s, k, Chunk, fails)
      BY <1>2 DEF DeleteRule
    <2> HIDE DEF out
    <2>2. Removing(s, out, k, open)
      BY <2>1, RuleRemoval
    <2>3. CASE out.r = 0
      <3>1. Good(out.s, s.rdr[FirstOf(s.rdr, k)], 1, 1, open) /\ Others(s, out.s, k)
        BY <2>2, <2>3 DEF Removing
      <3> QED  BY <3>1, GoodSpare
    <2>4. CASE out.r # 0
      BY <2>2, <2>4, OthersTwice DEF Removing
    <2> QED  BY <2>3, <2>4
  <1> QED  BY <1>1, <1>2

-----------------------------------------------------------------------------
(***************************************************************************)
(* ipfilter, whose filter rules have the external port: each redirection   *)
(* has one of its own.                                                     *)
(***************************************************************************)
IpfFilter(m) == [iaddr |-> m.iaddr, port |-> m.eport, proto |-> m.proto, rhost |-> m.rhost]

\* The rules but those for X have their filter rules
Opens(s, X) == \A i \in 1 .. Len(s.rdr) :
                  \/ Key(s.rdr[i]) \in X
                  \/ \E j \in 1 .. Len(s.filter) : s.filter[j] = IpfFilter(s.rdr[i])

\* A state in a call, as long as the kernel refuses nothing (open)
Open(s, X, open) == Typed(s) /\ (open => Opens(s, X))

\* The filter rules and the redirections stay
Still(s, t) == IsState(t) /\ t.rdr = s.rdr /\ t.filter = s.filter /\ t.nat = s.nat

\* What is kept of a state whose ends of the leases change only.
LEMMA OpenStill ==
    ASSUME NEW s, NEW t, NEW X, NEW open, Open(s, X, open), Still(s, t)
    PROVE  Open(t, X, open)
  BY DEF Open, Still, Typed, Opens

\* The ends of the leases beside the rest of a state.
LEMMA StampsBeside ==
    ASSUME NEW s, IsState(s), NEW x
    PROVE  Still(s, [s EXCEPT !.stamps = x])
  <1>1. s = [rdr |-> s.rdr, filter |-> s.filter, nat |-> s.nat, stamps |-> s.stamps,
             chain |-> s.chain, cache |-> s.cache]
    BY DEF IsState
  <1>2. KeepsRules(s, [s EXCEPT !.stamps = x])
    BY StateFields
  <1>3. [s EXCEPT !.stamps = x].filter = s.filter /\ [s EXCEPT !.stamps = x].nat = s.nat
    BY <1>1
  <1> QED  BY <1>2, <1>3 DEF Still, KeepsRules

\* add_redirect_rule2() and del_redirect_desc() change the ends of the leases so.
LEMMA IpfStamps ==
    ASSUME NEW s, IsState(s), NEW k, NEW time
    PROVE  Still(s, s) /\ Still(s, AddStamp(s, k, time)) /\ Still(s, IpfDelDesc(s, k))
  <1>1. Still(s, s)
    BY DEF Still
  <1>2. AddStamp(s, k, time) = [s EXCEPT !.stamps = <<Stamp(k, time)>> \o s.stamps]
    BY DEF AddStamp
  <1>3. IpfDelDesc(s, k) = IF FirstOf(s.stamps, k) = 0 THEN s
            ELSE [s EXCEPT !.stamps = SubSeq(s.stamps, FirstOf(s.stamps, k) + 1, Len(s.stamps))]
    BY DEF IpfDelDesc
  <1>4. \A x : Still(s, [s EXCEPT !.stamps = x])
    BY StampsBeside
  <1>5. Still(s, AddStamp(s, k, time))
    BY <1>2, <1>4
  <1>6. Still(s, IpfDelDesc(s, k))
    BY <1>1, <1>3, <1>4
  <1> QED  BY <1>1, <1>5, <1>6

\* What a step that adds the rule m, or fails, does
IpfAdding(s, out, m, open) ==
    \/ /\ out.r = 0 /\ Open(out.s, {Key(m)}, open)
       /\ At(out.s.rdr, Key(m)) = {m} /\ OtherRules(s, out.s, Key(m))
    \/ out.r = -1 /\ out.s = s /\ ~open

\* add_redirect_rule2() of ipfilter
LEMMA IpfRuleAdded ==
    ASSUME NEW s, NEW m \in Mapping, NEW time, NEW open, NEW fails, open => fails = {},
           Open(s, {}, open), FirstOf(s.rdr, Key(m)) = 0
    PROVE  IpfAdding(s, IpfAddRedirect(s, m, time, fails), m, open)
  <1> DEFINE k == Key(m)
             added == [s EXCEPT !.rdr = Append(s.rdr, m)]
             t == AddStamp(added, k, time)
             out == IpfAddRedirect(s, m, time, fails)
  <1>1. /\ IsState(s) /\ Typed(s) /\ s.rdr \in Seq(Mapping) /\ Once(s.rdr, Mapping)
        /\ s = [rdr |-> s.rdr, filter |-> s.filter, nat |-> s.nat, stamps |-> s.stamps,
                chain |-> s.chain, cache |-> s.cache]
    BY OnceRules DEF Open, Typed, IsState, Once
  <1>2. out = IF "rdr" \in fails THEN Out(s, -1) ELSE Out(t, 0)
    BY DEF IpfAddRedirect
  <1>3. Grown(Append(s.rdr, m), s.rdr, Mapping, m)
    BY <1>1, FoundAt, OnceAppend
  <1>4. AddsRule(s, added, m)
    BY <1>1, RuleAppended
  <1>5. IsState(added) /\ added.rdr = Append(s.rdr, m) /\ added.filter = s.filter /\ added.nat = s.nat
    BY <1>1, <1>4 DEF AddsRule
  <1> HIDE DEF added
  <1>6. Still(added, t)
    BY <1>5, IpfStamps
  <1> HIDE DEF t, out
  <1>7. IsState(t) /\ t.rdr = Append(s.rdr, m) /\ t.filter = s.filter /\ t.nat = s.nat
    BY <1>5, <1>6 DEF Still
  <1>8. ASSUME Opens(s, {}) PROVE Opens(t, {k})
    <2> SUFFICES ASSUME NEW i \in 1 .. Len(t.rdr)
                 PROVE  \/ Key(t.rdr[i]) \in {k}
                        \/ \E j \in 1 .. Len(t.filter) : t.filter[j] = IpfFilter(t.rdr[i])
      BY DEF Opens
    <2>1. CASE i \in 1 .. Len(s.rdr)
      <3>1. t.rdr[i] = s.rdr[i]
        BY <1>1, <1>7, <2>1
      <3> QED  BY <1>7, <1>8, <2>1, <3>1 DEF Opens
    <2>2. CASE i \notin 1 .. Len(s.rdr)
      <3>1. t.rdr[i] = m
        BY <1>1, <1>7, <2>2
      <3> QED  BY <3>1
    <2> QED  BY <2>1, <2>2
  <1>9. Open(t, {k}, open)
    BY <1>1, <1>7, <1>8 DEF Open, Typed
  <1>10. At(t.rdr, k) = {m} /\ OtherRules(s, t, k)
    BY <1>3, <1>7 DEF Grown, OtherRules
  <1>11. IpfAdding(s, out, m, open)
    BY <1>2, <1>9, <1>10 DEF IpfAdding, Out
  <1> QED  BY <1>11 DEF out

\* add_filter_rule2() of ipfilter
LEMMA IpfFilterAdded ==
    ASSUME NEW s, NEW m \in Mapping, NEW open, NEW fails, open => fails = {},
           Open(s, {Key(m)}, open), At(s.rdr, Key(m)) = {m}
    PROVE  LET out == IpfAddFilter(s, m, fails)
           IN  Open(out.s, {}, open) /\ out.s.rdr = s.rdr /\ out.r \in {-1, 0}
  <1> DEFINE x == IpfFilter(m)
             n == Append(s.filter, x)
             t == [s EXCEPT !.filter = n]
             out == IpfAddFilter(s, m, fails)
  <1>1. /\ IsState(s) /\ Typed(s) /\ s.rdr \in Seq(Mapping) /\ s.filter \in Seq(FilterType)
        /\ s = [rdr |-> s.rdr, filter |-> s.filter, nat |-> s.nat, stamps |-> s.stamps,
                chain |-> s.chain, cache |-> s.cache]
    BY DEF Open, Typed, IsState, OnceEach
  <1>2. out = IF "filter" \in fails THEN Out(s, -1) ELSE Out(t, 0)
    BY DEF IpfAddFilter, IpfFilter
  <1>3. x \in FilterType
    <2>1. m.eport \in Nat /\ m.proto \in {"TCP", "UDP"} /\ m.iaddr \in Iaddrs /\ m.rhost \in Rhosts
      BY BackEndsAssumption DEF Mapping
    <2> QED  BY <2>1 DEF FilterType, IpfFilter
  <1>4. KeepsRules(s, t)
    BY <1>1, StateFields
  <1>5. IsState(t) /\ t.rdr = s.rdr /\ t.filter = n /\ t.nat = s.nat
    BY <1>1, <1>4 DEF KeepsRules
  <1> HIDE DEF t, x, out
  <1>6. n \in Seq(FilterType) /\ Len(n) = Len(s.filter) + 1 /\ n[Len(n)] = x /\ Len(n) \in 1 .. Len(n)
        /\ \A i \in 1 .. Len(s.filter) : i \in 1 .. Len(n) /\ n[i] = s.filter[i]
    BY <1>1, <1>3
  <1> HIDE DEF n
  <1>7. ASSUME Opens(s, {Key(m)}) PROVE Opens(t, {})
    <2> SUFFICES ASSUME NEW i \in 1 .. Len(s.rdr)
                 PROVE  \E j \in 1 .. Len(n) : n[j] = IpfFilter(s.rdr[i])
      BY <1>5 DEF Opens
    <2>1. CASE Key(s.rdr[i]) = Key(m)
      <3>1. s.rdr[i] \in At(s.rdr, Key(m))
        BY <2>1 DEF At
      <3>2. s.rdr[i] = m
        BY <3>1
      <3> QED  BY <1>6, <3>2 DEF x
    <2>2. CASE Key(s.rdr[i]) # Key(m)
      <3>1. PICK j \in 1 .. Len(s.filter) : s.filter[j] = IpfFilter(s.rdr[i])
        BY <1>7, <2>2 DEF Opens
      <3> QED  BY <1>6, <3>1
    <2> QED  BY <2>1, <2>2
  <1>8. Open(t, {}, open)
    BY <1>1, <1>5, <1>6, <1>7 DEF Open, Typed
  <1>9. CASE "filter" \in fails
    <2>1. out.s = s /\ out.r = -1 /\ ~open
      BY <1>2, <1>9 DEF Out
    <2> QED  BY <1>1, <2>1 DEF Open, out
  <1>10. CASE "filter" \notin fails
    <2>1. out.s = t /\ out.r = 0
      BY <1>2, <1>10 DEF Out
    <2> QED  BY <1>5, <1>8, <2>1 DEF out
  <1> QED  BY <1>9, <1>10

\* What a step that removes the rule of k, or fails, does
IpfRemoving(s, out, k, X, open) ==
    /\ Open(out.s, X, open) /\ OtherRules(s, out.s, k)
    /\ \/ out.r = 0 /\ At(out.s.rdr, k) = {}
       \/ out.r = -1 /\ out.s.rdr = s.rdr

\* real_delete_redirect_rule()
LEMMA IpfRuleStruckOnce ==
    ASSUME NEW s, NEW k, NEW X, NEW open, NEW fails, Open(s, X, open)
    PROVE  IpfRemoving(s, IpfRealDelete(s, k, fails), k, X, open)
  <1> DEFINE i == FirstOf(s.rdr, k)
             r == RemoveAt(s.rdr, i)
             gone == [s EXCEPT !.rdr = r]
             out == IpfRealDelete(s, k, fails)
  <1>1. /\ IsState(s) /\ Typed(s) /\ s.rdr \in Seq(Mapping) /\ Once(s.rdr, Mapping)
        /\ s = [rdr |-> s.rdr, filter |-> s.filter, nat |-> s.nat, stamps |-> s.stamps,
                chain |-> s.chain, cache |-> s.cache]
    BY OnceRules DEF Open, Typed, IsState, Once
  <1>2. out = IF i = 0 \/ "get" \in fails THEN Out(s, -1)
              ELSE IF "unrdr" \in fails THEN Out(IpfDelDesc(s, k), -1)
              ELSE Out(IpfDelDesc(gone, k), 0)
    BY DEF IpfRealDelete, Without
  <1>3. Still(s, s) /\ Still(s, IpfDelDesc(s, k))
    BY <1>1, IpfStamps
  <1>4. ASSUME NEW t, Still(s, t) PROVE IpfRemoving(s, Out(t, -1), k, X, open)
    BY <1>4, OpenStill DEF Still, IpfRemoving, Out, OtherRules
  <1>5. ASSUME i # 0 PROVE IpfRemoving(s, Out(IpfDelDesc(gone, k), 0), k, X, open)
    <2> DEFINE t == IpfDelDesc(gone, k)
    <2>1. /\ TakesRule(s, gone, k) /\ gone.rdr = r /\ gone.filter = s.filter /\ gone.nat = s.nat
          /\ i \in 1 .. Len(s.rdr)
      BY <1>1, <1>5, RuleTaken, FoundAt
    <2>2. Shrunk(r, s.rdr, Mapping, k)
      <3>1. Without(s.rdr, FirstOf(s.rdr, k)) = r
        BY <1>5 DEF Without
      <3> HIDE DEF r
      <3> QED  BY <1>1, <3>1, OnceCut
    <2>3. r \in Seq(Mapping) /\ \E f : Thinned(r, s.rdr, f, {i})
      <3> HIDE DEF i
      <3> QED  BY <1>1, <2>1, CutThinned
    <2> HIDE DEF gone, r, i
    <2>4. Still(gone, t)
      BY <2>1, IpfStamps DEF TakesRule
    <2> HIDE DEF t
    <2>5. IsState(t) /\ t.rdr = r /\ t.filter = s.filter /\ t.nat = s.nat
      BY <2>1, <2>4 DEF Still
    <2>6. ASSUME Opens(s, X) PROVE Opens(t, X)
      <3>1. PICK f : Thinned(r, s.rdr, f, {i})
        BY <2>3
      <3>2. \A j \in 1 .. Len(r) : f[j] \in 1 .. Len(s.rdr) /\ r[j] = s.rdr[f[j]]
        BY <3>1 DEF Thinned
      <3>3. ASSUME NEW j \in 1 .. Len(r)
            PROVE  Key(r[j]) \in X \/ \E l \in 1 .. Len(s.filter) : s.filter[l] = IpfFilter(r[j])
        <4>1. f[j] \in 1 .. Len(s.rdr) /\ r[j] = s.rdr[f[j]]
          BY <3>2
        <4> QED  BY <2>6, <4>1 DEF Opens
      <3> QED  BY <2>5, <3>3 DEF Opens
    <2>7. Open(t, X, open) /\ OtherRules(s, t, k) /\ At(t.rdr, k) = {}
      BY <1>1, <2>2, <2>5, <2>6 DEF Open, Typed, Shrunk, OtherRules
    <2> QED  BY <2>7 DEF IpfRemoving, Out, t
  <1> HIDE DEF gone, out, i
  <1>6. IpfRemoving(s, out, k, X, open)
    BY <1>2, <1>3, <1>4, <1>5
  <1> QED  BY <1>6 DEF out

\* delete_redirect_rule() of ipfilter: without a refusal no rule is left.
LEMMA IpfRuleStruck ==
    ASSUME NEW s, NEW k, NEW X, NEW open, NEW fails, Open(s, X, open)
    PROVE  LET out == IpfDeleteRedirect(s, k, fails)
           IN  /\ IpfRemoving(s, out, k, X, open)
               /\ fails = {} => At(out.s.rdr, k) = {}
  <1> DEFINE first == IpfRealDelete(s, k, fails)
             next == IpfRealDelete(first.s, k, fails \ {"get"})
             Op(x) == IF x.r = -1 THEN IpfRealDelete(x.s, k, fails \ {"get"}) ELSE x
             out == IpfDeleteRedirect(s, k, fails)
  <1>1. out = CHOOSE v \in {Op(x) : x \in {first}} : TRUE
    BY DEF IpfDeleteRedirect, On
  <1>2. IpfRemoving(s, first, k, X, open)
    BY IpfRuleStruckOnce
  <1>3. out = Op(first)
    <2> HIDE DEF Op, first, out
    <2> QED  BY <1>1
  <1>4. Op(first) = IF first.r = -1 THEN next ELSE first
    OBVIOUS
  <1>5. IpfRemoving(s, out, k, X, open)
    <2> HIDE DEF Op, out
    <2>1. CASE first.r = -1
      <3>1. Open(first.s, X, open) /\ first.s.rdr = s.rdr
        BY <1>2, <2>1 DEF IpfRemoving
      <3> HIDE DEF first
      <3>2. IpfRemoving(first.s, next, k, X, open)
        BY <3>1, IpfRuleStruckOnce
      <3>3. out = next
        BY <1>3, <1>4, <2>1
      <3> HIDE DEF next
      <3> QED  BY <3>1, <3>2, <3>3 DEF IpfRemoving, OtherRules
    <2>2. CASE first.r # -1
      <3>1. out = first
        BY <1>3, <1>4, <2>2
      <3> QED  BY <1>2, <3>1
    <2> QED  BY <2>1, <2>2
  <1>6. DeleteIs(s, out, k, fails) /\ OnceEach(s.rdr)
    BY IpfDeletes DEF Open, Typed, IsState
  <1> HIDE DEF out, Op, first, next
  <1>7. ASSUME fails = {} PROVE At(out.s.rdr, k) = {}
    <2>1. CASE out.r = 0
      BY <1>5, <2>1 DEF IpfRemoving
    <2>2. CASE out.r # 0
      <3>1. FirstOf(s.rdr, k) = 0 /\ out.s.rdr = s.rdr
        BY <1>6, <1>7, <2>2 DEF DeleteIs, KeepsRules
      <3> QED  BY <1>6, <3>1, FoundAt, OnceRules
    <2> QED  BY <2>1, <2>2
  <1> QED  BY <1>5, <1>7 DEF out

\* The filter rule of a port without a redirection goes.
LEMMA IpfFilterStruck ==
    ASSUME NEW s, NEW k \in Keys, NEW open, NEW fails, Open(s, {}, open),
           open => At(s.rdr, k) = {}
    PROVE  LET out == IpfDeleteFilter(s, k, fails)
           IN  Open(out.s, {}, open) /\ out.s.rdr = s.rdr
  <1> DEFINE I == {j \in 1 .. Len(s.filter) : s.filter[j].port = k.eport /\ s.filter[j].proto = k.proto}
             i == SelectInSeq(s.filter, LAMBDA e : e.port = k.eport /\ e.proto = k.proto)
             n == RemoveAt(s.filter, i)
             t == [s EXCEPT !.filter = n]
             out == IpfDeleteFilter(s, k, fails)
  <1>1. /\ IsState(s) /\ Typed(s) /\ s.rdr \in Seq(Mapping) /\ s.filter \in Seq(FilterType)
        /\ s = [rdr |-> s.rdr, filter |-> s.filter, nat |-> s.nat, stamps |-> s.stamps,
                chain |-> s.chain, cache |-> s.cache]
    BY DEF Open, Typed, IsState, OnceEach
  <1>2. i # 0 => i \in I
    <2>1. i = IF I # {} THEN Min(I) ELSE 0
      BY DEF SelectInSeq
    <2>2. I \subseteq Nat
      OBVIOUS
    <2> HIDE DEF I, i
    <2> QED  BY <2>1, <2>2, PlaceFound
  <1>3. out = IF i = 0 \/ fails \cap {"get", "unfilter"} # {} THEN Out(s, -1) ELSE Out(t, 0)
    BY DEF IpfDeleteFilter
  <1>4. KeepsRules(s, t)
    BY <1>1, StateFields
  <1>5. IsState(t) /\ t.rdr = s.rdr /\ t.filter = n /\ t.nat = s.nat
    BY <1>1, <1>4 DEF KeepsRules
  <1> HIDE DEF i, t, out
  <1>6. CASE i = 0 \/ fails \cap {"get", "unfilter"} # {}
    <2>1. out.s = s
      BY <1>3, <1>6 DEF Out
    <2> QED  BY <2>1 DEF out
  <1>7. CASE i # 0 /\ fails \cap {"get", "unfilter"} = {}
    <2>1. i \in 1 .. Len(s.filter) /\ s.filter[i].port = k.eport /\ s.filter[i].proto = k.proto
      BY <1>2, <1>7
    <2>2. n \in Seq(FilterType) /\ \E f : Thinned(n, s.filter, f, {i})
      BY <1>1, <2>1, CutThinned
    <2>3. PICK f : Thinned(n, s.filter, f, {i})
      BY <2>2
    <2>4. \A j \in 1 .. Len(s.filter) : j # i => \E l \in 1 .. Len(n) : n[l] = s.filter[j]
      BY <2>3 DEF Thinned
    <2> HIDE DEF n
    <2>5. ASSUME Opens(s, {}), At(s.rdr, k) = {} PROVE Opens(t, {})
      <3> SUFFICES ASSUME NEW j \in 1 .. Len(s.rdr)
                   PROVE  \E l \in 1 .. Len(n) : n[l] = IpfFilter(s.rdr[j])
        BY <1>5 DEF Opens
      <3>1. PICK l \in 1 .. Len(s.filter) : s.filter[l] = IpfFilter(s.rdr[j])
        BY <2>5 DEF Opens
      <3>2. Key(s.rdr[j]) # k
        BY <2>5 DEF At
      <3>3. l # i
        <4> SUFFICES ASSUME l = i PROVE FALSE
          OBVIOUS
        <4>1. s.rdr[j].eport = k.eport /\ s.rdr[j].proto = k.proto
          BY <2>1, <3>1 DEF IpfFilter
        <4>2. k = [eport |-> k.eport, proto |-> k.proto]
          BY BackEndsAssumption
        <4> QED  BY <3>2, <4>1, <4>2 DEF Key
      <3> QED  BY <2>4, <3>1, <3>3
    <2>6. Open(t, {}, open)
      BY <1>1, <1>5, <2>2, <2>5 DEF Open, Typed
    <2>7. out.s = t
      BY <1>3, <1>7 DEF Out
    <2> QED  BY <1>5, <2>6, <2>7 DEF out
  <1> QED  BY <1>6, <1>7

\* What a call for the mapping m does
IpfGranting(s, out, m, open) ==
    /\ Open(out.s, {}, open) /\ OtherRules(s, out.s, Key(m))
    /\ out.r = 0 => At(out.s.rdr, Key(m)) = {m}

\* upnp_redirect_internal() with ipfilter
LEMMA IpfInternalGrants ==
    ASSUME kind = "ipf", NEW s, NEW m \in Mapping, NEW time, NEW open, NEW fails,
           open => fails = {}, Open(s, {}, open), FirstOf(s.rdr, Key(m)) = 0
    PROVE  IpfGranting(s, RedirectInternal(s, m, time, fails), m, open)
  <1> DEFINE k == Key(m)
             add == AddRedirectRule(s, m, time, fails)
             open2 == AddFilterRule(add.s, m, fails)
             Opened(x) == IF x.r >= 0 THEN Out(x.s, 0)
                          ELSE Out(CleanUpRedirect(x.s, k, fails), -1)
             Op(x) == IF x.r < 0 THEN Out(x.s, -1)
                      ELSE CHOOSE v \in {Opened(y) : y \in {AddFilterRule(x.s, m, fails)}} : TRUE
             out == RedirectInternal(s, m, time, fails)
             del == IpfDeleteRedirect(open2.s, k, fails)
  <1> SUFFICES IpfGranting(s, out, m, open)
    OBVIOUS
  <1>1. out = CHOOSE v \in {Op(x) : x \in {add}} : TRUE
    BY DEF RedirectInternal, On
  <1>2. IpfAdding(s, add, m, open)
    <2>1. add = IpfAddRedirect(s, m, time, fails)
      BY DEF AddRedirectRule
    <2> HIDE DEF add
    <2> QED  BY <2>1, IpfRuleAdded
  <1>3. out = Op(add)
    <2> HIDE DEF Op, add, out
    <2> QED  BY <1>1
  <1>4. Op(add) = IF add.r < 0 THEN Out(add.s, -1)
                  ELSE CHOOSE v \in {Opened(y) : y \in {open2}} : TRUE
    OBVIOUS
  <1>5. (CHOOSE v \in {Opened(y) : y \in {open2}} : TRUE) = Opened(open2)
    <2> HIDE DEF Opened, open2
    <2> QED  OBVIOUS
  <1>6. open2 = IpfAddFilter(add.s, m, fails)
    BY DEF AddFilterRule
  <1>7. CleanUpRedirect(open2.s, k, fails) = del.s
    BY DEF CleanUpRedirect
  <1> HIDE DEF Op, out, add, open2, del
  <1>8. CASE add.r < 0
    <2>1. out.s = s /\ out.r = -1
      BY <1>2, <1>3, <1>4, <1>8 DEF IpfAdding, Out
    <2> QED  BY <2>1 DEF IpfGranting, OtherRules
  <1>9. CASE ~(add.r < 0)
    <2>1. /\ Open(add.s, {k}, open) /\ At(add.s.rdr, k) = {m} /\ OtherRules(s, add.s, k)
          /\ out = Opened(open2)
      BY <1>2, <1>3, <1>4, <1>5, <1>9 DEF IpfAdding
    <2>2. Open(open2.s, {}, open) /\ open2.s.rdr = add.s.rdr /\ open2.r \in {-1, 0}
      BY <1>6, <2>1, IpfFilterAdded
    <2>3. OtherRules(s, open2.s, k) /\ At(open2.s.rdr, k) = {m}
      BY <2>1, <2>2 DEF OtherRules
    <2>4. CASE open2.r = 0
      <3>1. out = Out(open2.s, 0)
        BY <2>1, <2>4
      <3> QED  BY <2>2, <2>3, <3>1 DEF IpfGranting, Out
    <2>5. CASE open2.r = -1
      <3>1. out = Out(del.s, -1)
        BY <1>7, <2>1, <2>5
      <3>2. IpfRemoving(open2.s, del, k, {}, open)
        BY <2>2, IpfRuleStruck DEF del
      <3> QED  BY <2>3, <3>1, <3>2 DEF IpfGranting, IpfRemoving, Out, OtherRules
    <2> QED  BY <2>2, <2>4, <2>5
  <1> QED  BY <1>8, <1>9

\* The changes of a mapping: only the end of its lease can be changed.
LEMMA IpfOverwriteGrants ==
    ASSUME kind = "ipf", NEW s, NEW m \in Mapping, NEW iport_old, NEW time, NEW open, NEW fails,
           NEW same, NEW junk, NEW at, Open(s, {}, open),
           m.iport = iport_old => At(s.rdr, Key(m)) = {m}
    PROVE  IpfGranting(s, OverwriteRule(s, m, iport_old, time, same, junk, at, fails), m, open)
  <1> DEFINE k == Key(m)
             Refused(n) == IF n = at THEN fails ELSE {}
             Change(x, n, unchanged) ==
                 IF m.iport # iport_old
                 THEN UpdatePortMapping(x, k, m.iport, time, junk, Refused(n))
                 ELSE UpdateTime(x, k, time, unchanged, Refused(n))
             first == Change(s, 1, same)
             Op(x) == Change(x.s, 2, x.r = 0 \/ same)
             out == OverwriteRule(s, m, iport_old, time, same, junk, at, fails)
  <1> SUFFICES IpfGranting(s, out, m, open)
    OBVIOUS
  <1>1. out = CHOOSE v \in {Op(x) : x \in {first}} : TRUE
    BY DEF OverwriteRule, On
  <1>2. out = Op(first)
    <2> HIDE DEF Op, first, out
    <2> QED  BY <1>1
  <1>3. ASSUME NEW x, NEW y, NEW f
        PROVE  /\ UpdatePortMapping(x, k, m.iport, time, junk, f) = Out(x, -1)
               /\ UpdateTime(x, k, time, y, f) = IpfUpdateTime(x, k, time)
    BY DEF UpdatePortMapping, UpdateTime
  <1> HIDE DEF Refused
  <1>4. CASE m.iport # iport_old
    <2>1. first = Out(s, -1)
      BY <1>3, <1>4
    <2>2. out = Out(first.s, -1)
      BY <1>2, <1>3, <1>4
    <2> HIDE DEF first, out
    <2> QED  BY <2>1, <2>2 DEF IpfGranting, Out, OtherRules
  <1>5. CASE m.iport = iport_old
    <2>1. first = IpfUpdateTime(s, k, time)
      BY <1>3, <1>5
    <2>2. out = IpfUpdateTime(first.s, k, time)
      BY <1>2, <1>3, <1>5
    <2> HIDE DEF first, out
    <2>3. ASSUME NEW x, NEW y, Open(x, {}, open), y = IpfUpdateTime(x, k, time)
          PROVE  y.r = 0 /\ Open(y.s, {}, open) /\ y.s.rdr = x.rdr
      <3> DEFINE z == IpfDelDesc(x, k)
                 v == AddStamp(z, k, time)
      <3>1. y = Out(v, 0)
        BY <2>3 DEF IpfUpdateTime
      <3>2. Still(x, z)
        BY <2>3, IpfStamps DEF Open, Typed
      <3>3. Open(z, {}, open) /\ z.rdr = x.rdr
        BY <2>3, <3>2, OpenStill DEF Still
      <3> HIDE DEF z
      <3>4. Still(z, v)
        BY <3>3, IpfStamps DEF Open, Typed
      <3>5. Open(v, {}, open) /\ v.rdr = x.rdr
        BY <3>3, <3>4, OpenStill DEF Still
      <3> HIDE DEF v
      <3> QED  BY <3>1, <3>5 DEF Out
    <2>4. first.r = 0 /\ Open(first.s, {}, open) /\ first.s.rdr = s.rdr
      BY <2>1, <2>3
    <2>5. out.r = 0 /\ Open(out.s, {}, open) /\ out.s.rdr = first.s.rdr
      BY <2>2, <2>3, <2>4
    <2> QED  BY <1>5, <2>4, <2>5 DEF IpfGranting, OtherRules
  <1> QED  BY <1>4, <1>5

\* upnp_redirect() with ipfilter
LEMMA IpfRedirectGrants ==
    ASSUME kind = "ipf", NEW s, NEW m \in Mapping, NEW time, NEW open, NEW fails,
           NEW same, NEW junk, NEW at, open => fails = {}, "get" \notin fails, Open(s, {}, open)
    PROVE  IpfGranting(s, RedirectRule(s, m, time, same, junk, at, fails), m, open)
  <1> DEFINE k == Key(m)
             i == FirstOf(s.rdr, k)
             got == GetRule(s, k, fails)
             Op(x) == IF x.r = 0 THEN RedirectInternal(x.s, m, time, fails)
                      ELSE IF m.iaddr # OldRule(x.s, x.r).iaddr \/ m.rhost # OldRule(x.s, x.r).rhost
                           THEN Out(x.s, -2)
                      ELSE OverwriteRule(x.s, m, OldRule(x.s, x.r).iport, time, same, junk, at, fails)
             out == RedirectRule(s, m, time, same, junk, at, fails)
  <1> SUFFICES IpfGranting(s, out, m, open)
    OBVIOUS
  <1>1. out = CHOOSE v \in {Op(x) : x \in {got}} : TRUE
    BY DEF RedirectRule, On
  <1>2. out = Op(got)
    <2> HIDE DEF Op, got, out
    <2> QED  BY <1>1
  <1>3. IsState(s) /\ Once(s.rdr, Mapping)
    BY OnceRules DEF Open, Typed, IsState
  <1>4. got.s = s /\ got.r = i
    BY <1>3, RuleGot DEF Out, Bsd
  <1> HIDE DEF got, out
  <1>5. /\ OldRule(s, i).iaddr = s.rdr[i].iaddr /\ OldRule(s, i).iport = s.rdr[i].iport
        /\ OldRule(s, i).rhost = IF s.rdr[i].rhost = 0 THEN ZeroAddr ELSE s.rdr[i].rhost
    BY DEF OldRule
  <1>6. CASE i = 0
    <2>1. out = RedirectInternal(s, m, time, fails)
      BY <1>2, <1>4, <1>6
    <2> QED  BY <1>6, <2>1, IpfInternalGrants
  <1>7. CASE i # 0
    <2>1. At(s.rdr, k) = {s.rdr[i]} /\ s.rdr[i] \in Mapping /\ Key(s.rdr[i]) = k
      BY <1>3, <1>7, FoundAt
    <2>2. CASE m.iaddr # s.rdr[i].iaddr \/ m.rhost # OldRule(s, i).rhost
      <3>1. out = Out(s, -2)
        BY <1>2, <1>4, <1>5, <1>7, <2>2
      <3> QED  BY <3>1 DEF Out, IpfGranting, OtherRules
    <2>3. CASE m.iaddr = s.rdr[i].iaddr /\ m.rhost = OldRule(s, i).rhost
      <3>1. out = OverwriteRule(s, m, s.rdr[i].iport, time, same, junk, at, fails)
        BY <1>2, <1>4, <1>5, <1>7, <2>3
      <3>2. m.rhost = s.rdr[i].rhost
        <4>1. m.rhost \in Nat
          BY MappingTyped, BackEndsAssumption DEF Mapping
        <4> QED  BY <1>5, <2>3, <4>1 DEF ZeroAddr
      <3>3. m.iport = s.rdr[i].iport => s.rdr[i] = m
        <4> HIDE DEF i
        <4> QED  BY <2>1, <2>3, <3>2 DEF Mapping, Key
      <3>4. m.iport = s.rdr[i].iport => At(s.rdr, k) = {m}
        BY <2>1, <3>3
      <3> HIDE DEF i
      <3> QED  BY <3>1, <3>4, IpfOverwriteGrants
    <2> QED  BY <2>2, <2>3
  <1> QED  BY <1>6, <1>7

\* _upnp_delete_redir() with ipfilter
LEMMA IpfDeleteKeeps ==
    ASSUME kind = "ipf", NEW s, NEW k \in Keys, NEW open, NEW fails, open => fails = {},
           Open(s, {}, open)
    PROVE  LET out == DeleteRule(s, k, fails)
           IN  Open(out.s, {}, open) /\ OtherRules(s, out.s, k)
  <1> DEFINE del == IpfDeleteRedirect(s, k, fails)
             Op(x) == Out(IpfDeleteFilter(x.s, k, fails).s, x.r)
             out == DeleteRule(s, k, fails)
             cut == IpfDeleteFilter(del.s, k, fails)
  <1>1. out = CHOOSE v \in {Op(x) : x \in {del}} : TRUE
    BY DEF DeleteRule, On
  <1>2. out = Op(del)
    <2> HIDE DEF Op, del, out
    <2> QED  BY <1>1
  <1>3. out.s = cut.s
    BY <1>2 DEF Out
  <1>4. IpfRemoving(s, del, k, {}, open) /\ (fails = {} => At(del.s.rdr, k) = {})
    BY IpfRuleStruck
  <1> HIDE DEF del, out
  <1>5. Open(cut.s, {}, open) /\ cut.s.rdr = del.s.rdr
    BY <1>4, IpfFilterStruck DEF IpfRemoving
  <1> HIDE DEF cut
  <1>6. Open(out.s, {}, open) /\ OtherRules(s, out.s, k)
    BY <1>3, <1>4, <1>5 DEF IpfRemoving, OtherRules
  <1> QED  BY <1>6 DEF out

-----------------------------------------------------------------------------
(***************************************************************************)
(* The inductive invariant of what was granted.                            *)
(***************************************************************************)
\* A state between two calls, as long as the kernel refuses nothing (open)
Kept(s, open) == IF kind = "ipf" THEN Open(s, {}, open) ELSE \A m : Good(s, m, 0, 0, open)

\* Nothing changes for the ports other than k
Beside(s, t, k) == OtherRules(s, t, k) /\ (kind # "ipf" => Others(s, t, k))

\* The port x has what g grants
Holds(s, x, g) == /\ g \in Mapping \X Times /\ Key(g[1]) = x /\ At(s.rdr, x) = {g[1]}
                  /\ kind # "ipf" => TimeIn(s.stamps, x) = g[2]

GrantInv ==
    /\ BackInv /\ refused \in Nat /\ Kept(fw, refused = 0)
    /\ kind = "pf" => Rhosts = {0}
    /\ granted = [x \in Keys |-> granted[x]]
    /\ \A x \in Keys : granted[x] # <<>> => Holds(fw, x, granted[x])

\* The kernel of pf never refuses a rule for port triggering
AddsTriggers == \A f \in Refusals : f[2] # "nat"

\* A state between two calls is a state, also for a run in which something was refused.
LEMMA KeptState ==
    ASSUME NEW s, NEW open, Kept(s, open)
    PROVE  /\ IsState(s) /\ (kind # "ipf" => Once(s.stamps, StampType))
           /\ Beside(s, s, NoTarget)
           /\ \A x : (x => open) => Kept(s, x)
  <1>1. CASE kind = "ipf"
    BY <1>1 DEF Kept, Open, Typed, Beside, OtherRules
  <1>2. CASE kind # "ipf"
    <2>1. \A m : Good(s, m, 0, 0, open)
      BY <1>2 DEF Kept
    <2>2. IsState(s) /\ Once(s.stamps, StampType)
      BY <2>1, BookedLists DEF Good
    <2>3. ASSUME NEW x, x => open PROVE Kept(s, x)
      BY <1>2, <2>1, <2>3 DEF Kept, Good
    <2> QED  BY <2>2, <2>3 DEF Beside, OtherRules, Others
  <1> QED  BY <1>1, <1>2

\* What another port was granted stays.
LEMMA HeldBeside ==
    ASSUME NEW s, NEW t, NEW open, NEW k, Kept(s, open), Kept(t, open), Beside(s, t, k),
           NEW x, x # k, NEW g, Holds(s, x, g)
    PROVE  Holds(t, x, g)
  <1>1. At(t.rdr, x) = At(s.rdr, x)
    BY DEF Beside, OtherRules
  <1>2. ASSUME kind # "ipf" PROVE TimeIn(t.stamps, x) = TimeIn(s.stamps, x)
    <2>1. Once(s.stamps, StampType) /\ Once(t.stamps, StampType)
      BY <1>2, KeptState
    <2>2. At(t.stamps, x) = At(s.stamps, x)
      BY <1>2 DEF Beside, Others
    <2> QED  BY <2>1, <2>2, TimeAt
  <1> QED  BY <1>1, <1>2 DEF Holds

\* What a call that adds m does
AddKeeps(s, out, m, time, open) ==
    \/ out.r = -2 /\ out.s = s
    \/ /\ Kept(out.s, open) /\ Beside(s, out.s, Key(m))
       /\ out.r = 0 => Holds(out.s, Key(m), <<m, time>>)

\* upnp_redirect() with any of the three
LEMMA AddGrants ==
    ASSUME Bsd, NEW s, NEW m \in Mapping, NEW time \in Times, NEW open, NEW fails, NEW same,
           NEW junk, NEW at, open => fails = {}, fails \cap {"nat", "get"} = {}, Kept(s, open)
    PROVE  AddKeeps(s, RedirectRule(s, m, time, same, junk, at, fails), m, time, open)
  <1> DEFINE out == RedirectRule(s, m, time, same, junk, at, fails)
  <1>1. IsState(s) /\ time \in Nat
    BY KeptState, BackEndsAssumption
  <1>2. AddsFor(s, out, m)
    BY <1>1, RuleAdds
  <1>3. CASE out.r = -2
    BY <1>2, <1>3 DEF AddsFor, ChangesFor, AddKeeps
  <1>4. CASE kind = "ipf"
    <2>1. IpfGranting(s, out, m, open)
      BY <1>4, IpfRedirectGrants DEF Kept
    <2> HIDE DEF out
    <2>2. AddKeeps(s, out, m, time, open)
      BY <1>4, <2>1 DEF AddKeeps, IpfGranting, Kept, Beside, Holds
    <2> QED  BY <2>2 DEF out
  <1>5. CASE kind # "ipf" /\ out.r # -2
    <2>1. kind \in {"pf", "ipfw"} /\ Good(s, m, 0, 0, open)
      BY <1>5 DEF Kept, Bsd
    <2>2. out.r = -2 \/ Granting(s, out, m, time, open)
      BY <1>1, <2>1, RedirectGrants
    <2> HIDE DEF out
    <2>3. Granting(s, out, m, time, open)
      BY <1>5, <2>2
    <2>4. \A x : Good(out.s, x, 0, 0, open)
      BY <2>3, GoodSpare DEF Granting
    <2>5. AddKeeps(s, out, m, time, open)
      BY <1>5, <2>3, <2>4 DEF AddKeeps, Granting, Kept, Beside, Others, Holds, Has
    <2> QED  BY <2>5 DEF out
  <1> QED  BY <1>3, <1>4, <1>5

\* _upnp_delete_redir() with any of the three
LEMMA DeleteGrants ==
    ASSUME Bsd, NEW s, NEW k \in Keys, NEW open, NEW fails, open => fails = {}, Kept(s, open)
    PROVE  LET out == DeleteRule(s, k, fails)
           IN  Kept(out.s, open) /\ Beside(s, out.s, k)
  <1> DEFINE out == DeleteRule(s, k, fails)
  <1>1. CASE kind = "ipf"
    <2>1. Open(out.s, {}, open) /\ OtherRules(s, out.s, k)
      BY <1>1, IpfDeleteKeeps DEF Kept
    <2> HIDE DEF out
    <2>2. Kept(out.s, open) /\ Beside(s, out.s, k)
      BY <1>1, <2>1 DEF Kept, Beside
    <2> QED  BY <2>2 DEF out
  <1>2. CASE kind # "ipf"
    <2>1. kind \in {"pf", "ipfw"} /\ \A m : Good(s, m, 0, 0, open)
      BY <1>2 DEF Kept, Bsd
    <2>2. ASSUME NEW m PROVE Good(out.s, m, 0, 0, open) /\ Others(s, out.s, k)
      BY <2>1, DeleteKeeps
    <2> HIDE DEF out
    <2>3. Kept(out.s, open) /\ Beside(s, out.s, k)
      BY <1>2, <2>2 DEF Kept, Beside, Others
    <2> QED  BY <2>3 DEF out
  <1> QED  BY <1>1, <1>2

\* The steps that the kernel refuses are counted.
LEMMA RefusedCounted ==
    ASSUME refused \in Nat, NEW fails \in Fails
    PROVE  /\ refused + Cardinality(fails) \in Nat
           /\ refused + Cardinality(fails) = 0 => refused = 0 /\ fails = {}
  <1>1. fails = {} \/ \E f : fails = {f}
    BY DEF Fails
  <1>2. CASE fails = {}
    <2>1. Cardinality(fails) = 0
      BY <1>2, FS_EmptySet
    <2> QED  BY <1>2, <2>1
  <1>3. CASE \E f : fails = {f}
    <2>1. Cardinality(fails) = 1
      BY <1>3, FS_Singleton
    <2> QED  BY <2>1
  <1> QED  BY <1>1, <1>2, <1>3

\* A call for k that ends in a state s keeps the invariant, when what is granted
\* afterwards is so.
LEMMA GrantCall ==
    ASSUME GrantInv, NEW op, NEW k \in Keys, NEW want, NEW s, NEW r, NEW fails \in Fails,
           Done(op, k, want, s, r, fails), Kept(s, refused = 0 /\ fails = {}), Beside(fw, s, k),
           NEW g, granted' = [granted EXCEPT ![k] = g], g # <<>> => Holds(s, k, g)
    PROVE  GrantInv'
  <1> DEFINE open == refused = 0 /\ fails = {}
  <1>1. /\ BackInv /\ refused \in Nat /\ Kept(fw, refused = 0) /\ Bsd
        /\ kind = "pf" => Rhosts = {0}
        /\ granted = [x \in Keys |-> granted[x]]
        /\ \A x \in Keys : granted[x] # <<>> => Holds(fw, x, granted[x])
    BY DEF GrantInv, BackInv
  <1>2. IsState(s)
    BY KeptState
  <1>3. BackInv'
    BY <1>1, <1>2, CallDone
  <1>4. fw' = s /\ kind' = kind /\ refused' = refused + Cardinality(fails)
    BY DEF Done
  <1>5. refused' \in Nat /\ (refused' = 0 => refused = 0 /\ fails = {})
    BY <1>1, <1>4, RefusedCounted
  <1>6. Kept(s, refused' = 0)
    BY <1>5, KeptState
  <1>7. Kept(fw, refused = 0 /\ fails = {})
    BY <1>1, KeptState
  <1>8. granted' = [x \in Keys |-> granted'[x]] /\ granted'[k] = g
        /\ \A x \in Keys : x # k => granted'[x] = granted[x]
    BY <1>1
  <1>9. ASSUME NEW x \in Keys, granted'[x] # <<>> PROVE Holds(s, x, granted'[x])
    <2>1. CASE x = k
      BY <1>8, <1>9, <2>1
    <2>2. CASE x # k
      <3>1. Holds(fw, x, granted'[x])
        BY <1>1, <1>8, <1>9, <2>2
      <3> QED  BY <1>7, <2>2, <3>1, HeldBeside
    <2> QED  BY <2>1, <2>2
  <1>10. Kept(fw, refused = 0)'
    BY <1>4, <1>6 DEF Kept, Open, Typed, Good, Booked
  <1>11. \A x \in Keys : granted'[x] # <<>> => Holds(fw, x, granted[x])'
    BY <1>4, <1>9 DEF Holds
  <1> QED  BY <1>1, <1>3, <1>4, <1>5, <1>8, <1>10, <1>11 DEF GrantInv

\* A daemon that starts has granted nothing.
LEMMA GrantStart ==
    ASSUME kind # "nft", BackInit, kind = "pf" => Rhosts = {0}
    PROVE  GrantInv
  <1>1. BackInv
    BY BackStart
  <1>2. /\ fw.rdr = <<>> /\ fw.filter = <<>> /\ fw.nat = <<>> /\ fw.stamps = <<>> /\ refused = 0
        /\ granted = [x \in Keys |-> <<>>]
    BY DEF BackInit
  <1>3. Typed(fw) /\ Opens(fw, {}) /\ Booked(fw)
    BY <1>1, <1>2 DEF BackInv, Typed, Opens, Booked, Once, KeysOf
  <1>4. ASSUME NEW C, NEW m PROVE Covers(<<>>, <<>>, C, m, 0)
    <2>1. <<>> \in Seq({})
      OBVIOUS
    <2>2. \A S : Tally(<<>>, S) \in Nat /\ PlacesIn(<<>>, S) = {}
      <3>1. ASSUME NEW S PROVE Tally(<<>>, S) \in Nat
        BY <2>1, TallyTyped
      <3> QED  BY <3>1 DEF PlacesIn
    <2>3. \A S, R : Tally(<<>>, S) = Tally(<<>>, R)
      BY <2>2 DEF Tally
    <2>4. ASSUME NEW c PROVE Tally(<<>>, c[1]) + More(m, c[1], 0) <= Tally(<<>>, c[2])
      <3>1. More(m, c[1], 0) = 0
        BY DEF More
      <3> QED  BY <2>2, <2>3, <3>1
    <2> QED  BY <2>4 DEF Covers
  <1>5. \A m : Good(fw, m, 0, 0, TRUE)
    BY <1>2, <1>3, <1>4 DEF Good
  <1>6. Kept(fw, refused = 0)
    BY <1>2, <1>3, <1>5 DEF Kept, Open
  <1> QED  BY <1>1, <1>2, <1>6 DEF GrantInv

\* AddPortMapping
LEMMA AddKeepsGrants ==
    ASSUME GrantInv, ListsRules, AddsTriggers, NEW m \in Mapping, NEW t \in Times, NEW same,
           NEW junk, NEW at, BackAdd(m, t, same, junk, at)
    PROVE  GrantInv'
  <1> DEFINE k == Key(m)
             want == [iaddr |-> m.iaddr, iport |-> m.iport]
  <1>a. PICK fails \in Fails : \E out \in {RedirectRule(fw, m, t, same, junk, at, fails)} :
          /\ Done("add", k, want, out.s, out.r, fails)
          /\ granted' = IF out.r = -2 THEN granted
                        ELSE IF out.r = 0 /\ (table[k] = NoTarget \/ granted[k] # <<>>)
                        THEN [granted EXCEPT ![k] = <<m, t>>]
                        ELSE [granted EXCEPT ![k] = <<>>]
    BY DEF BackAdd
  <1>1. PICK out \in {RedirectRule(fw, m, t, same, junk, at, fails)} :
          /\ Done("add", k, want, out.s, out.r, fails)
          /\ granted' = IF out.r = -2 THEN granted
                        ELSE IF out.r = 0 /\ (table[k] = NoTarget \/ granted[k] # <<>>)
                        THEN [granted EXCEPT ![k] = <<m, t>>]
                        ELSE [granted EXCEPT ![k] = <<>>]
    BY <1>a
  <1>2. fails \cap {"nat", "get"} = {}
    BY DEF Fails, ListsRules, AddsTriggers
  <1>3. /\ Bsd /\ Kept(fw, refused = 0) /\ granted = [x \in Keys |-> granted[x]]
        /\ \A x \in Keys : granted[x] # <<>> => Holds(fw, x, granted[x])
    BY DEF GrantInv, BackInv
  <1>4. Kept(fw, refused = 0 /\ fails = {}) /\ Beside(fw, fw, k)
    BY <1>3, KeptState DEF Beside, OtherRules, Others
  <1>5. out = RedirectRule(fw, m, t, same, junk, at, fails) /\ k \in Keys
    BY <1>1, MappingTyped
  <1>6. AddKeeps(fw, out, m, t, refused = 0 /\ fails = {})
    BY <1>2, <1>3, <1>4, <1>5, AddGrants
  <1> HIDE DEF k, want
  <1>7. CASE out.r = -2 /\ out.s = fw
    <2>1. granted' = [granted EXCEPT ![k] = granted[k]] /\ (granted[k] # <<>> => Holds(fw, k, granted[k]))
      BY <1>1, <1>3, <1>5, <1>7
    <2>2. /\ Done("add", k, want, out.s, out.r, fails) /\ Beside(fw, out.s, k)
          /\ Kept(out.s, refused = 0 /\ fails = {})
          /\ granted[k] # <<>> => Holds(out.s, k, granted[k])
      BY <1>1, <1>4, <1>7, <2>1
    <2> QED  BY <1>5, <2>1, <2>2, GrantCall
  <1>8. CASE out.r # -2 \/ out.s # fw
    <2>1. /\ Kept(out.s, refused = 0 /\ fails = {}) /\ Beside(fw, out.s, k)
          /\ out.r = 0 => Holds(out.s, k, <<m, t>>)
      BY <1>6, <1>8 DEF AddKeeps, k
    <2>2. CASE out.r = -2
      <3>1. granted' = [granted EXCEPT ![k] = granted[k]]
        BY <1>1, <1>3, <1>5, <2>2
      <3>2. AddsFor(fw, out, m)
        BY <1>2, <1>3, <1>5, KeptState, RuleAdds
      <3> QED  BY <1>8, <2>2, <3>2 DEF AddsFor, ChangesFor
    <2>3. CASE out.r = 0 /\ (table[k] = NoTarget \/ granted[k] # <<>>)
      <3>1. granted' = [granted EXCEPT ![k] = <<m, t>>]
        BY <1>1, <2>3
      <3> QED  BY <1>1, <1>5, <2>1, <2>3, <3>1, GrantCall
    <2>4. CASE out.r # -2 /\ ~(out.r = 0 /\ (table[k] = NoTarget \/ granted[k] # <<>>))
      <3>1. granted' = [granted EXCEPT ![k] = <<>>]
        BY <1>1, <2>4
      <3> QED  BY <1>1, <1>5, <2>1, <3>1, GrantCall
    <2> QED  BY <2>2, <2>3, <2>4
  <1> QED  BY <1>7, <1>8

\* DeletePortMapping
LEMMA DeleteKeepsGrants ==
    ASSUME GrantInv, NEW k \in Keys, BackDelete(k)
    PROVE  GrantInv'
  <1>a. PICK fails \in Fails : \E out \in {DeleteRule(fw, k, fails)} :
          Done("delete", k, NoTarget, out.s, out.r, fails)
    BY DEF BackDelete
  <1>1. PICK out \in {DeleteRule(fw, k, fails)} : Done("delete", k, NoTarget, out.s, out.r, fails)
    BY <1>a
  <1>2. granted' = [granted EXCEPT ![k] = <<>>]
    BY DEF BackDelete
  <1>3. Bsd /\ Kept(fw, refused = 0)
    BY DEF GrantInv, BackInv
  <1>4. Kept(fw, refused = 0 /\ fails = {})
    BY <1>3, KeptState
  <1>5. out = DeleteRule(fw, k, fails)
    BY <1>1
  <1>6. Kept(out.s, refused = 0 /\ fails = {}) /\ Beside(fw, out.s, k)
    BY <1>3, <1>4, <1>5, DeleteGrants
  <1> QED  BY <1>1, <1>2, <1>6, GrantCall

\* Every step keeps the invariant.
LEMMA GrantStep ==
    ASSUME GrantInv, ListsRules, AddsTriggers, [BackNext]_bvars
    PROVE  GrantInv'
  <1>1. ASSUME NEW m \in Mapping, NEW t \in Times, NEW same \in BOOLEAN, NEW junk \in Junk,
               NEW at \in 1 .. 2, BackAdd(m, t, same, junk, at)
        PROVE  GrantInv'
    BY <1>1, AddKeepsGrants
  <1>2. ASSUME NEW k \in Keys, BackDelete(k) PROVE GrantInv'
    BY <1>2, DeleteKeepsGrants
  <1>3. ASSUME NEW p \in Peers, BackPeer(p) PROVE GrantInv'
    BY <1>3 DEF BackPeer, GrantInv, BackInv, Bsd
  <1>4. CASE UNCHANGED bvars
    BY <1>4 DEF bvars, GrantInv, BackInv, Bsd, IsState, Kept, Holds, Open, Typed, Good, Booked
  <1> QED  BY <1>1, <1>2, <1>3, <1>4 DEF BackNext

\* The invariant says what the clients were promised.
LEMMA GrantsHold ==
    ASSUME GrantInv
    PROVE  GrantedKept
  <1>1. /\ Bsd /\ IsState(fw) /\ Kept(fw, refused = 0) /\ (kind = "pf" => Rhosts = {0})
        /\ fw.rdr \in Seq(Mapping) /\ Once(fw.rdr, Mapping)
        /\ \A x \in Keys : granted[x] # <<>> => Holds(fw, x, granted[x])
    BY OnceRules DEF GrantInv, BackInv, IsState, OnceEach
  <1>2. kind = "pf" => \A m : Good(fw, m, 0, 0, refused = 0)
    BY <1>1 DEF Kept
  <1>3. kind = "ipf" => Open(fw, {}, refused = 0)
    BY <1>1 DEF Kept
  <1>4. ASSUME NEW k \in Keys, granted[k] # <<>>, NEW m, m = granted[k][1]
        PROVE  /\ kind \in {"pf", "ipf"} /\ refused = 0 =>
                      \E i \in 1 .. Len(fw.filter) :
                          LetsIn(fw.filter[i], m, IF kind = "pf" THEN m.iport ELSE m.eport)
               /\ kind # "ipf" => TimeOf(fw, k) = granted[k][2]
    <2>1. /\ m \in Mapping /\ At(fw.rdr, k) = {m}
          /\ kind # "ipf" => TimeIn(fw.stamps, k) = granted[k][2]
      BY <1>1, <1>4 DEF Holds
    <2>2. PICK i \in 1 .. Len(fw.rdr) : fw.rdr[i] = m
      BY <2>1 DEF At
    <2>3. ASSUME kind = "pf", refused = 0
          PROVE  \E j \in 1 .. Len(fw.filter) : LetsIn(fw.filter[j], m, m.iport)
      <3> DEFINE S == RdrTo(m.iaddr, m.iport, m.proto)
                 R == FilterTo(m.iaddr, m.iport, m.proto)
                 c == <<S, R>>
      <3>1. fw.filter \in Seq(FilterType) /\ Covers(fw.rdr, fw.filter, Filters, m, 0)
        BY <1>2, <2>3, BookedLists DEF Good
      <3>2. m \in S
        BY <2>1 DEF RdrTo
      <3>3. c \in Filters
        <4>1. m.iaddr \in Iaddrs /\ m.iport \in Iports /\ m.proto \in {"TCP", "UDP"}
          BY <2>1, BackEndsAssumption DEF Mapping
        <4> QED  BY <4>1 DEF Filters
      <3>4. Tally(fw.rdr, c[1]) + More(m, c[1], 0) <= Tally(fw.filter, c[2])
        BY <3>1, <3>3 DEF Covers
      <3>5. More(m, S, 0) = 0
        BY DEF More
      <3> HIDE DEF S, R
      <3>6. Tally(fw.rdr, S) \in Nat /\ Tally(fw.filter, R) \in Nat
        BY <1>1, <3>1, TallyTyped
      <3>7. Tally(fw.rdr, S) > 0
        BY <1>1, <2>2, <3>2, Tallied
      <3>8. Tally(fw.filter, R) > 0
        BY <3>4, <3>5, <3>6, <3>7
      <3>9. PICK j \in 1 .. Len(fw.filter) : fw.filter[j] \in R
        BY <3>1, <3>8, Tallied
      <3>10. fw.filter[j].rhost = 0
        BY <1>1, <2>3, <3>9 DEF R, FilterTo, FilterType
      <3> QED  BY <3>9, <3>10 DEF R, FilterTo, LetsIn
    <2>4. ASSUME kind = "ipf", refused = 0
          PROVE  \E j \in 1 .. Len(fw.filter) : LetsIn(fw.filter[j], m, m.eport)
      <3>1. PICK j \in 1 .. Len(fw.filter) : fw.filter[j] = IpfFilter(m)
        BY <1>3, <2>2, <2>4 DEF Open, Opens
      <3> QED  BY <3>1 DEF IpfFilter, LetsIn
    <2>5. TimeOf(fw, k) = TimeIn(fw.stamps, k)
      BY <1>1 DEF TimeOf, Bsd
    <2> QED  BY <2>1, <2>3, <2>4, <2>5
  <1>5. ASSUME kind = "pf", NEW a \in Iaddrs, NEW p \in Iports
        PROVE  Cardinality({i \in 1 .. Len(fw.rdr) : /\ fw.rdr[i].proto = "UDP"
                                                    /\ fw.rdr[i].iaddr = a /\ fw.rdr[i].iport = p})
                 <= Cardinality({i \in 1 .. Len(fw.nat) : /\ fw.nat[i].iaddr = a
                                                          /\ fw.nat[i].iport = p})
    <2> DEFINE S == RdrTo(a, p, "UDP")
               R == TriggerTo(a, p)
               c == <<S, R>>
    <2>1. fw.nat \in Seq(NatType) /\ \A m : Covers(fw.rdr, fw.nat, Triggers, m, 0)
      BY <1>2, <1>5, BookedLists DEF Good
    <2>2. c \in Triggers
      BY DEF Triggers
    <2>3. \A m : Tally(fw.rdr, c[1]) + More(m, c[1], 0) <= Tally(fw.nat, c[2])
      BY <2>1, <2>2 DEF Covers
    <2>4. \A m : More(m, S, 0) = 0
      BY DEF More
    <2>5. Tally(fw.rdr, S) \in Nat /\ Tally(fw.nat, R) \in Nat
      BY <1>1, <2>1, TallyTyped
    <2>6. PlacesIn(fw.rdr, S) = {i \in 1 .. Len(fw.rdr) : /\ fw.rdr[i].proto = "UDP"
                                                          /\ fw.rdr[i].iaddr = a
                                                          /\ fw.rdr[i].iport = p}
      <3>1. \A i \in 1 .. Len(fw.rdr) : fw.rdr[i] \in Mapping
        BY <1>1
      <3> QED  BY <3>1 DEF PlacesIn, RdrTo
    <2>7. PlacesIn(fw.nat, R) = {i \in 1 .. Len(fw.nat) : /\ fw.nat[i].iaddr = a
                                                          /\ fw.nat[i].iport = p}
      <3>1. \A i \in 1 .. Len(fw.nat) : fw.nat[i] \in NatType
        BY <2>1
      <3> QED  BY <3>1 DEF PlacesIn, TriggerTo
    <2> HIDE DEF S, R
    <2>8. Tally(fw.rdr, S) <= Tally(fw.nat, R)
      BY <2>3, <2>4, <2>5
    <2> QED  BY <2>6, <2>7, <2>8 DEF Tally
  <1> QED  BY <1>4, <1>5 DEF GrantedKept

\* GrantedKept: with pf, ipfilter and ipfw a client for which upnp_redirect() succeeded
\* keeps its filter rule and the end of its lease, and with pf's port triggering enough
\* rules for that, whatever other clients do. The kernel tells which rules it has and
\* refuses no rule for port triggering. With pf the clients name no remote host:
\* delete_filter_rule() takes the first filter rule of the internal address and port,
\* which may be that of a mapping for another remote host.
THEOREM GrantsAreKept ==
    ASSUME ListsRules, AddsTriggers
    PROVE  BackSpec /\ kind # "nft" /\ (kind = "pf" => Rhosts = {0}) => []GrantedKept
  <1>1. BackInit /\ kind # "nft" /\ (kind = "pf" => Rhosts = {0}) => GrantInv
    BY GrantStart
  <1>2. GrantInv /\ [BackNext]_bvars => GrantInv'
    BY GrantStep
  <1>3. GrantInv => GrantedKept
    BY GrantsHold
  <1> QED  BY <1>1, <1>2, <1>3, PTL DEF BackSpec

=============================================================================
