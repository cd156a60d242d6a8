----------------------------- MODULE CallsProofs -----------------------------
(***************************************************************************)
(* What Steps (Calls) computes, for the proofs about the components that    *)
(* use it: the function that it is defined by exists, and what every step   *)
(* keeps holds at the end. Both rest on induction over a set of numbers,    *)
(* which comes from the least element that every such set has.              *)
(***************************************************************************)
EXTENDS Calls, SequencesExt, FiniteSets, WellFoundedInduction, SequenceTheorems,
        FiniteSetTheorems, TLAPS

\* Every set of natural numbers that is not empty has a least element.
LEMMA LeastNatural ==
    ASSUME NEW S, S \subseteq Nat, S # {}
    PROVE  \E m \in S : \A k \in S : m <= k
  <1>1. \E m \in S : \A k \in S : ~(<<k, m>> \in OpToRel(<, Nat))
    BY NatLessThanWellFounded, WFMin
  <1>2. PICK m \in S : \A k \in S : ~(<<k, m>> \in OpToRel(<, Nat))
    BY <1>1
  <1>3. \A k \in S : m <= k
    <2> TAKE k \in S
    <2>1. k \in Nat /\ m \in Nat
      OBVIOUS
    <2>2. ~(k < m)
      BY <1>2, <2>1 DEF OpToRel
    <2> QED  BY <2>1, <2>2
  <1> QED  BY <1>3

\* Induction: a set with 0 and with the successor of each of its numbers has all.
LEMMA AllNaturals ==
    ASSUME NEW S, 0 \in S, \A n \in Nat : n \in S => n + 1 \in S
    PROVE  Nat \subseteq S
  <1> DEFINE B == Nat \ S
  <1> SUFFICES ASSUME B # {} PROVE FALSE
    OBVIOUS
  <1>1. PICK m \in B : \A k \in B : m <= k
    BY LeastNatural
  <1>2. m \in Nat /\ m # 0 /\ m \notin S
    OBVIOUS
  <1>3. m - 1 \in Nat /\ ~(m <= m - 1) /\ (m - 1) + 1 = m
    BY <1>2
  <1>4. m - 1 \in S
    BY <1>1, <1>3
  <1> QED  BY <1>2, <1>3, <1>4

\* What holds of the first value and is kept by every step holds of all of them.
LEMMA KeptBySteps ==
    ASSUME NEW f, NEW n \in Nat, NEW T, f[0] \in T,
           \A i \in 1 .. n : f[i - 1] \in T => f[i] \in T
    PROVE  \A i \in 0 .. n : f[i] \in T
  <1> DEFINE S == {i \in Nat : i <= n => f[i] \in T}
  <1>1. 0 \in S
    OBVIOUS
  <1>2. ASSUME NEW i \in Nat, i \in S PROVE i + 1 \in S
    <2> SUFFICES ASSUME i + 1 <= n PROVE f[i + 1] \in T
      BY <1>2
    <2>1. i + 1 \in 1 .. n /\ (i + 1) - 1 = i /\ i <= n
      OBVIOUS
    <2> QED  BY <1>2, <2>1
  <1> HIDE DEF S
  <1>3. Nat \subseteq S
    BY <1>1, <1>2, AllNaturals
  <1> QED  BY <1>3 DEF S

\* f applies g[1], g[2] ... g[n] to s, one after the other
Applies(f, s, n, g) == f = [i \in 0 .. n |-> IF i = 0 THEN s ELSE g[i][f[i - 1]]]

\* The function that applies g[1], g[2] ... g[n] to s, one after the other, exists.
LEMMA StepsExist ==
    ASSUME NEW n \in Nat, NEW T, NEW s \in T, NEW g \in [1 .. n -> [T -> T]]
    PROVE  \E f \in [0 .. n -> T] : Applies(f, s, n, g)
  <1> DEFINE Fits(f, k) == f = [i \in 0 .. k |-> IF i = 0 THEN s ELSE g[i][f[i - 1]]]
             S == {k \in Nat : k <= n => \E f \in [0 .. k -> T] : Fits(f, k)}
  <1>1. 0 \in S
    <2> DEFINE f == [i \in 0 .. 0 |-> s]
    <2>1. f \in [0 .. 0 -> T]
      OBVIOUS
    <2>2. Fits(f, 0)
      OBVIOUS
    <2> QED  BY <2>1, <2>2
  <1>2. ASSUME NEW k \in Nat, k \in S PROVE k + 1 \in S
    <2> SUFFICES ASSUME k + 1 <= n PROVE \E f \in [0 .. k + 1 -> T] : Fits(f, k + 1)
      <3> HIDE DEF Fits
      <3> QED  OBVIOUS
    <2>1. PICK f \in [0 .. k -> T] : Fits(f, k)
      BY <1>2
    <2>2. k + 1 \in 1 .. n /\ (k + 1) - 1 = k /\ k \in 0 .. k
      OBVIOUS
    <2>3. g[k + 1][f[k]] \in T
      BY <2>2
    <2> DEFINE h == [i \in 0 .. k + 1 |-> IF i <= k THEN f[i] ELSE g[k + 1][f[k]]]
    <2>4. h \in [0 .. k + 1 -> T]
      BY <2>3
    <2>5. ASSUME NEW i \in 0 .. k + 1
          PROVE  h[i] = IF i = 0 THEN s ELSE g[i][h[i - 1]]
      <3>1. CASE i = 0
        <4>1. f[0] = s
          BY <2>1
        <4> QED  BY <3>1, <4>1
      <3>2. CASE i # 0 /\ i <= k
        <4>1. i \in 0 .. k /\ i - 1 \in 0 .. k /\ i - 1 <= k
          BY <3>2
        <4>2. f[i] = g[i][f[i - 1]]
          BY <2>1, <3>2, <4>1
        <4> QED  BY <3>2, <4>1, <4>2
      <3>3. CASE i = k + 1
        BY <2>2, <3>3
      <3> QED  BY <3>1, <3>2, <3>3
    <2>6. Fits(h, k + 1)
      <3>1. h = [i \in 0 .. k + 1 |-> h[i]]
        OBVIOUS
      <3> HIDE DEF h
      <3> QED  BY <2>5, <3>1
    <2> QED  BY <2>4, <2>6
  <1> HIDE DEF S
  <1>3. n \in S
    BY <1>1, <1>2, AllNaturals
  <1> QED  BY <1>3 DEF S, Applies

\* FlattenSeq puts one sequence after the other behind the empty one.
LEMMA FlattenSteps ==
    ASSUME NEW T, NEW n \in Nat, NEW seqs \in [1 .. n -> Seq(T)]
    PROVE  \E f \in [0 .. n -> Seq(T)] : /\ f[0] = <<>>
                                         /\ \A i \in 1 .. n : f[i] = f[i - 1] \o seqs[i]
                                         /\ FlattenSeq(seqs) = f[n]
  <1> DEFINE g == [i \in 1 .. n |-> [r \in Seq(T) |-> r \o seqs[i]]]
             Fits(f) == f = [i \in 1 .. n |-> IF i = 1 THEN seqs[i] ELSE f[i - 1] \o seqs[i]]
             flat == CHOOSE f : Fits(f)
  <1>1. Len(seqs) = n /\ seqs \in Seq(Seq(T))
    OBVIOUS
  <1>2. g \in [1 .. n -> [Seq(T) -> Seq(T)]] /\ <<>> \in Seq(T)
    OBVIOUS
  <1>3. PICK f \in [0 .. n -> Seq(T)] : Applies(f, <<>>, n, g)
    <2> HIDE DEF g
    <2> QED  BY <1>2, StepsExist
  <1>4. f[0] = <<>> /\ \A i \in 1 .. n : f[i] = f[i - 1] \o seqs[i]
    <2>1. ASSUME NEW i \in 0 .. n PROVE f[i] = IF i = 0 THEN <<>> ELSE g[i][f[i - 1]]
      <3> HIDE DEF g
      <3> QED  BY <1>3 DEF Applies
    <2>2. \A i \in 1 .. n : i \in 0 .. n /\ i # 0 /\ f[i - 1] \in Seq(T)
      OBVIOUS
    <2>3. \A i \in 1 .. n, r \in Seq(T) : g[i][r] = r \o seqs[i]
      OBVIOUS
    <2> HIDE DEF g
    <2>4. f[0] = <<>>
      BY <2>1
    <2>5. ASSUME NEW i \in 1 .. n PROVE f[i] = f[i - 1] \o seqs[i]
      <3>1. f[i] = g[i][f[i - 1]]
        BY <2>1, <2>2
      <3>2. g[i][f[i - 1]] = f[i - 1] \o seqs[i]
        BY <2>2, <2>3
      <3> QED  BY <3>1, <3>2
    <2> QED  BY <2>4, <2>5
  <1>5. CASE n = 0
    <2>1. FlattenSeq(seqs) = seqs
      BY <1>1, <1>5 DEF FlattenSeq
    <2>2. seqs = <<>>
      BY <1>1, <1>5
    <2> QED  BY <1>4, <1>5, <2>1, <2>2
  <1>6. CASE n # 0
    <2>1. FlattenSeq(seqs) = flat[n]
      BY <1>1, <1>6 DEF FlattenSeq
    <2> DEFINE h == [i \in 1 .. n |-> f[i]]
    <2>2. 1 - 1 = 0 /\ 1 \in 1 .. n
      BY <1>6
    <2>3. f[1] = seqs[1]
      <3>1. f[1] = <<>> \o seqs[1] /\ seqs[1] \in Seq(T)
        BY <1>4, <2>2
      <3>2. <<>> \o seqs[1] = seqs[1]
        BY <3>1
      <3> QED  BY <3>1, <3>2
    <2>4. Fits(h)
      <3>1. ASSUME NEW i \in 1 .. n
            PROVE  h[i] = IF i = 1 THEN seqs[i] ELSE h[i - 1] \o seqs[i]
        <4>1. CASE i = 1
          BY <2>3, <4>1
        <4>2. CASE i # 1
          <5>1. i - 1 \in 1 .. n
            BY <4>2
          <5> QED  BY <1>4, <4>2, <5>1
        <4> QED  BY <4>1, <4>2
      <3>2. h = [i \in 1 .. n |-> h[i]]
        OBVIOUS
      <3> HIDE DEF h
      <3> QED  BY <3>1, <3>2
    <2>5. Fits(flat)
      BY <2>4
    <2> HIDE DEF flat, h
    <2>6. \A i \in 1 .. n : flat[i] = IF i = 1 THEN seqs[i] ELSE flat[i - 1] \o seqs[i]
      BY <2>5
    <2> DEFINE S == {k \in Nat : k + 1 <= n => flat[k + 1] = f[k + 1]}
    <2>7. 0 \in S
      BY <2>2, <2>3, <2>6
    <2>8. ASSUME NEW k \in Nat, k \in S PROVE k + 1 \in S
      <3> SUFFICES ASSUME (k + 1) + 1 <= n PROVE flat[(k + 1) + 1] = f[(k + 1) + 1]
        BY <2>8
      <3>1. PICK i \in 1 .. n : i = (k + 1) + 1
        OBVIOUS
      <3>2. i - 1 = k + 1 /\ i # 1 /\ k + 1 <= n
        BY <3>1
      <3>3. flat[i - 1] = f[i - 1]
        BY <2>8, <3>2
      <3>4. flat[i] = flat[i - 1] \o seqs[i] /\ f[i] = f[i - 1] \o seqs[i]
        BY <1>4, <2>6, <3>2
      <3> QED  BY <3>1, <3>3, <3>4
    <2> HIDE DEF S
    <2>9. n - 1 \in S
      <3>1. Nat \subseteq S
        BY <2>7, <2>8, AllNaturals
      <3>2. n - 1 \in Nat
        BY <1>6
      <3> QED  BY <3>1, <3>2
    <2>10. (n - 1) + 1 = n
      OBVIOUS
    <2>11. flat[n] = f[n]
      BY <2>9, <2>10 DEF S
    <2> QED  BY <1>4, <2>1, <2>11
  <1> QED  BY <1>5, <1>6

\* What FlattenSeq makes of sequences over T is one.
LEMMA FlattenTyped ==
    ASSUME NEW T, NEW n \in Nat, NEW seqs \in [1 .. n -> Seq(T)]
    PROVE  FlattenSeq(seqs) \in Seq(T)
  <1>1. PICK f \in [0 .. n -> Seq(T)] : /\ f[0] = <<>>
                                        /\ \A i \in 1 .. n : f[i] = f[i - 1] \o seqs[i]
                                        /\ FlattenSeq(seqs) = f[n]
    BY FlattenSteps
  <1>2. n \in 0 .. n
    OBVIOUS
  <1> QED  BY <1>1, <1>2

-----------------------------------------------------------------------------
(***************************************************************************)
(* The members of a list that are picked out, as Those does. The test is a *)
(* parameter of Those; here it is in `seqs', the sequences of one member   *)
(* or none that Those flattens.                                            *)
(***************************************************************************)
Picks(seqs, q) == /\ seqs = [i \in DOMAIN q |-> seqs[i]]
                  /\ \A i \in DOMAIN q : seqs[i] = <<q[i]>> \/ seqs[i] = <<>>

\* r has the members of the first k of q that are picked, in their order: f says
\* where each of them was
Picked(r, f, k, seqs, q) ==
    /\ f \in [1 .. Len(r) -> 1 .. k]
    /\ \A i \in 1 .. Len(r) : r[i] = q[f[i]] /\ seqs[f[i]] # <<>>
    /\ \A i, j \in 1 .. Len(r) : i < j => f[i] < f[j]
    /\ \A m \in 1 .. k : seqs[m] # <<>> => \E i \in 1 .. Len(r) : f[i] = m

\* A list of those members is a list of members, each from its own place.
LEMMA PickedOnes ==
    ASSUME NEW T, NEW q \in Seq(T), NEW seqs, Picks(seqs, q)
    PROVE  /\ FlattenSeq(seqs) \in Seq(T)
           /\ \E f : Picked(FlattenSeq(seqs), f, Len(q), seqs, q)
  <1>1. PICK n \in Nat : n = Len(q)
    OBVIOUS
  <1>2. DOMAIN q = 1 .. n /\ \A i \in 1 .. n : q[i] \in T
    BY <1>1
  <1>3. \A x \in T : <<x>> \in Seq(T)
    OBVIOUS
  <1>4. <<>> \in Seq(T)
    OBVIOUS
  <1>5. \A i \in 1 .. n : seqs[i] = <<q[i]>> \/ seqs[i] = <<>>
    BY <1>2 DEF Picks
  <1>6. seqs \in [1 .. n -> Seq(T)]
    <2>1. \A i \in 1 .. n : seqs[i] \in Seq(T)
      BY <1>2, <1>3, <1>4, <1>5
    <2> QED  BY <1>2, <2>1 DEF Picks
  <1>7. FlattenSeq(seqs) \in Seq(T)
    BY <1>6, FlattenTyped
  <1>8. PICK r \in [0 .. n -> Seq(T)] : /\ r[0] = <<>>
                                        /\ \A i \in 1 .. n : r[i] = r[i - 1] \o seqs[i]
                                        /\ FlattenSeq(seqs) = r[n]
    BY <1>6, FlattenSteps
  <1> DEFINE S == {k \in Nat : k <= n => \E f : Picked(r[k], f, k, seqs, q)}
  <1>9. 0 \in S
    <2> DEFINE f == [i \in 1 .. 0 |-> 0]
    <2>1. Len(r[0]) = 0
      BY <1>8
    <2>2. Picked(r[0], f, 0, seqs, q)
      BY <2>1 DEF Picked
    <2> QED  BY <2>2
  <1>10. ASSUME NEW k \in Nat, k \in S, k + 1 <= n PROVE \E f : Picked(r[k + 1], f, k + 1, seqs, q)
    <2>1. PICK m \in 1 .. n : m = k + 1
      BY <1>10
    <2>2. k \in 0 .. n /\ m - 1 = k
      BY <2>1
    <2>3. PICK f : Picked(r[k], f, k, seqs, q)
      BY <1>10, <2>2
    <2>4. r[m] = r[k] \o seqs[m] /\ r[k] \in Seq(T)
      BY <1>8, <2>2
    <2>5. PICK l \in Nat : l = Len(r[k])
      BY <2>4
    <2>6. /\ f \in [1 .. l -> 1 .. k]
          /\ \A i \in 1 .. l : r[k][i] = q[f[i]] /\ seqs[f[i]] # <<>>
          /\ \A i, j \in 1 .. l : i < j => f[i] < f[j]
          /\ \A p \in 1 .. k : seqs[p] # <<>> => \E i \in 1 .. l : f[i] = p
      BY <2>3, <2>5 DEF Picked
    <2>7. CASE seqs[m] = <<>>
      <3>1. r[m] = r[k]
        BY <2>4, <2>7
      <3>2. f \in [1 .. l -> 1 .. m]
        BY <2>1, <2>6
      <3>3. ASSUME NEW p \in 1 .. m, seqs[p] # <<>> PROVE p \in 1 .. k
        <4>1. p # m
          BY <2>7, <3>3
        <4> QED  BY <2>1, <4>1
      <3>4. Picked(r[m], f, m, seqs, q)
        BY <2>5, <2>6, <3>1, <3>2, <3>3 DEF Picked
      <3> QED  BY <2>1, <3>4
    <2>8. CASE seqs[m] = <<q[m]>>
      <3> DEFINE h == [i \in 1 .. l + 1 |-> IF i = l + 1 THEN m ELSE f[i]]
      <3>1. r[m] = Append(r[k], q[m]) /\ q[m] \in T
        BY <1>2, <2>4, <2>8
      <3>2. /\ Len(r[m]) = l + 1
            /\ \A i \in 1 .. l + 1 : r[m][i] = IF i = l + 1 THEN q[m] ELSE r[k][i]
        BY <2>4, <2>5, <3>1
      <3>3. \A i \in 1 .. l + 1 : i # l + 1 => i \in 1 .. l
        OBVIOUS
      <3>4. h \in [1 .. l + 1 -> 1 .. m]
        BY <2>1, <2>6, <3>3
      <3>5. ASSUME NEW i \in 1 .. l + 1 PROVE r[m][i] = q[h[i]] /\ seqs[h[i]] # <<>>
        <4>1. <<q[m]>> # <<>>
          OBVIOUS
        <4>2. CASE i = l + 1
          <5>1. h[i] = m /\ r[m][i] = q[m]
            BY <3>2, <4>2
          <5> QED  BY <2>8, <4>1, <5>1
        <4>3. CASE i # l + 1
          <5>1. i \in 1 .. l /\ h[i] = f[i] /\ r[m][i] = r[k][i]
            BY <3>2, <3>3, <4>3
          <5> HIDE DEF h
          <5> QED  BY <2>6, <5>1
        <4> QED  BY <4>2, <4>3
      <3>6. ASSUME NEW i \in 1 .. l + 1, NEW j \in 1 .. l + 1, i < j PROVE h[i] < h[j]
        <4>1. i \in 1 .. l /\ h[i] = f[i] /\ f[i] \in 1 .. k
          BY <2>6, <3>3, <3>6
        <4>2. CASE j = l + 1
          BY <2>1, <4>1, <4>2
        <4>3. CASE j # l + 1
          BY <2>6, <3>3, <3>6, <4>1, <4>3
        <4> QED  BY <4>2, <4>3
      <3>7. ASSUME NEW p \in 1 .. m, seqs[p] # <<>> PROVE \E i \in 1 .. l + 1 : h[i] = p
        <4>1. CASE p = m
          <5>1. l + 1 \in 1 .. l + 1 /\ h[l + 1] = m
            OBVIOUS
          <5> QED  BY <4>1, <5>1
        <4>2. CASE p # m
          <5>1. p \in 1 .. k
            BY <2>1, <4>2
          <5>2. PICK i \in 1 .. l : f[i] = p
            BY <2>6, <3>7, <5>1
          <5>3. i \in 1 .. l + 1 /\ h[i] = p
            BY <5>2
          <5> QED  BY <5>3
        <4> QED  BY <4>1, <4>2
      <3> HIDE DEF h
      <3>8. Picked(r[m], h, m, seqs, q)
        BY <3>2, <3>4, <3>5, <3>6, <3>7 DEF Picked
      <3> QED  BY <2>1, <3>8
    <2> QED  BY <1>5, <2>7, <2>8
  <1> HIDE DEF S
  <1>11. n \in S
    <2>1. \A k \in Nat : k \in S => k + 1 \in S
      <3> TAKE k \in Nat
      <3>1. k \in S /\ k + 1 <= n => \E f : Picked(r[k + 1], f, k + 1, seqs, q)
        BY <1>10
      <3>2. k + 1 \in S <=> (k + 1 <= n => \E f : Picked(r[k + 1], f, k + 1, seqs, q))
        BY DEF S
      <3> QED  BY <3>1, <3>2
    <2> QED  BY <1>9, <2>1, AllNaturals
  <1>12. \E f : Picked(r[n], f, n, seqs, q)
    BY <1>11 DEF S
  <1> QED  BY <1>1, <1>7, <1>8, <1>12

-----------------------------------------------------------------------------
(***************************************************************************)
(* Lists that lose members.                                                *)
(***************************************************************************)
\* r has members of q, each from a place of its own, and all but those at Gone
Thinned(r, q, f, Gone) ==
    /\ f \in [1 .. Len(r) -> 1 .. Len(q)]
    /\ \A i, j \in 1 .. Len(r) : f[i] = f[j] => i = j
    /\ \A i \in 1 .. Len(r) : r[i] = q[f[i]] /\ f[i] \notin Gone
    /\ \A m \in 1 .. Len(q) : m \notin Gone => \E i \in 1 .. Len(r) : f[i] = m

\* The members that are left keep their order.
LEMMA RemovedAt ==
    ASSUME NEW T, NEW q \in Seq(T), NEW i \in 1 .. Len(q)
    PROVE  /\ RemoveAt(q, i) \in Seq(T) /\ Len(RemoveAt(q, i)) = Len(q) - 1
           /\ \A j \in 1 .. Len(q) - 1 : RemoveAt(q, i)[j] = IF j < i THEN q[j] ELSE q[j + 1]
  <1> DEFINE w == RemoveAt(q, i)
             n == Len(q)
  <1>0. n \in Nat /\ i \in Nat /\ n >= 1 /\ i <= n /\ 1 <= i
    OBVIOUS
  <1> DEFINE a == SubSeq(q, 1, i - 1)
             b == SubSeq(q, i + 1, n)
  <1>1. w = a \o b
    BY DEF RemoveAt
  <1>2. a \in Seq(T) /\ Len(a) = i - 1 /\ \A j \in 1 .. i - 1 : a[j] = q[j]
    BY <1>0
  <1>3. b \in Seq(T) /\ Len(b) = n - i /\ \A j \in 1 .. n - i : b[j] = q[i + j]
    BY <1>0
  <1> HIDE DEF a, b, w
  <1>4. w \in Seq(T) /\ Len(w) = n - 1
    <2>1. w \in Seq(T) /\ Len(w) = Len(a) + Len(b)
      BY <1>1, <1>2, <1>3, ConcatProperties
    <2>2. (i - 1) + (n - i) = n - 1
      BY <1>0
    <2> QED  BY <1>2, <1>3, <2>1, <2>2
  <1>5. ASSUME NEW j \in 1 .. n - 1 PROVE w[j] = IF j < i THEN q[j] ELSE q[j + 1]
    <2>1. CASE j < i
      BY <1>0, <1>1, <1>2, <1>3, <2>1
    <2>2. CASE ~(j < i)
      <3>1. j - (i - 1) \in 1 .. n - i /\ i + (j - (i - 1)) = j + 1
        BY <1>0, <2>2
      <3>2. w[j] = b[j - (i - 1)]
        BY <1>0, <1>1, <1>2, <1>3, <2>2
      <3> QED  BY <1>3, <2>2, <3>1, <3>2
    <2> QED  BY <2>1, <2>2
  <1> QED  BY <1>4, <1>5 DEF w

\* One member is taken out.
LEMMA CutThinned ==
    ASSUME NEW T, NEW q \in Seq(T), NEW i \in 1 .. Len(q)
    PROVE  /\ RemoveAt(q, i) \in Seq(T)
           /\ \E f : Thinned(RemoveAt(q, i), q, f, {i})
  <1> DEFINE w == RemoveAt(q, i)
             n == Len(q)
  <1>1. n \in Nat /\ i \in Nat /\ n >= 1 /\ i <= n /\ 1 <= i
    OBVIOUS
  <1>2. /\ w \in Seq(T) /\ Len(w) = n - 1
        /\ \A j \in 1 .. n - 1 : w[j] = IF j < i THEN q[j] ELSE q[j + 1]
    BY RemovedAt
  <1> HIDE DEF w, n
  <1> DEFINE f == [j \in 1 .. n - 1 |-> IF j < i THEN j ELSE j + 1]
  <1>3. f \in [1 .. n - 1 -> 1 .. n]
    BY <1>1
  <1>4. \A a, b \in 1 .. n - 1 : f[a] = f[b] => a = b
    BY <1>1
  <1>5. \A j \in 1 .. n - 1 : w[j] = q[f[j]] /\ f[j] # i
    BY <1>1, <1>2
  <1>6. ASSUME NEW m \in 1 .. n, m # i PROVE \E j \in 1 .. n - 1 : f[j] = m
    <2>1. CASE m < i
      <3>1. m \in 1 .. n - 1 /\ f[m] = m
        BY <1>1, <2>1
      <3> QED  BY <3>1
    <2>2. CASE m > i
      <3>1. m - 1 \in 1 .. n - 1 /\ f[m - 1] = m
        BY <1>1, <2>2
      <3> QED  BY <3>1
    <2> QED  BY <1>1, <1>6, <2>1, <2>2
  <1> HIDE DEF f
  <1>7. Thinned(w, q, f, {i})
    BY <1>2, <1>3, <1>4, <1>5, <1>6 DEF Thinned, n
  <1> QED  BY <1>2, <1>7 DEF w

\* Some members are picked out.
LEMMA PicksThinned ==
    ASSUME NEW T, NEW q \in Seq(T), NEW seqs, Picks(seqs, q), NEW Gone,
           \A i \in 1 .. Len(q) : seqs[i] = <<>> <=> i \in Gone
    PROVE  /\ FlattenSeq(seqs) \in Seq(T)
           /\ \E f : Thinned(FlattenSeq(seqs), q, f, Gone)
  <1> DEFINE r == FlattenSeq(seqs)
  <1>1. r \in Seq(T) /\ \E f : Picked(r, f, Len(q), seqs, q)
    BY PickedOnes
  <1>2. PICK f : Picked(r, f, Len(q), seqs, q)
    BY <1>1
  <1> HIDE DEF r
  <1>3. /\ f \in [1 .. Len(r) -> 1 .. Len(q)]
        /\ \A i \in 1 .. Len(r) : r[i] = q[f[i]] /\ seqs[f[i]] # <<>>
        /\ \A i, j \in 1 .. Len(r) : i < j => f[i] < f[j]
        /\ \A m \in 1 .. Len(q) : seqs[m] # <<>> => \E i \in 1 .. Len(r) : f[i] = m
    BY <1>2 DEF Picked
  <1>4. Len(r) \in Nat /\ Len(q) \in Nat
    BY <1>1
  <1>5. ASSUME NEW i \in 1 .. Len(r), NEW j \in 1 .. Len(r), f[i] = f[j] PROVE i = j
    <2>1. f[i] \in Int /\ f[j] \in Int /\ i \in Int /\ j \in Int
      BY <1>3, <1>4
    <2>2. ~(i < j) /\ ~(j < i)
      BY <1>3, <1>5, <2>1
    <2> QED  BY <2>1, <2>2
  <1>6. \A i \in 1 .. Len(r) : f[i] \in 1 .. Len(q)
    BY <1>3
  <1>7. \A i \in 1 .. Len(r) : r[i] = q[f[i]] /\ f[i] \notin Gone
    BY <1>3, <1>6
  <1>8. \A m \in 1 .. Len(q) : m \notin Gone => \E i \in 1 .. Len(r) : f[i] = m
    BY <1>3
  <1>9. \A i, j \in 1 .. Len(r) : f[i] = f[j] => i = j
    BY <1>5
  <1>10. Thinned(r, q, f, Gone)
    BY <1>3, <1>7, <1>8, <1>9 DEF Thinned
  <1> QED  BY <1>1, <1>10 DEF r

\* A list of length n has n places.
LEMMA PlacesCounted ==
    ASSUME NEW n \in Nat
    PROVE  IsFiniteSet(1 .. n) /\ Cardinality(1 .. n) = n
  <1>1. IsFiniteSet(1 .. n) /\ Cardinality(1 .. n) = IF 1 > n THEN 0 ELSE n - 1 + 1
    BY FS_Interval
  <1> QED  BY <1>1

-----------------------------------------------------------------------------
(***************************************************************************)
(* Counting: how many members of a list are in a set.                      *)
(***************************************************************************)
PlacesIn(q, S) == {i \in 1 .. Len(q) : q[i] \in S}

Tally(q, S) == Cardinality(PlacesIn(q, S))

\* One member more or less
OneIn(x, S) == IF x \in S THEN 1 ELSE 0

\* It is a number, and leaving out one place makes the difference of one member.
LEMMA TallyTyped ==
    ASSUME NEW T, NEW q \in Seq(T), NEW S
    PROVE  /\ IsFiniteSet(PlacesIn(q, S)) /\ Tally(q, S) \in Nat
           /\ \A i \in 1 .. Len(q) : /\ IsFiniteSet(PlacesIn(q, S) \ {i})
                                     /\ Cardinality(PlacesIn(q, S) \ {i}) \in Nat
                                     /\ Tally(q, S) = Cardinality(PlacesIn(q, S) \ {i})
                                                        + OneIn(q[i], S)
  <1> DEFINE I == PlacesIn(q, S)
  <1>1. IsFiniteSet(1 .. Len(q)) /\ I \in SUBSET (1 .. Len(q))
    BY PlacesCounted DEF PlacesIn
  <1>2. IsFiniteSet(I)
    BY <1>1, FS_Subset
  <1>3. Cardinality(I) \in Nat
    BY <1>2, FS_CardinalityType
  <1>4. ASSUME NEW i \in 1 .. Len(q)
        PROVE  /\ IsFiniteSet(I \ {i}) /\ Cardinality(I \ {i}) \in Nat
               /\ Cardinality(I) = Cardinality(I \ {i}) + OneIn(q[i], S)
    <2>1. i \in I <=> q[i] \in S
      BY DEF PlacesIn
    <2> HIDE DEF I
    <2>2. /\ IsFiniteSet(I \ {i})
          /\ Cardinality(I \ {i}) = IF i \in I THEN Cardinality(I) - 1 ELSE Cardinality(I)
      BY <1>2, FS_RemoveElement
    <2>3. Cardinality(I \ {i}) \in Nat
      BY <2>2, FS_CardinalityType
    <2> QED  BY <1>3, <2>1, <2>2, <2>3 DEF OneIn
  <1> QED  BY <1>2, <1>3, <1>4 DEF Tally

\* A member is added at the end.
LEMMA TallyAppend ==
    ASSUME NEW T, NEW q \in Seq(T), NEW x \in T, NEW S
    PROVE  Tally(Append(q, x), S) = Tally(q, S) + OneIn(x, S)
  <1> DEFINE w == Append(q, x)
  <1>1. PICK n \in Nat : n = Len(q)
    OBVIOUS
  <1>2. /\ w \in Seq(T) /\ Len(w) = n + 1 /\ w[n + 1] = x /\ \A i \in 1 .. n : w[i] = q[i]
        /\ n + 1 \in 1 .. Len(w)
    BY <1>1
  <1> HIDE DEF w
  <1>3. PlacesIn(w, S) \ {n + 1} = PlacesIn(q, S)
    <2>1. \A i : i \in 1 .. n <=> i \in 1 .. n + 1 /\ i # n + 1
      OBVIOUS
    <2> QED  BY <1>1, <1>2, <2>1 DEF PlacesIn
  <1>4. Tally(w, S) = Cardinality(PlacesIn(w, S) \ {n + 1}) + OneIn(w[n + 1], S)
    BY <1>2, TallyTyped
  <1> QED  BY <1>2, <1>3, <1>4 DEF Tally, w

\* A member is taken out.
LEMMA TallyCut ==
    ASSUME NEW T, NEW q \in Seq(T), NEW i \in 1 .. Len(q), NEW S
    PROVE  Tally(RemoveAt(q, i), S) = Tally(q, S) - OneIn(q[i], S)
  <1> DEFINE w == RemoveAt(q, i)
             A == PlacesIn(w, S)
             B == PlacesIn(q, S) \ {i}
  <1>1. w \in Seq(T) /\ \E f : Thinned(w, q, f, {i})
    BY CutThinned
  <1>2. PICK f : Thinned(w, q, f, {i})
    BY <1>1
  <1> HIDE DEF w
  <1>3. /\ \A j \in 1 .. Len(w) : f[j] \in 1 .. Len(q) /\ w[j] = q[f[j]] /\ f[j] # i
        /\ \A j, k \in 1 .. Len(w) : f[j] = f[k] => j = k
        /\ \A m \in 1 .. Len(q) : m # i => \E j \in 1 .. Len(w) : f[j] = m
    BY <1>2 DEF Thinned
  <1> DEFINE g == [j \in A |-> f[j]]
  <1>4. g \in [A -> B]
    <2>1. \A j \in A : f[j] \in B
      BY <1>3 DEF PlacesIn
    <2> QED  BY <2>1
  <1>5. \A j, k \in A : g[j] = g[k] => j = k
    BY <1>3 DEF PlacesIn
  <1>6. \A m \in B : \E j \in A : g[j] = m
    <2> SUFFICES ASSUME NEW m \in B PROVE \E j \in A : g[j] = m
      OBVIOUS
    <2>1. m \in 1 .. Len(q) /\ m # i /\ q[m] \in S
      BY DEF PlacesIn
    <2>2. PICK j \in 1 .. Len(w) : f[j] = m
      BY <1>3, <2>1
    <2>3. j \in A
      BY <1>3, <2>1, <2>2 DEF PlacesIn
    <2> QED  BY <2>2, <2>3
  <1> HIDE DEF g, A, B
  <1>7. ExistsBijection(A, B)
    BY <1>4, <1>5, <1>6 DEF ExistsBijection, Bijection, Injection, Surjection, IsInjective
  <1>8. IsFiniteSet(A)
    BY <1>1, TallyTyped DEF A
  <1>9. Cardinality(B) = Cardinality(A)
    BY <1>7, <1>8, FS_Bijection
  <1>10. Cardinality(B) \in Nat /\ Tally(q, S) = Cardinality(B) + OneIn(q[i], S)
    BY TallyTyped DEF B
  <1>11. OneIn(q[i], S) \in Nat
    BY DEF OneIn
  <1>12. Tally(w, S) = Cardinality(A)
    BY DEF Tally, A
  <1> QED  BY <1>9, <1>10, <1>11, <1>12 DEF w

\* What is counted is there.
LEMMA Tallied ==
    ASSUME NEW T, NEW q \in Seq(T), NEW S
    PROVE  /\ \A i \in 1 .. Len(q) : q[i] \in S => Tally(q, S) > 0
           /\ Tally(q, S) > 0 => \E i \in 1 .. Len(q) : q[i] \in S
  <1>1. IsFiniteSet(PlacesIn(q, S)) /\ Tally(q, S) \in Nat
    BY TallyTyped
  <1>2. Tally(q, S) = 0 <=> PlacesIn(q, S) = {}
    BY <1>1, FS_EmptySet DEF Tally
  <1> QED  BY <1>1, <1>2 DEF PlacesIn

=============================================================================
